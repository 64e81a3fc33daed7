-------------------------- MODULE AccountingProofs --------------------------
(***************************************************************************)
(* Facts about the rules of the ledger that the proofs of both stores rest *)
(* on: the hash chain and the entries of a new posting (there S is the set *)
(* of lines that are hashed; each store has its own), sums over finite     *)
(* sets, and double entry.                                                 *)
(***************************************************************************)
EXTENDS Accounting, SequenceTheorems, FiniteSetTheorems, TLAPS

-----------------------------------------------------------------------------
(* Sequences.                                                              *)

\* Vec::extend: the old elements keep their places and the new ones follow.
LEMMA Extended ==
    ASSUME NEW S, NEW s \in Seq(S), NEW t \in Seq(S)
    PROVE  /\ s \o t \in Seq(S)
           /\ Len(s \o t) = Len(s) + Len(t)
           /\ \A i \in 1..Len(s) : (s \o t)[i] = s[i]
           /\ \A k \in 1..Len(t) : (s \o t)[Len(s) + k] = t[k]
<1>1. /\ s \o t \in Seq(S)
      /\ Len(s \o t) = Len(s) + Len(t)
      /\ \A i \in 1..Len(s) + Len(t) :
            (s \o t)[i] = IF i <= Len(s) THEN s[i] ELSE t[i - Len(s)]
  BY ConcatProperties
<1>2. Len(s) \in Nat /\ Len(t) \in Nat
  OBVIOUS
<1>3. ASSUME NEW k \in 1..Len(t) PROVE (s \o t)[Len(s) + k] = t[k]
  <2>1. Len(s) + k \in 1..Len(s) + Len(t) /\ ~(Len(s) + k <= Len(s))
    BY <1>2
  <2>2. Len(s) + k - Len(s) = k
    BY <1>2
  <2> QED BY <1>1, <2>1, <2>2
<1>4. ASSUME NEW i \in 1..Len(s) PROVE (s \o t)[i] = s[i]
  <2>1. i \in 1..Len(s) + Len(t) /\ i <= Len(s)
    BY <1>2
  <2> QED BY <1>1, <2>1
<1> QED BY <1>1, <1>3, <1>4

-----------------------------------------------------------------------------
(* The loop that hashes the entries of a posting.                          *)

\* The running hash is a hash, as long as the chain it starts from plus the entries
\* hashed so far (posting::compute_hash).
LEMMA RunningHashType ==
    ASSUME NEW S, NEW r, NEW lines, NEW prev \in Seq(S), NEW k \in Nat,
           \A j \in 1..k : ChainedLine(r, lines, j) \in S
    PROVE  /\ HashAfter(r, lines, prev, k) \in Seq(S)
           /\ Len(HashAfter(r, lines, prev, k)) = Len(prev) + k
<1> DEFINE tail == [j \in 1..k |-> ChainedLine(r, lines, j)]
<1>1. tail \in Seq(S) /\ Len(tail) = k
  <2>1. tail \in [1..k -> S]
    OBVIOUS
  <2> QED BY <2>1
<1>2. HashAfter(r, lines, prev, k) = prev \o tail
  BY DEF HashAfter
<1> HIDE DEF tail
<1> QED BY <1>1, <1>2, ConcatProperties

\* Before the first turn it is the head the posting starts from.
LEMMA RunningHashZero ==
    ASSUME NEW S, NEW r, NEW lines, NEW prev \in Seq(S)
    PROVE  HashAfter(r, lines, prev, 0) = prev
<1> DEFINE tail == [j \in 1..0 |-> ChainedLine(r, lines, j)]
<1>1. tail = <<>>
  OBVIOUS
<1>2. HashAfter(r, lines, prev, 0) = prev \o tail
  BY DEF HashAfter
<1> QED BY <1>1, <1>2

\* Each turn applies compute_hash to the running hash and the entry's own fields.
LEMMA RunningHashStep ==
    ASSUME NEW S, NEW r, NEW lines, NEW prev \in Seq(S), NEW k \in Nat \ {0},
           \A j \in 1..k : ChainedLine(r, lines, j) \in S
    PROVE  HashAfter(r, lines, prev, k) =
              compute_hash(HashAfter(r, lines, prev, k - 1), Salt,
                           canonical_bytes(EntryId(r, k), lines[k].account_id,
                              lines[k].direction, lines[k].amount, lines[k].asset))
<1> DEFINE line(j) == ChainedLine(r, lines, j)
           long == [j \in 1..k |-> line(j)]
           short == [j \in 1..(k - 1) |-> line(j)]
<1>1. HashAfter(r, lines, prev, k) = prev \o long
  BY DEF HashAfter
<1>2. HashAfter(r, lines, prev, k - 1) = prev \o short
  BY DEF HashAfter
<1>3. compute_hash(HashAfter(r, lines, prev, k - 1), Salt,
                   canonical_bytes(EntryId(r, k), lines[k].account_id,
                      lines[k].direction, lines[k].amount, lines[k].asset))
        = Append(prev \o short, line(k))
  BY <1>2 DEF compute_hash, ChainedLine
<1>4. \A j \in 1..k : line(j) \in S
  OBVIOUS
<1> HIDE DEF line
<1>5. long \in Seq(S) /\ short \in Seq(S)
  <2>1. long \in [1..k -> S] /\ short \in [1..(k-1) -> S]
    BY <1>4
  <2> QED BY <2>1
<1>6. Len(long) = k /\ Len(short) = k - 1
  OBVIOUS
<1>7. long = Append(short, line(k))
  <2>1. Len(Append(short, line(k))) = k
    BY <1>4, <1>5, <1>6
  <2>2. ASSUME NEW j \in 1..k PROVE long[j] = Append(short, line(k))[j]
    <3>1. CASE j = k
      BY <1>4, <1>5, <1>6, <3>1
    <3>2. CASE j # k
      <4>1. j \in 1..Len(short)
        BY <1>6, <3>2
      <4>2. Append(short, line(k))[j] = short[j]
        BY <1>4, <1>5, <4>1
      <4> QED BY <1>6, <4>1, <4>2
    <3> QED BY <3>1, <3>2
  <2> QED BY <1>4, <1>5, <1>6, <2>1, <2>2
<1> HIDE DEF long, short
<1>8. prev \o Append(short, line(k)) = Append(prev \o short, line(k))
  BY <1>4, <1>5
<1> QED BY <1>1, <1>3, <1>7, <1>8

-----------------------------------------------------------------------------
(* The entries of a new posting.                                           *)

\* The request's lines are a list, and each adds a line of S to the chain.
Hashable(S, r, lines) ==
    /\ Len(lines) \in Nat
    /\ DOMAIN lines = 1..Len(lines)
    /\ \A j \in 1..Len(lines) : ChainedLine(r, lines, j) \in S

\* The row is entry k of the posting that request r builds on head prev and number
\* seq: it has the next number, its link to the entry before it is the running hash of
\* the loop, and verify_chain would accept it after that hash.
IsEntry(row, r, req, prev, seq, k) ==
    /\ row.entry_id = EntryId(r, k)
    /\ row.posting_id = req.posting_id
    /\ row.sequence_number = seq + k
    /\ row.prev_hash = HashAfter(r, req.entries, prev, k - 1)
    /\ row.this_hash = HashAfter(r, req.entries, prev, k)
    /\ LinkOK(row, HashAfter(r, req.entries, prev, k - 1))

\* So are the entries that post builds (post_via_memory, post_via_db).
LEMMA NewEntryLinks ==
    ASSUME NEW S, NEW r, NEW req, NEW prev \in Seq(S), NEW seq \in Nat,
           PostError(req) = "none", Hashable(S, r, req.entries),
           NEW k \in 1..Len(req.entries)
    PROVE  IsEntry(CreatedEntries(r, req, prev, seq)[k], r, req, prev, seq, k)
<1> DEFINE lines == req.entries
           row == CreatedEntries(r, req, prev, seq)[k]
<1>1. /\ k \in Nat \ {0} /\ DOMAIN lines = 1..Len(lines)
      /\ \A j \in 1..k : ChainedLine(r, lines, j) \in S
  <2>1. Len(lines) \in Nat /\ k \in 1..Len(lines)
    BY DEF Hashable
  <2>2. \A j \in 1..k : j \in 1..Len(lines)
    BY <2>1
  <2> QED BY <2>1, <2>2 DEF Hashable
<1>2. row = [entry_id        |-> EntryId(r, k),
             posting_id      |-> req.posting_id,
             account_id      |-> lines[k].account_id,
             direction       |-> lines[k].direction,
             amount          |-> lines[k].amount,
             asset           |-> lines[k].asset,
             sequence_number |-> seq + k,
             prev_hash       |-> HashAfter(r, lines, prev, k - 1),
             this_hash       |-> HashAfter(r, lines, prev, k)]
  BY DEF CreatedEntries
<1>3. lines[k].direction \in Direction
  <2>1. Validated(req)
    BY DEF PostError
  <2>2. k \in DOMAIN req.entries
    BY <1>1
  <2> QED BY <2>1, <2>2 DEF Validated
<1> HIDE DEF lines, row
<1>4. HashAfter(r, lines, prev, k) =
        compute_hash(HashAfter(r, lines, prev, k - 1), Salt,
                     canonical_bytes(EntryId(r, k), lines[k].account_id,
                        lines[k].direction, lines[k].amount, lines[k].asset))
  BY <1>1, RunningHashStep
<1>5. LinkOK(row, HashAfter(r, lines, prev, k - 1))
  BY <1>2, <1>3, <1>4 DEF LinkOK
<1>6. /\ row.entry_id = EntryId(r, k)
      /\ row.posting_id = req.posting_id
      /\ row.sequence_number = seq + k
      /\ row.prev_hash = HashAfter(r, lines, prev, k - 1)
      /\ row.this_hash = HashAfter(r, lines, prev, k)
  BY <1>2
<1>7. IsEntry(row, r, req, prev, seq, k)
  BY <1>5, <1>6 DEF lines, IsEntry
<1> QED BY <1>7 DEF row

-----------------------------------------------------------------------------
(* Finite sets put in order by the number of members before each.          *)

\* The number of members before one gives each of them a place of its own, in order,
\* and no place is left out.
Ranked(S, B) ==
    LET place(e) == 1 + Cardinality({x \in S : <<x, e>> \in B})
    IN  /\ Cardinality(S) \in Nat
        /\ \A x, y \in S : <<x, y>> \in B => place(x) < place(y)
        /\ \A i \in 1..Cardinality(S) : \E e \in S : place(e) = i

\* So it is in a finite set that the relation B puts in a strict order.
LEMMA Places ==
    ASSUME NEW S, IsFiniteSet(S), NEW B,
           \A x \in S : <<x, x>> \notin B,
           \A x, y, z \in S : <<x, y>> \in B /\ <<y, z>> \in B => <<x, z>> \in B,
           \A x, y \in S : x # y => <<x, y>> \in B \/ <<y, x>> \in B
    PROVE  Ranked(S, B)
<1> DEFINE below(e) == {x \in S : <<x, e>> \in B}
           place(e) == 1 + Cardinality(below(e))
           n == Cardinality(S)
<1>1. n \in Nat
  BY FS_CardinalityType
<1>2. ASSUME NEW e \in S
      PROVE  IsFiniteSet(below(e)) /\ Cardinality(below(e)) \in Nat /\ place(e) \in 1..n
  <2>1. IsFiniteSet(below(e)) /\ Cardinality(below(e)) <= n
        /\ (Cardinality(below(e)) = n => below(e) = S)
    <3>1. below(e) \in SUBSET S
      OBVIOUS
    <3> QED BY <3>1, FS_Subset
  <2>2. below(e) # S
    OBVIOUS
  <2>3. Cardinality(below(e)) \in Nat
    BY <2>1, FS_CardinalityType
  <2> HIDE DEF below, n
  <2> QED BY <1>1, <2>1, <2>2, <2>3
<1>3. ASSUME NEW x \in S, NEW y \in S, <<x, y>> \in B PROVE place(x) < place(y)
  <2>1. below(x) \in SUBSET below(y) /\ below(x) # below(y)
    BY <1>3
  <2>2. IsFiniteSet(below(y)) /\ Cardinality(below(x)) \in Nat /\ Cardinality(below(y)) \in Nat
    BY <1>2
  <2> HIDE DEF below
  <2>3. Cardinality(below(x)) <= Cardinality(below(y)) /\ Cardinality(below(x)) # Cardinality(below(y))
    BY <2>1, <2>2, FS_Subset
  <2> QED BY <2>2, <2>3
<1>4. ASSUME NEW i \in 1..n PROVE \E e \in S : place(e) = i
  <2> DEFINE f == [e \in S |-> place(e)]
  <2>1. f \in Injection(S, 1..n)
    <3>1. f \in [S -> 1..n]
      BY <1>2
    <3>2. \A x, y \in S : place(x) = place(y) => x = y
      <4>1. \A x \in S : place(x) \in Nat
        BY <1>2
      <4> SUFFICES ASSUME NEW x \in S, NEW y \in S, place(x) = place(y), x # y
                   PROVE  FALSE
        OBVIOUS
      <4>2. place(x) < place(y) \/ place(y) < place(x)
        <5>1. <<x, y>> \in B \/ <<y, x>> \in B
          OBVIOUS
        <5> HIDE DEF place
        <5> QED BY <1>3, <5>1
      <4> HIDE DEF place
      <4> QED BY <4>1, <4>2
    <3> HIDE DEF place
    <3> QED BY <3>1, <3>2 DEF Injection, IsInjective
  <2>2. IsFiniteSet(1..n) /\ Cardinality(1..n) = n
    BY <1>1, FS_Interval
  <2> HIDE DEF f, n
  <2>3. f \in Surjection(S, 1..n)
    BY <2>1, <2>2, FS_Injection DEF n
  <2> QED BY <2>3 DEF Surjection, f
<1> QED BY <1>1, <1>3, <1>4 DEF Ranked

\* Rows whose numbers tell them apart.
Numbered(rows) ==
    /\ IsFiniteSet(rows)
    /\ \A x \in rows : x.sequence_number \in Int
    /\ \A x, y \in rows : x.sequence_number = y.sequence_number => x = y

\* The row at place i of n is one of the rows, each row has a place, and there are
\* i - 1 rows with smaller numbers.
Listed(rows, list, n) ==
    /\ n \in Nat /\ n = Cardinality(rows)
    /\ DOMAIN list = 1..n /\ Len(list) = n
    /\ \A i \in 1..n : list[i] \in rows
    /\ \A e \in rows : \E i \in 1..n : list[i] = e
    /\ \A i, j \in 1..n : i < j <=> list[i].sequence_number < list[j].sequence_number
    /\ \A i \in 1..n : \A e \in rows :
          1 + Cardinality({x \in rows : x.sequence_number < e.sequence_number}) = i
          <=> list[i] = e

\* BySequence lists the rows in the order of their numbers (Store::ledger, snapshot_all).
LEMMA ListedInSequence ==
    ASSUME NEW rows, Numbered(rows)
    PROVE  Listed(rows, BySequence(rows), Cardinality(rows))
<1> DEFINE B == {b \in rows \X rows : b[1].sequence_number < b[2].sequence_number}
           place(e) == 1 + Cardinality({x \in rows : x.sequence_number < e.sequence_number})
           list == BySequence(rows)
           n == Cardinality(rows)
<1>1. /\ \A x \in rows : <<x, x>> \notin B
      /\ \A x, y, z \in rows : <<x, y>> \in B /\ <<y, z>> \in B => <<x, z>> \in B
      /\ \A x, y \in rows : x # y => <<x, y>> \in B \/ <<y, x>> \in B
  BY DEF Numbered
<1>2. Ranked(rows, B)
  <2>1. IsFiniteSet(rows)
    BY DEF Numbered
  <2> HIDE DEF B
  <2> QED BY <1>1, <2>1, Places
<1>3. ASSUME NEW e \in rows
      PROVE  {x \in rows : <<x, e>> \in B} = {x \in rows : x.sequence_number < e.sequence_number}
  OBVIOUS
<1>4. /\ n \in Nat
      /\ \A x, y \in rows : <<x, y>> \in B => place(x) < place(y)
      /\ \A i \in 1..n : \E e \in rows : place(e) = i
  <2> HIDE DEF B
  <2> QED BY <1>2, <1>3 DEF Ranked
<1>5. list = [i \in 1..n |-> CHOOSE e \in rows : place(e) = i]
  BY DEF BySequence
<1>6. \A x \in rows : place(x) \in 1..n
  <2>1. ASSUME NEW e \in rows
        PROVE  Cardinality({x \in rows : x.sequence_number < e.sequence_number}) \in 0..(n - 1)
    <3>1. PICK below : below = {x \in rows : x.sequence_number < e.sequence_number}
      OBVIOUS
    <3>2. e \notin below /\ below \in SUBSET rows
      BY <3>1 DEF Numbered
    <3>3. IsFiniteSet(rows)
      BY DEF Numbered
    <3>4. IsFiniteSet(below) /\ Cardinality(below) <= n /\ (Cardinality(below) = n => below = rows)
      BY <3>2, <3>3, FS_Subset
    <3>5. Cardinality(below) \in Nat
      BY <3>4, FS_CardinalityType
    <3>6. Cardinality(below) # n
      BY <3>2, <3>4
    <3> HIDE DEF n
    <3>7. Cardinality(below) \in 0..(n - 1)
      BY <1>4, <3>4, <3>5, <3>6
    <3> QED BY <3>1, <3>7
  <2> HIDE DEF n
  <2> QED BY <1>4, <2>1
<1>7. \A x, y \in rows : /\ place(x) = place(y) => x = y
                         /\ x.sequence_number < y.sequence_number => place(x) < place(y)
  <2>1. \A x, y \in rows : x.sequence_number < y.sequence_number => <<x, y>> \in B
    OBVIOUS
  <2>2. \A x, y \in rows : x.sequence_number < y.sequence_number => place(x) < place(y)
    <3> HIDE DEF B, place
    <3> QED BY <1>4, <2>1
  <2>3. \A x, y \in rows : x = y \/ x.sequence_number < y.sequence_number
                                \/ y.sequence_number < x.sequence_number
    BY DEF Numbered
  <2>4. \A x, y \in rows : place(x) < place(y) => place(x) # place(y)
    <3>1. \A x \in rows : place(x) \in Int
      <4> HIDE DEF place, n
      <4> QED BY <1>4, <1>6
    <3> HIDE DEF place
    <3> QED BY <3>1
  <2> HIDE DEF place
  <2> QED BY <2>2, <2>3, <2>4
<1> HIDE DEF place, B, n
<1>8. ASSUME NEW i \in 1..n PROVE list[i] \in rows /\ place(list[i]) = i
  BY <1>4, <1>5
<1> HIDE DEF list
<1>9. DOMAIN list = 1..n /\ Len(list) = n
  <2>1. DOMAIN list = 1..n
    BY <1>5
  <2> QED BY <1>4, <1>5
<1>10. \A e \in rows : \E i \in 1..n : list[i] = e
  BY <1>6, <1>7, <1>8
<1>11. ASSUME NEW i \in 1..n, NEW j \in 1..n
       PROVE  i < j <=> list[i].sequence_number < list[j].sequence_number
  <2>1. \/ list[i].sequence_number < list[j].sequence_number
        \/ list[j].sequence_number < list[i].sequence_number
        \/ list[i] = list[j]
    BY <1>8 DEF Numbered
  <2>2. list[i].sequence_number \in Int /\ list[j].sequence_number \in Int
    BY <1>8 DEF Numbered
  <2>3. i \in Int /\ j \in Int
    BY <1>4
  <2>4. /\ list[i].sequence_number < list[j].sequence_number => i < j
        /\ list[j].sequence_number < list[i].sequence_number => j < i
        /\ list[i] = list[j] => i = j
    BY <1>7, <1>8
  <2> QED BY <2>1, <2>2, <2>3, <2>4
<1>12. \A i \in 1..n : \A e \in rows : place(e) = i <=> list[i] = e
  BY <1>7, <1>8
<1> QED BY <1>4, <1>8, <1>9, <1>10, <1>11, <1>12 DEF Listed, n, list, place

\* Rows that are added behind all others leave the list of these as it was.
LEMMA ListGrows ==
    ASSUME NEW rows, NEW early \in SUBSET rows, Numbered(rows),
           \A e \in early, x \in rows \ early : e.sequence_number < x.sequence_number,
           NEW i \in 1..Cardinality(early)
    PROVE  /\ i \in 1..Cardinality(rows)
           /\ BySequence(rows)[i] = BySequence(early)[i]
<1> DEFINE m == Cardinality(early)
           n == Cardinality(rows)
           e == BySequence(early)[i]
<1>1. Numbered(early) /\ m <= n
  <2>1. IsFiniteSet(rows)
    BY DEF Numbered
  <2>2. IsFiniteSet(early) /\ m <= n
    BY <2>1, FS_Subset
  <2> QED BY <2>2 DEF Numbered
<1>2. Listed(rows, BySequence(rows), n) /\ Listed(early, BySequence(early), m)
  BY <1>1, ListedInSequence
<1>3. m \in Nat /\ n \in Nat /\ i \in 1..m /\ i \in 1..n
  <2>1. m \in Nat /\ n \in Nat
    BY <1>2 DEF Listed
  <2> HIDE DEF m, n
  <2> QED BY <1>1, <2>1 DEF m
<1>4. e \in early /\ e \in rows
  BY <1>2, <1>3 DEF Listed
<1>5. 1 + Cardinality({x \in early : x.sequence_number < e.sequence_number}) = i
  <2> HIDE DEF e, m
  <2> QED BY <1>2, <1>3, <1>4 DEF Listed, e
<1>6. {x \in rows : x.sequence_number < e.sequence_number}
    = {x \in early : x.sequence_number < e.sequence_number}
  <2>1. ASSUME NEW x \in rows, x.sequence_number < e.sequence_number PROVE x \in early
    <3>1. x.sequence_number \in Int /\ e.sequence_number \in Int
      BY <1>4 DEF Numbered
    <3>2. x \notin early => e.sequence_number < x.sequence_number
      BY <1>4
    <3> HIDE DEF e
    <3> QED BY <2>1, <3>1, <3>2
  <2> HIDE DEF e
  <2> QED BY <2>1
<1> HIDE DEF e, m, n
<1>7. BySequence(rows)[i] = e
  <2>1. 1 + Cardinality({x \in rows : x.sequence_number < e.sequence_number}) = i
    BY <1>5, <1>6
  <2>2. \A p \in 1..n : \A r \in rows :
           1 + Cardinality({x \in rows : x.sequence_number < r.sequence_number}) = p
           <=> BySequence(rows)[p] = r
    BY <1>2 DEF Listed
  <2> QED BY <1>3, <1>4, <2>1, <2>2
<1> QED BY <1>3, <1>7 DEF e, n

\* Without its first k rows, a list is the list of the other rows.
LEMMA ListWithoutHead ==
    ASSUME NEW rows, Numbered(rows), NEW k \in 0..Cardinality(rows),
           NEW late \in SUBSET rows,
           \A i \in 1..Cardinality(rows) : BySequence(rows)[i] \in late <=> i > k
    PROVE  /\ Cardinality(late) = Cardinality(rows) - k
           /\ \A j \in 1..Cardinality(late) : BySequence(late)[j] = BySequence(rows)[k + j]
<1> DEFINE n == Cardinality(rows)
           all == BySequence(rows)
           m == Cardinality(late)
<1>1. IsFiniteSet(late) /\ Numbered(late)
  <2>1. IsFiniteSet(late)
    BY FS_Subset DEF Numbered
  <2> QED BY <2>1 DEF Numbered
<1>2. Listed(rows, all, n) /\ Listed(late, BySequence(late), m)
  BY <1>1, ListedInSequence
<1>3. n \in Nat /\ m \in Nat /\ k \in 0..n
  BY <1>2 DEF Listed
<1> HIDE DEF n, m, all
<1>4. ASSUME NEW l \in k..n
      PROVE  LET some == {all[i] : i \in (k + 1)..l}
             IN  IsFiniteSet(some) /\ Cardinality(some) = l - k
  <2> DEFINE some == {all[i] : i \in (k + 1)..l}
             f == [i \in (k + 1)..l |-> all[i]]
  <2>1. IsFiniteSet((k + 1)..l) /\ Cardinality((k + 1)..l) = l - k
    <3>1. k + 1 \in Int /\ l \in Int /\ k <= l
      BY <1>3
    <3>2. IsFiniteSet((k + 1)..l)
          /\ Cardinality((k + 1)..l) = IF k + 1 > l THEN 0 ELSE l - (k + 1) + 1
      BY <3>1, FS_Interval
    <3> QED BY <3>1, <3>2
  <2>2. \A i, j \in (k + 1)..l : all[i] = all[j] => i = j
    <3> SUFFICES ASSUME NEW i \in (k + 1)..l, NEW j \in (k + 1)..l, all[i] = all[j]
                 PROVE  i = j
      OBVIOUS
    <3>1. i \in 1..n /\ j \in 1..n
      BY <1>3
    <3>2. all[i] \in rows /\ all[j] \in rows
      BY <1>2, <3>1 DEF Listed
    <3>3. all[i].sequence_number \in Int
      BY <3>2 DEF Numbered
    <3>4. /\ i < j <=> all[i].sequence_number < all[j].sequence_number
          /\ j < i <=> all[j].sequence_number < all[i].sequence_number
      BY <1>2, <3>1 DEF Listed
    <3> QED BY <3>1, <3>3, <3>4
  <2>3. f \in Bijection((k + 1)..l, some)
    BY <2>2 DEF Bijection, Injection, Surjection, IsInjective
  <2> HIDE DEF f, some
  <2>4. IsFiniteSet(some) /\ Cardinality(some) = Cardinality((k + 1)..l)
    <3>1. ExistsBijection((k + 1)..l, some)
      BY <2>3 DEF ExistsBijection
    <3> QED BY <2>1, <3>1, FS_Bijection
  <2> QED BY <2>1, <2>4 DEF some
<1>5. late = {all[i] : i \in (k + 1)..n}
  <2>1. ASSUME NEW e \in late PROVE \E i \in (k + 1)..n : e = all[i]
    <3>1. PICK i \in 1..n : all[i] = e
      BY <1>2 DEF Listed
    <3>2. i > k
      BY <3>1 DEF n, all
    <3> QED BY <1>3, <3>1, <3>2
  <2>2. ASSUME NEW i \in (k + 1)..n PROVE all[i] \in late
    <3>1. i \in 1..n /\ i > k
      BY <1>3
    <3> QED BY <3>1 DEF n, all
  <2> QED BY <2>1, <2>2
<1>6. m = n - k
  <2>1. n \in k..n
    BY <1>3
  <2> QED BY <1>4, <1>5, <2>1 DEF m
<1>7. ASSUME NEW j \in 1..m PROVE BySequence(late)[j] = all[k + j]
  <2>1. k + j \in 1..n /\ k + j - 1 \in k..n /\ k + j \in (k + 1)..n
    BY <1>3, <1>6
  <2>2. all[k + j] \in late
    BY <1>5, <2>1
  <2>3. {x \in late : x.sequence_number < all[k + j].sequence_number}
      = {all[i] : i \in (k + 1)..(k + j - 1)}
    <3>1. ASSUME NEW x \in late, x.sequence_number < all[k + j].sequence_number
          PROVE  \E i \in (k + 1)..(k + j - 1) : x = all[i]
      <4>1. PICK i \in (k + 1)..n : x = all[i]
        BY <1>5
      <4>2. i \in 1..n
        BY <1>3
      <4>3. i < k + j
        BY <1>2, <2>1, <3>1, <4>1, <4>2 DEF Listed
      <4>4. i \in (k + 1)..(k + j - 1)
        BY <1>3, <4>3
      <4> QED BY <4>1, <4>4
    <3>2. ASSUME NEW y \in {all[i] : i \in (k + 1)..(k + j - 1)}
          PROVE  y \in late /\ y.sequence_number < all[k + j].sequence_number
      <4>1. PICK i \in (k + 1)..(k + j - 1) : y = all[i]
        OBVIOUS
      <4>2. i \in 1..n /\ i \in (k + 1)..n /\ i < k + j
        BY <1>3, <1>6
      <4>3. all[i] \in late /\ all[i].sequence_number < all[k + j].sequence_number
        BY <1>2, <1>5, <2>1, <4>2 DEF Listed
      <4> QED BY <4>1, <4>3
    <3>3. {x \in late : x.sequence_number < all[k + j].sequence_number}
          \subseteq {all[i] : i \in (k + 1)..(k + j - 1)}
      BY ONLY <3>1
    <3>4. {all[i] : i \in (k + 1)..(k + j - 1)}
          \subseteq {x \in late : x.sequence_number < all[k + j].sequence_number}
      BY ONLY <3>2
    <3> QED BY <3>3, <3>4
  <2>4. Cardinality({x \in late : x.sequence_number < all[k + j].sequence_number}) = j - 1
    <3>1. Cardinality({all[i] : i \in (k + 1)..(k + j - 1)}) = k + j - 1 - k
      <4>1. PICK l \in k..n : l = k + j - 1
        BY <2>1
      <4>2. Cardinality({all[i] : i \in (k + 1)..l}) = l - k
        BY <1>4
      <4> QED BY ONLY <4>1, <4>2
    <3>2. k + j - 1 - k = j - 1
      BY <1>3
    <3> QED BY <2>3, <3>1, <3>2
  <2>5. 1 + Cardinality({x \in late : x.sequence_number < all[k + j].sequence_number}) = j
    BY <1>3, <2>4
  <2> QED BY <1>2, <2>2, <2>5 DEF Listed
<1> QED BY <1>6, <1>7 DEF n, m, all

-----------------------------------------------------------------------------
(* Sums.  MapThenSumSet of the community modules is a CHOOSE of a recursive  *)
(* function: that one exists and what it adds up to is proved by induction   *)
(* over the subsets of the set.                                              *)

\* The sum of f over a finite set.
Sum(f, S) == MapThenSumSet(LAMBDA x : f[x], S)

\* The table that MapThenSumSet fills in.
IsTable(g, f, S) ==
    g = [s \in SUBSET S |->
            IF s = {} THEN 0
            ELSE f[CHOOSE x \in s : TRUE] + g[s \ {CHOOSE x \in s : TRUE}]]

\* Induction over the numbers of a set G.  The library's theorem takes an operator;
\* this one follows from the pigeonhole principle: were k the first number outside,
\* m |-> m + 1 would map the numbers of 0..k that have all smaller ones in G into
\* themselves without ever reaching 0.
LEMMA NatSetInduction ==
    ASSUME NEW G, 0 \in G, \A n \in Nat : n \in G => n + 1 \in G
    PROVE  \A n \in Nat : n \in G
<1> SUFFICES ASSUME NEW k \in Nat, k \notin G PROVE FALSE
  OBVIOUS
<1> DEFINE B == {m \in 0..k : \A j \in 0..m : j \in G}
           f == [m \in B |-> m + 1]
<1>1. IsFiniteSet(B)
  <2>1. IsFiniteSet(0..k)
    BY FS_Interval
  <2>2. B \in SUBSET (0..k)
    OBVIOUS
  <2> HIDE DEF B
  <2> QED BY <2>1, <2>2, FS_Subset
<1>2. ASSUME NEW m \in B PROVE m + 1 \in B
  <2>1. m \in Nat /\ m <= k /\ m \in G /\ m + 1 \in G
    OBVIOUS
  <2>2. m # k
    BY <2>1
  <2>3. \A j \in 0..(m + 1) : j = m + 1 \/ j \in 0..m
    BY <2>1
  <2> QED BY <2>1, <2>2, <2>3
<1>3. 0 \in B /\ \A m \in B : m + 1 # 0
  OBVIOUS
<1>4. \A m, l \in B : m + 1 = l + 1 => m = l
  OBVIOUS
<1> HIDE DEF B
<1>5. f \in Injection(B, B)
  BY <1>2, <1>4 DEF Injection, IsInjective
<1>6. f \in Surjection(B, B)
  <2> HIDE DEF f
  <2> QED BY <1>1, <1>5, FS_Injection
<1> QED BY <1>3, <1>6 DEF Surjection

\* A sum is the entry of that table for the whole set (FiniteSetsExt).
LEMMA Unfolded ==
    ASSUME NEW f, NEW S
    PROVE  Sum(f, S) = (CHOOSE g : IsTable(g, f, S))[S]
BY DEF Sum, MapThenSumSet, MapThenFoldSet, IsTable

\* Induction over the subsets of a finite set, one member more at a time; F is the
\* set of subsets for which the claim holds.
LEMMA SetInduction ==
    ASSUME NEW S, IsFiniteSet(S), NEW F, {} \in F,
           \A T \in SUBSET S : \A x \in S \ T : T \in F => T \cup {x} \in F
    PROVE  \A T \in SUBSET S : T \in F
<1> DEFINE G == {n \in Nat : \A T \in SUBSET S : Cardinality(T) = n => T \in F}
<1>1. ASSUME NEW T \in SUBSET S
      PROVE  /\ IsFiniteSet(T) /\ Cardinality(T) \in Nat
             /\ Cardinality(T) = 0 => T = {}
             /\ \A x \in T : Cardinality(T \ {x}) = Cardinality(T) - 1
  <2>1. IsFiniteSet(T)
    BY FS_Subset
  <2> QED BY <2>1, FS_CardinalityType, FS_EmptySet, FS_RemoveElement
<1>2. 0 \in G
  BY <1>1
<1>3. ASSUME NEW n \in Nat, n \in G PROVE n + 1 \in G
  <2> SUFFICES ASSUME NEW T \in SUBSET S, Cardinality(T) = n + 1 PROVE T \in F
    OBVIOUS
  <2>1. T # {}
    <3>1. Cardinality({}) = 0
      BY FS_EmptySet
    <3> HIDE DEF G
    <3> QED BY <3>1
  <2>2. PICK x \in T : TRUE
    BY <2>1
  <2>3. PICK R : R = T \ {x}
    OBVIOUS
  <2>4. R \in SUBSET S /\ x \in S \ R /\ T = R \cup {x} /\ Cardinality(R) = n
    BY <1>1, <2>2, <2>3
  <2>5. R \in F
    BY <1>3, <2>4
  <2> QED BY <2>4, <2>5
<1>4. \A n \in Nat : n \in G
  <2> HIDE DEF G
  <2> QED BY <1>2, <1>3, NatSetInduction
<1> QED BY <1>1, <1>4

\* A finite set of numbers that is not empty has a greatest one.
LEMMA MaxOfSet ==
    ASSUME NEW S, IsFiniteSet(S), S # {}, \A x \in S : x \in Int
    PROVE  Max(S) \in S /\ \A x \in S : Max(S) >= x
<1> DEFINE F == {T \in SUBSET S : T # {} => \E x \in T : \A y \in T : x >= y}
<1>1. {} \in F
  OBVIOUS
<1>2. ASSUME NEW T \in SUBSET S, NEW x \in S \ T, T \in F PROVE T \cup {x} \in F
  <2>1. CASE T = {}
    BY <2>1
  <2>2. CASE T # {}
    <3>1. PICK m \in T : \A y \in T : m >= y
      BY <1>2, <2>2
    <3>2. x >= m => \A y \in T : x >= y
      BY <3>1
    <3>3. x >= m \/ m >= x
      OBVIOUS
    <3> QED BY <3>1, <3>2, <3>3
  <2> QED BY <2>1, <2>2
<1>3. S \in F
  <2> HIDE DEF F
  <2>1. \A T \in SUBSET S : T \in F
    BY <1>1, <1>2, SetInduction
  <2> QED BY <2>1
<1>4. PICK m \in S : \A y \in S : m >= y
  BY <1>3
<1> QED BY <1>4 DEF Max

\* The table exists, so that CHOOSE takes one.
LEMMA TableExists ==
    ASSUME NEW f, NEW S, IsFiniteSet(S)
    PROVE  \E g : IsTable(g, f, S)
<1> DEFINE pick(s) == CHOOSE x \in s : TRUE
           value(g, s) == IF s = {} THEN 0 ELSE f[pick(s)] + g[s \ {pick(s)}]
           small(n) == {s \in SUBSET S : Cardinality(s) <= n}
           G == {n \in Nat : \E g : g = [s \in small(n) |-> value(g, s)]}
<1>1. ASSUME NEW s \in SUBSET S
      PROVE  /\ Cardinality(s) \in Nat
             /\ Cardinality(s) = 0 <=> s = {}
             /\ s # {} => /\ pick(s) \in s
                          /\ s \ {pick(s)} \in SUBSET S
                          /\ Cardinality(s \ {pick(s)}) = Cardinality(s) - 1
  <2>1. IsFiniteSet(s)
    BY FS_Subset
  <2>2. s # {} => pick(s) \in s
    OBVIOUS
  <2> HIDE DEF pick
  <2> QED BY <2>1, <2>2, FS_CardinalityType, FS_EmptySet, FS_RemoveElement
<1> HIDE DEF pick
<1>2. 0 \in G
  <2> DEFINE g == [s \in small(0) |-> 0]
  <2>1. ASSUME NEW s \in small(0) PROVE s = {}
    <3>1. s \in SUBSET S /\ Cardinality(s) \in Nat /\ Cardinality(s) <= 0
      BY <1>1
    <3>2. Cardinality(s) = 0
      BY <3>1
    <3> QED BY <1>1, <3>1, <3>2
  <2>2. \A s \in small(0) : value(g, s) = 0
    BY <2>1
  <2>3. g = [s \in small(0) |-> value(g, s)]
    <3> HIDE DEF value
    <3> QED BY <2>2
  <2> QED BY <2>3
<1>3. ASSUME NEW n \in Nat, n \in G PROVE n + 1 \in G
  <2>1. PICK g : g = [s \in small(n) |-> value(g, s)]
    BY <1>3
  <2> DEFINE h == [s \in small(n + 1) |-> value(g, s)]
  <2>2. ASSUME NEW s \in small(n + 1) PROVE value(h, s) = value(g, s)
    <3>1. CASE s = {}
      BY <3>1
    <3>2. CASE s # {}
      <4>1. PICK t : t = s \ {pick(s)}
        OBVIOUS
      <4>2. t \in small(n) /\ t \in small(n + 1)
        BY <1>1, <3>2, <4>1
      <4>3. g[t] = value(g, t)
        <5> HIDE DEF value, small
        <5> QED BY <2>1, <4>2
      <4>4. h[t] = value(g, t)
        <5> HIDE DEF value, small
        <5> QED BY <4>2
      <4>5. h[t] = g[t]
        BY <4>3, <4>4
      <4> HIDE DEF h
      <4> QED BY <3>2, <4>1, <4>5
    <3> QED BY <3>1, <3>2
  <2>3. h = [s \in small(n + 1) |-> value(h, s)]
    <3> DEFINE before(s) == value(g, s)
               after(s) == value(h, s)
    <3>1. \A s \in small(n + 1) : before(s) = after(s)
      BY <2>2
    <3>2. h = [s \in small(n + 1) |-> before(s)]
      OBVIOUS
    <3> HIDE DEF before, small, h
    <3>3. h = [s \in small(n + 1) |-> after(s)]
      BY <3>1, <3>2
    <3> QED BY <3>3 DEF after
  <2> HIDE DEF h, value, small
  <2> QED BY <2>3
<1>4. Cardinality(S) \in G
  <2>1. \A n \in Nat : n \in G
    <3> HIDE DEF G
    <3> QED BY <1>2, <1>3, NatSetInduction
  <2> QED BY <2>1, FS_CardinalityType
<1>5. small(Cardinality(S)) = SUBSET S
  BY FS_Subset
<1>6. PICK g : g = [s \in SUBSET S |-> value(g, s)]
  <2> HIDE DEF small, value
  <2> QED BY <1>4, <1>5
<1> QED BY <1>6 DEF IsTable, pick

\* A table that adds the members up in any order.
Adds(g, f, S) ==
    /\ g[{}] = 0
    /\ \A T \in SUBSET S : g[T] \in Int /\ \A x \in T : g[T] = f[x] + g[T \ {x}]

\* The table of MapThenSumSet is one, whichever member CHOOSE takes first.
LEMMA TableAdds ==
    ASSUME NEW f, NEW S, IsFiniteSet(S), \A x \in S : f[x] \in Int,
           NEW g, IsTable(g, f, S)
    PROVE  Adds(g, f, S)
<1> DEFINE pick(s) == CHOOSE x \in s : TRUE
           G == {n \in Nat : \A T \in SUBSET S : Cardinality(T) = n => g[T] \in Int}
           H == {n \in Nat : \A T \in SUBSET S : Cardinality(T) = n =>
                                \A x \in T : g[T] = f[x] + g[T \ {x}]}
           Row(T) ==
              /\ Cardinality(T) \in Nat
              /\ Cardinality(T) = 0 <=> T = {}
              /\ \A x \in T : T \ {x} \in SUBSET S /\ Cardinality(T \ {x}) = Cardinality(T) - 1
              /\ T = {} => g[T] = 0
              /\ T # {} => pick(T) \in T /\ g[T] = f[pick(T)] + g[T \ {pick(T)}]
<1>1. ASSUME NEW T \in SUBSET S PROVE Row(T)
  <2>1. IsFiniteSet(T)
    BY FS_Subset
  <2>2. T # {} => pick(T) \in T
    OBVIOUS
  <2>3. /\ T = {} => g[T] = 0
        /\ T # {} => g[T] = f[pick(T)] + g[T \ {pick(T)}]
    BY DEF IsTable
  <2> HIDE DEF pick
  <2> QED BY <2>1, <2>2, <2>3, FS_CardinalityType, FS_EmptySet, FS_RemoveElement
<1> HIDE DEF pick
<1>2. \A T \in SUBSET S : g[T] \in Int
  <2>1. ASSUME NEW T \in SUBSET S, Cardinality(T) = 0 PROVE g[T] \in Int
    <3>1. Row(T)
      BY <1>1
    <3> QED BY <2>1, <3>1
  <2>2. ASSUME NEW n \in Nat, n \in G PROVE n + 1 \in G
    <3> SUFFICES ASSUME NEW T \in SUBSET S, Cardinality(T) = n + 1 PROVE g[T] \in Int
      OBVIOUS
    <3>1. Row(T)
      BY <1>1
    <3>2. PICK p, R : p = pick(T) /\ R = T \ {p}
      OBVIOUS
    <3>3. R \in SUBSET S /\ Cardinality(R) = n /\ p \in S /\ g[T] = f[p] + g[R]
      BY <3>1, <3>2
    <3>4. g[R] \in Int
      BY <2>2, <3>3
    <3> QED BY <3>3, <3>4
  <2>3. \A n \in Nat : n \in G
    <3>1. 0 \in G
      BY <2>1
    <3> HIDE DEF G
    <3> QED BY <2>2, <3>1, NatSetInduction
  <2> QED BY <1>1, <2>3
<1>3. \A T \in SUBSET S : \A x \in T : g[T] = f[x] + g[T \ {x}]
  <2>1. ASSUME NEW T \in SUBSET S, Cardinality(T) = 0, NEW x \in T PROVE FALSE
    <3>1. Row(T)
      BY <1>1
    <3> QED BY <2>1, <3>1
  <2>2. ASSUME NEW n \in Nat, n \in H PROVE n + 1 \in H
    <3> SUFFICES ASSUME NEW T \in SUBSET S, Cardinality(T) = n + 1, NEW x \in T
                 PROVE  g[T] = f[x] + g[T \ {x}]
      OBVIOUS
    <3>1. PICK p, R, U : p = pick(T) /\ R = T \ {p} /\ U = T \ {x}
      OBVIOUS
    <3>2. /\ p \in T /\ g[T] = f[p] + g[R]
          /\ R \in SUBSET S /\ Cardinality(R) = n
          /\ U \in SUBSET S /\ Cardinality(U) = n
      <4>1. Row(T)
        BY <1>1
      <4> QED BY <3>1, <4>1
    <3>3. CASE x = p
      BY <3>1, <3>2, <3>3
    <3>4. CASE x # p
      <4>1. g[R] = f[x] + g[R \ {x}] /\ g[U] = f[p] + g[U \ {p}]
        BY <2>2, <3>1, <3>2, <3>4
      <4>2. R \ {x} = U \ {p} /\ R \ {x} \in SUBSET S
        BY <3>1
      <4>3. g[R \ {x}] \in Int /\ g[U] \in Int /\ f[x] \in Int /\ f[p] \in Int
        BY <1>2, <3>2, <4>2
      <4>4. PICK v : v = g[R \ {x}] /\ v = g[U \ {p}]
        BY <4>2
      <4>5. g[T] = f[x] + g[U]
        BY <3>2, <4>1, <4>3, <4>4
      <4> QED BY <3>1, <4>5
    <3> QED BY <3>3, <3>4
  <2>3. \A n \in Nat : n \in H
    <3>1. 0 \in H
      BY <2>1
    <3> HIDE DEF H
    <3> QED BY <2>2, <3>1, NatSetInduction
  <2> QED BY <1>1, <2>3
<1>4. g[{}] = 0
  <2>1. Row({})
    BY <1>1
  <2> QED BY <2>1
<1> QED BY <1>2, <1>3, <1>4 DEF Adds

\* So two tables agree where both are defined.
LEMMA SameTable ==
    ASSUME NEW f, NEW S, IsFiniteSet(S), NEW U, S \subseteq U,
           \A x \in S : f[x] \in Int,
           NEW g, Adds(g, f, S), NEW h, Adds(h, f, U)
    PROVE  \A T \in SUBSET S : g[T] = h[T]
<1> DEFINE F == {T \in SUBSET S : g[T] = h[T]}
<1>1. {} \in F
  BY DEF Adds
<1>2. ASSUME NEW T \in SUBSET S, NEW x \in S \ T, T \in F PROVE T \cup {x} \in F
  <2>1. PICK V : V = T \cup {x}
    OBVIOUS
  <2>2. V \in SUBSET S /\ V \in SUBSET U /\ x \in V /\ V \ {x} = T
    BY <2>1
  <2>3. g[V] = f[x] + g[T] /\ h[V] = f[x] + h[T]
    BY <2>2 DEF Adds
  <2> QED BY <1>2, <2>1, <2>2, <2>3
<1> HIDE DEF F
<1>3. \A T \in SUBSET S : T \in F
  BY <1>1, <1>2, SetInduction
<1> QED BY <1>3 DEF F

\* What a sum does over the subsets of U, one member at a time.
Sums(f, U) ==
    /\ Sum(f, {}) = 0
    /\ \A T \in SUBSET U :
          /\ Sum(f, T) \in Int
          /\ \A x \in U \ T : Sum(f, T \cup {x}) = f[x] + Sum(f, T)

\* Sums of integers over a finite set do that.
LEMMA SumRules ==
    ASSUME NEW f, NEW U, IsFiniteSet(U), \A x \in U : f[x] \in Int
    PROVE  Sums(f, U)
<1>1. PICK h : IsTable(h, f, U)
  BY TableExists
<1>2. Adds(h, f, U)
  BY <1>1, TableAdds
<1>3. ASSUME NEW T \in SUBSET U PROVE Sum(f, T) = h[T]
  <2>1. IsFiniteSet(T)
    BY FS_Subset
  <2>2. PICK g : g = CHOOSE t : IsTable(t, f, T)
    OBVIOUS
  <2>3. IsTable(g, f, T)
    BY <2>1, <2>2, TableExists
  <2>4. Sum(f, T) = g[T]
    BY <2>2, Unfolded
  <2>5. Adds(g, f, T)
    BY <2>1, <2>3, TableAdds
  <2>6. \A V \in SUBSET T : g[V] = h[V]
    BY <1>2, <2>1, <2>5, SameTable
  <2> QED BY <2>4, <2>6
<1>4. Sum(f, {}) = 0
  BY <1>2, <1>3 DEF Adds
<1>5. ASSUME NEW T \in SUBSET U PROVE Sum(f, T) \in Int
  BY <1>2, <1>3 DEF Adds
<1>6. ASSUME NEW T \in SUBSET U, NEW x \in U \ T PROVE Sum(f, T \cup {x}) = f[x] + Sum(f, T)
  <2>1. PICK V : V = T \cup {x}
    OBVIOUS
  <2>2. V \in SUBSET U /\ x \in V /\ V \ {x} = T
    BY <2>1
  <2>3. h[V] = f[x] + h[T]
    BY <1>2, <2>2 DEF Adds
  <2>4. Sum(f, V) = h[V] /\ Sum(f, T) = h[T]
    BY <1>3, <2>2
  <2> QED BY <2>1, <2>3, <2>4
<1> QED BY <1>4, <1>5, <1>6 DEF Sums

\* Equal values have equal sums.
LEMMA SumSame ==
    ASSUME NEW f, NEW h, NEW S, IsFiniteSet(S),
           \A x \in S : f[x] \in Int /\ h[x] = f[x]
    PROVE  Sum(h, S) = Sum(f, S)
<1> DEFINE F == {T \in SUBSET S : Sum(h, T) = Sum(f, T)}
<1>1. Sums(f, S) /\ Sums(h, S)
  BY SumRules
<1>2. {} \in F
  BY <1>1 DEF Sums
<1>3. ASSUME NEW T \in SUBSET S, NEW x \in S \ T, T \in F PROVE T \cup {x} \in F
  BY <1>1, <1>3 DEF Sums
<1> HIDE DEF F
<1>4. \A T \in SUBSET S : T \in F
  BY <1>2, <1>3, SetInduction
<1> QED BY <1>4 DEF F

\* Opposite values have opposite sums.
LEMMA SumOpposite ==
    ASSUME NEW f, NEW h, NEW S, IsFiniteSet(S),
           \A x \in S : f[x] \in Int /\ h[x] = -f[x]
    PROVE  Sum(h, S) = -Sum(f, S)
<1> DEFINE F == {T \in SUBSET S : Sum(h, T) = -Sum(f, T)}
<1>1. Sums(f, S) /\ Sums(h, S)
  BY SumRules
<1>2. {} \in F
  BY <1>1 DEF Sums
<1>3. ASSUME NEW T \in SUBSET S, NEW x \in S \ T, T \in F PROVE T \cup {x} \in F
  <2>1. /\ Sum(h, T \cup {x}) = h[x] + Sum(h, T) /\ Sum(f, T \cup {x}) = f[x] + Sum(f, T)
        /\ Sum(f, T) \in Int /\ f[x] \in Int /\ h[x] = -f[x] /\ Sum(h, T) = -Sum(f, T)
    BY <1>1, <1>3 DEF Sums
  <2>2. Sum(h, T \cup {x}) = -Sum(f, T \cup {x})
    BY <2>1
  <2> QED BY <2>2
<1> HIDE DEF F
<1>4. \A T \in SUBSET S : T \in F
  BY <1>2, <1>3, SetInduction
<1> QED BY <1>4 DEF F

\* Values that are zero add up to zero.
LEMMA SumZero ==
    ASSUME NEW f, NEW S, IsFiniteSet(S), \A x \in S : f[x] = 0
    PROVE  Sum(f, S) = 0
<1> DEFINE F == {T \in SUBSET S : Sum(f, T) = 0}
<1>1. Sums(f, S)
  BY SumRules
<1>2. {} \in F
  BY <1>1 DEF Sums
<1>3. ASSUME NEW T \in SUBSET S, NEW x \in S \ T, T \in F PROVE T \cup {x} \in F
  BY <1>1, <1>3 DEF Sums
<1> HIDE DEF F
<1>4. \A T \in SUBSET S : T \in F
  BY <1>2, <1>3, SetInduction
<1> QED BY <1>4 DEF F

\* The sum over two disjoint parts.
LEMMA SumParts ==
    ASSUME NEW f, NEW A, NEW B, IsFiniteSet(A), IsFiniteSet(B), A \cap B = {},
           \A x \in A \cup B : f[x] \in Int
    PROVE  /\ Sum(f, A \cup B) = Sum(f, A) + Sum(f, B)
           /\ Sum(f, A) \in Int /\ Sum(f, B) \in Int
<1> DEFINE F == {T \in SUBSET B : Sum(f, A \cup T) = Sum(f, A) + Sum(f, T)}
<1>1. Sums(f, A \cup B)
  <2>1. IsFiniteSet(A \cup B)
    BY FS_Union
  <2> QED BY <2>1, SumRules
<1>2. Sum(f, A) \in Int /\ Sum(f, B) \in Int
  BY <1>1 DEF Sums
<1>3. {} \in F
  <2>1. A \cup {} = A /\ Sum(f, {}) = 0
    BY <1>1 DEF Sums
  <2> QED BY <1>2, <2>1
<1>4. ASSUME NEW T \in SUBSET B, NEW x \in B \ T, T \in F PROVE T \cup {x} \in F
  <2>1. PICK U : U = A \cup T
    OBVIOUS
  <2>2. U \in SUBSET (A \cup B) /\ x \in (A \cup B) \ U /\ A \cup (T \cup {x}) = U \cup {x}
        /\ T \in SUBSET (A \cup B) /\ x \in (A \cup B) \ T
    BY <2>1
  <2>3. /\ Sum(f, U \cup {x}) = f[x] + Sum(f, U)
        /\ Sum(f, T \cup {x}) = f[x] + Sum(f, T)
        /\ Sum(f, T) \in Int
    BY <1>1, <2>2 DEF Sums
  <2>4. Sum(f, U) = Sum(f, A) + Sum(f, T) /\ f[x] \in Int
    BY <1>4, <2>1
  <2>5. Sum(f, A \cup (T \cup {x})) = Sum(f, A) + Sum(f, T \cup {x})
    <3>1. Sum(f, A \cup (T \cup {x})) = Sum(f, U \cup {x})
      BY <2>2
    <3>2. Sum(f, U \cup {x}) = Sum(f, A) + Sum(f, T \cup {x})
      BY <1>2, <2>3, <2>4
    <3> QED BY <3>1, <3>2
  <2> QED BY <2>5
<1> HIDE DEF F
<1>5. \A T \in SUBSET B : T \in F
  BY <1>3, <1>4, SetInduction
<1>6. B \in F
  BY <1>5
<1> QED BY <1>2, <1>6 DEF F

\* Members that have names of their own may be summed by name: rows by their place
\* in the posting.
LEMMA SumByName ==
    ASSUME NEW f, NEW c, NEW K, IsFiniteSet(K), NEW row,
           \A k \in K : c[k] \in Int /\ c[k] = f[row[k]],
           \A j, k \in K : row[j] = row[k] => j = k
    PROVE  Sum(f, {row[k] : k \in K}) = Sum(c, K)
<1> DEFINE F == {T \in SUBSET K : Sum(f, {row[k] : k \in T}) = Sum(c, T)}
           U == {row[k] : k \in K}
<1>1. IsFiniteSet(U)
  <2> DEFINE s == [k \in K |-> row[k]]
  <2>1. s \in Surjection(K, U)
    BY DEF Surjection
  <2> HIDE DEF s, U
  <2> QED BY <2>1, FS_Surjection
<1>2. \A x \in U : f[x] \in Int
  OBVIOUS
<1>3. Sums(f, U) /\ Sums(c, K)
  <2> HIDE DEF U
  <2> QED BY <1>1, <1>2, SumRules
<1>4. {} \in F
  <2>1. {row[k] : k \in {}} = {}
    OBVIOUS
  <2> QED BY <1>3, <2>1 DEF Sums
<1>5. ASSUME NEW T \in SUBSET K, NEW x \in K \ T, T \in F PROVE T \cup {x} \in F
  <2>1. PICK V, e : V = {row[k] : k \in T} /\ e = row[x]
    OBVIOUS
  <2>2. V \in SUBSET U /\ e \in U \ V /\ {row[k] : k \in T \cup {x}} = V \cup {e}
    BY <2>1
  <2> HIDE DEF U
  <2>3. Sum(f, V \cup {e}) = f[e] + Sum(f, V) /\ Sum(c, T \cup {x}) = c[x] + Sum(c, T)
    BY <1>3, <2>2 DEF Sums
  <2>4. Sum(f, V) = Sum(c, T) /\ f[e] = c[x]
    BY <1>5, <2>1
  <2>5. Sum(f, {row[k] : k \in T \cup {x}}) = Sum(c, T \cup {x})
    BY <2>2, <2>3, <2>4
  <2> QED BY <2>5
<1> HIDE DEF F
<1>6. \A T \in SUBSET K : T \in F
  BY <1>4, <1>5, SetInduction
<1> QED BY <1>6 DEF F

\* The members of X that belong to a.
Group(X, k, a) == {e \in X : k[e] = a}

\* The sums of the groups add up to the sum of all.
LEMMA SumOfGroups ==
    ASSUME NEW f, NEW X, IsFiniteSet(X), NEW A, IsFiniteSet(A), NEW k, NEW h,
           \A e \in X : f[e] \in Int /\ k[e] \in A,
           \A a \in A : h[a] = Sum(f, Group(X, k, a))
    PROVE  Sum(h, A) = Sum(f, X)
<1> DEFINE group(T, a) == {e \in T : k[e] = a}
           totals(T) == [a \in A |-> Sum(f, group(T, a))]
           F == {T \in SUBSET X : Sum(totals(T), A) = Sum(f, T)}
<1>1. Sums(f, X)
  BY SumRules
<1>2. ASSUME NEW T \in SUBSET X
      PROVE  /\ \A a \in A : totals(T)[a] = Sum(f, group(T, a)) /\ totals(T)[a] \in Int
             /\ Sums(totals(T), A)
  <2>1. \A a \in A : totals(T)[a] = Sum(f, group(T, a)) /\ totals(T)[a] \in Int
    BY <1>1 DEF Sums
  <2> HIDE DEF totals
  <2> QED BY <2>1, SumRules
<1>3. {} \in F
  <2>1. \A a \in A : totals({})[a] = 0
    <3>1. \A a : group({}, a) = {}
      OBVIOUS
    <3> QED BY <1>1, <3>1 DEF Sums
  <2> HIDE DEF totals
  <2>2. Sum(totals({}), A) = 0
    BY <2>1, SumZero
  <2> QED BY <1>1, <2>2 DEF Sums
<1>4. ASSUME NEW T \in SUBSET X, NEW x \in X \ T, T \in F PROVE T \cup {x} \in F
  <2>1. PICK b, V, R, old, new : /\ b = k[x] /\ V = T \cup {x} /\ R = A \ {b}
                                 /\ old = totals(T) /\ new = totals(V)
    OBVIOUS
  <2>2. b \in A /\ V \in SUBSET X /\ R \in SUBSET A /\ b \in A \ R /\ R \cup {b} = A
    BY <2>1
  <2>3. \A a \in R : group(V, a) = group(T, a)
    BY <2>1
  <2>4. group(V, b) = group(T, b) \cup {x} /\ x \in X \ group(T, b) /\ group(T, b) \in SUBSET X
    BY <2>1
  <2> HIDE DEF group
  <2>5. Sum(f, group(V, b)) = f[x] + Sum(f, group(T, b))
    BY <1>1, <2>4 DEF Sums
  <2>6. /\ \A a \in A : old[a] = Sum(f, group(T, a)) /\ old[a] \in Int
        /\ \A a \in A : new[a] = Sum(f, group(V, a)) /\ new[a] \in Int
        /\ Sums(old, A) /\ Sums(new, A)
    <3> HIDE DEF totals
    <3> QED BY <1>2, <2>1, <2>2
  <2> HIDE DEF totals
  <2>7. Sum(new, R) = Sum(old, R)
    <3>1. IsFiniteSet(R)
      BY <2>2, FS_Subset
    <3>2. \A a \in R : old[a] \in Int /\ new[a] = old[a]
      BY <2>2, <2>3, <2>6
    <3> QED BY <3>1, <3>2, SumSame
  <2>8. /\ Sum(old, A) = old[b] + Sum(old, R) /\ Sum(new, A) = new[b] + Sum(new, R)
        /\ Sum(old, R) \in Int
    BY <2>2, <2>6 DEF Sums
  <2>9. new[b] = f[x] + old[b] /\ f[x] \in Int /\ old[b] \in Int
    BY <2>2, <2>5, <2>6
  <2>10. Sum(f, V) = f[x] + Sum(f, T) /\ Sum(f, T) \in Int
    BY <1>1, <2>1 DEF Sums
  <2>11. Sum(old, A) = Sum(f, T)
    BY <1>4, <2>1
  <2>12. Sum(new, A) = Sum(f, V)
    BY <2>7, <2>8, <2>9, <2>10, <2>11
  <2> QED BY <2>1, <2>2, <2>12
<1> HIDE DEF F
<1>5. \A T \in SUBSET X : T \in F
  BY <1>3, <1>4, SetInduction
<1>6. Sum(totals(X), A) = Sum(f, X)
  BY <1>5 DEF F
<1>7. \A a \in A : totals(X)[a] \in Int /\ h[a] = totals(X)[a]
  BY <1>2 DEF Group
<1> HIDE DEF totals
<1>8. Sum(h, A) = Sum(totals(X), A)
  BY <1>7, SumSame
<1> QED BY <1>6, <1>8

\* Any table for f gives its sum.
LEMMA SumOfTable ==
    ASSUME NEW f, NEW S, IsFiniteSet(S), \A x \in S : f[x] \in Int,
           NEW g, IsTable(g, f, S)
    PROVE  g[S] = Sum(f, S)
<1>1. PICK h : h = CHOOSE t : IsTable(t, f, S)
  OBVIOUS
<1>2. IsTable(h, f, S) /\ Sum(f, S) = h[S]
  BY <1>1, TableExists, Unfolded
<1>3. Adds(g, f, S) /\ Adds(h, f, S)
  BY <1>2, TableAdds
<1>4. ASSUME NEW U, U = S PROVE \A T \in SUBSET S : g[T] = h[T]
  <2>1. S \subseteq U /\ Adds(h, f, U)
    BY <1>3, <1>4
  <2> QED BY <1>3, <2>1, SameTable
<1>5. g[S] = h[S]
  BY <1>4
<1> QED BY <1>2, <1>5

\* The sum of signed effects that compute_balance takes is such a sum.
LEMMA EffectSum ==
    ASSUME NEW f, NEW S, IsFiniteSet(S), \A x \in S : f[x] \in Int /\ f[x] = Effect(x)
    PROVE  MapThenSumSet(Effect, S) = Sum(f, S)
<1> DEFINE cell(g, s) == IF s = {} THEN 0
                         ELSE Effect(CHOOSE x \in s : TRUE) + g[s \ {CHOOSE x \in s : TRUE}]
           same(g, s) == IF s = {} THEN 0
                         ELSE f[CHOOSE x \in s : TRUE] + g[s \ {CHOOSE x \in s : TRUE}]
           P(g) == g = [s \in SUBSET S |-> cell(g, s)]
<1>1. MapThenSumSet(Effect, S) = (CHOOSE g : P(g))[S]
  BY DEF MapThenSumSet, MapThenFoldSet
<1>2. ASSUME NEW g PROVE P(g) <=> IsTable(g, f, S)
  <2>1. \A s \in SUBSET S : cell(g, s) = same(g, s)
    OBVIOUS
  <2>2. IsTable(g, f, S) <=> g = [s \in SUBSET S |-> same(g, s)]
    BY DEF IsTable
  <2> HIDE DEF cell, same
  <2> QED BY <2>1, <2>2
<1> HIDE DEF P
<1>3. PICK g : IsTable(g, f, S) /\ MapThenSumSet(Effect, S) = g[S]
  BY <1>1, <1>2, TableExists
<1> QED BY <1>3, SumOfTable

\* The amounts of some lines of a posting.
AmountsOf(lines, S) == MapThenSumSet(LAMBDA k : lines[k].amount, S)

\* So is the sum of amounts in post's per_asset table.
LEMMA AmountSum ==
    ASSUME NEW lines, NEW f, NEW S, IsFiniteSet(S),
           \A x \in S : f[x] \in Int /\ f[x] = lines[x].amount
    PROVE  AmountsOf(lines, S) = Sum(f, S)
<1> DEFINE cell(g, s) == IF s = {} THEN 0
                         ELSE lines[CHOOSE x \in s : TRUE].amount
                              + g[s \ {CHOOSE x \in s : TRUE}]
           same(g, s) == IF s = {} THEN 0
                         ELSE f[CHOOSE x \in s : TRUE] + g[s \ {CHOOSE x \in s : TRUE}]
           P(g) == g = [s \in SUBSET S |-> cell(g, s)]
<1>1. AmountsOf(lines, S) = (CHOOSE g : P(g))[S]
  BY DEF AmountsOf, MapThenSumSet, MapThenFoldSet
<1>2. ASSUME NEW g PROVE P(g) <=> IsTable(g, f, S)
  <2>1. \A s \in SUBSET S : cell(g, s) = same(g, s)
    OBVIOUS
  <2>2. IsTable(g, f, S) <=> g = [s \in SUBSET S |-> same(g, s)]
    BY DEF IsTable
  <2> HIDE DEF cell, same
  <2> QED BY <2>1, <2>2
<1> HIDE DEF P
<1>3. PICK g : IsTable(g, f, S) /\ AmountsOf(lines, S) = g[S]
  BY <1>1, <1>2, TableExists
<1> QED BY <1>3, SumOfTable

\* The balances of some accounts.
BalancesOf(rows, asset, S) == MapThenSumSet(LAMBDA a : compute_balance(rows, a, asset), S)

\* So is the sum of the balances of some accounts.
LEMMA BalanceSum ==
    ASSUME NEW rows, NEW asset, NEW f, NEW S, IsFiniteSet(S),
           \A x \in S : f[x] \in Int /\ f[x] = compute_balance(rows, x, asset)
    PROVE  BalancesOf(rows, asset, S) = Sum(f, S)
<1> DEFINE cell(g, s) == IF s = {} THEN 0
                         ELSE compute_balance(rows, CHOOSE x \in s : TRUE, asset)
                              + g[s \ {CHOOSE x \in s : TRUE}]
           same(g, s) == IF s = {} THEN 0
                         ELSE f[CHOOSE x \in s : TRUE] + g[s \ {CHOOSE x \in s : TRUE}]
           P(g) == g = [s \in SUBSET S |-> cell(g, s)]
<1>1. BalancesOf(rows, asset, S) = (CHOOSE g : P(g))[S]
  BY DEF BalancesOf, MapThenSumSet, MapThenFoldSet
<1>2. ASSUME NEW g PROVE P(g) <=> IsTable(g, f, S)
  <2>1. \A s \in SUBSET S : cell(g, s) = same(g, s)
    OBVIOUS
  <2>2. IsTable(g, f, S) <=> g = [s \in SUBSET S |-> same(g, s)]
    BY DEF IsTable
  <2> HIDE DEF cell, same
  <2> QED BY <2>1, <2>2
<1> HIDE DEF P
<1>3. PICK g : IsTable(g, f, S)
               /\ BalancesOf(rows, asset, S) = g[S]
  BY <1>1, <1>2, TableExists
<1> QED BY <1>3, SumOfTable

-----------------------------------------------------------------------------
(* Double entry: what post asks of a request and what follows for balances. *)

\* What a set of rows moves in one asset, over all accounts.
Net(rows, asset) == MapThenSumSet(Effect, {e \in rows : e.asset = asset})

\* The signed effect of a row whose amount is a number is a number.
LEMMA EffectType ==
    ASSUME NEW e, e.amount \in Nat
    PROVE  Effect(e) \in Int
BY DEF Effect

\* The balance over two sets of rows that have nothing in common (compute_balance).
LEMMA BalanceParts ==
    ASSUME NEW A, NEW B, IsFiniteSet(A), IsFiniteSet(B), A \cap B = {},
           \A e \in A \cup B : e.amount \in Nat, NEW a, NEW asset
    PROVE  /\ compute_balance(A \cup B, a, asset)
                = compute_balance(A, a, asset) + compute_balance(B, a, asset)
           /\ compute_balance(A, a, asset) \in Int
           /\ compute_balance(B, a, asset) \in Int
<1> DEFINE of(S) == {e \in S : e.account_id = a /\ (asset = "" \/ e.asset = asset)}
           f == [e \in A \cup B |-> Effect(e)]
<1>1. \A e \in A \cup B : f[e] \in Int /\ f[e] = Effect(e)
  BY EffectType
<1>2. /\ IsFiniteSet(of(A)) /\ IsFiniteSet(of(B)) /\ IsFiniteSet(of(A \cup B))
      /\ of(A) \cup of(B) = of(A \cup B) /\ of(A) \cap of(B) = {}
  <2>1. of(A) \in SUBSET A /\ of(B) \in SUBSET B /\ of(A) \cup of(B) = of(A \cup B)
    OBVIOUS
  <2> HIDE DEF of
  <2>2. IsFiniteSet(of(A)) /\ IsFiniteSet(of(B))
    BY <2>1, FS_Subset
  <2>3. IsFiniteSet(of(A) \cup of(B))
    BY <2>2, FS_Union
  <2> QED BY <2>1, <2>2, <2>3
<1>3. \A S \in SUBSET (A \cup B) : of(S) \in SUBSET (A \cup B)
  OBVIOUS
<1>4. \A S : compute_balance(S, a, asset) = MapThenSumSet(Effect, of(S))
  BY DEF compute_balance
<1> HIDE DEF of, f
<1>5. ASSUME NEW S \in {of(A), of(B), of(A \cup B)} PROVE MapThenSumSet(Effect, S) = Sum(f, S)
  <2>1. IsFiniteSet(S) /\ \A e \in S : f[e] \in Int /\ f[e] = Effect(e)
    BY <1>1, <1>2, <1>3
  <2> QED BY ONLY <2>1, EffectSum
<1>6. /\ Sum(f, of(A) \cup of(B)) = Sum(f, of(A)) + Sum(f, of(B))
      /\ Sum(f, of(A)) \in Int /\ Sum(f, of(B)) \in Int
  <2>1. \A e \in of(A) \cup of(B) : f[e] \in Int
    BY <1>1, <1>3
  <2> QED BY ONLY <1>2, <2>1, SumParts
<1> QED BY <1>2, <1>4, <1>5, <1>6

\* A balance is a number, over no rows it is 0 (compute_balance).
LEMMA BalanceType ==
    ASSUME NEW A, IsFiniteSet(A), \A e \in A : e.amount \in Nat, NEW a, NEW asset
    PROVE  compute_balance(A, a, asset) \in Int /\ compute_balance({}, a, asset) = 0
<1>1. PICK B : B = {}
  OBVIOUS
<1>2. /\ IsFiniteSet(A) /\ IsFiniteSet(B) /\ A \cap B = {}
      /\ \A e \in A \cup B : e.amount \in Nat
  BY <1>1, FS_EmptySet
<1>3. /\ compute_balance(A \cup B, a, asset)
           = compute_balance(A, a, asset) + compute_balance(B, a, asset)
      /\ compute_balance(A, a, asset) \in Int
      /\ compute_balance(B, a, asset) \in Int
  BY ONLY <1>2, BalanceParts, Z3
<1>4. A \cup B = A
  BY <1>1
<1>5. PICK x, y : x = compute_balance(A, a, asset) /\ y = compute_balance(B, a, asset)
  OBVIOUS
<1>6. x = x + y /\ x \in Int /\ y \in Int
  BY <1>3, <1>4, <1>5
<1>7. y = 0
  BY <1>6
<1> QED BY <1>1, <1>3, <1>5, <1>7

\* The first n rows of a list.
RowSet(rows, n) == {rows[k] : k \in 1..n}

\* The rows of a balanced posting cancel out in every asset (the per_asset check of
\* post).
LEMMA NetOfPosting ==
    ASSUME NEW n \in Nat, NEW lines, DOMAIN lines = 1..n, Balanced(lines),
           \A k \in 1..n : lines[k].amount \in Nat /\ lines[k].direction \in Direction,
           NEW rows, \A j, k \in 1..n : rows[j] = rows[k] => j = k,
           \A k \in 1..n : /\ rows[k].amount = lines[k].amount
                           /\ rows[k].direction = lines[k].direction
                           /\ rows[k].asset = lines[k].asset,
           NEW asset
    PROVE  Net(RowSet(rows, n), asset) = 0
<1> DEFINE side(d) == {k \in DOMAIN lines : lines[k].direction = d /\ lines[k].asset = asset}
           D == side("DEBIT")
           C == side("CREDIT")
           c == [k \in 1..n |-> Effect(rows[k])]
           amt == [k \in 1..n |-> lines[k].amount]
           S == {rows[k] : k \in D \cup C}
           f == [e \in S |-> Effect(e)]
<1>1. /\ D \subseteq 1..n /\ C \subseteq 1..n /\ D \cap C = {}
      /\ \A k \in 1..n : lines[k].asset = asset <=> k \in D \cup C
  BY DEF Direction
<1>2. IsFiniteSet(D) /\ IsFiniteSet(C) /\ IsFiniteSet(D \cup C)
  <2>1. IsFiniteSet(1..n)
    BY FS_Interval
  <2> QED BY <1>1, <2>1, FS_Subset, FS_Union
<1>3. \A k \in 1..n : /\ c[k] \in Int /\ amt[k] \in Int
                      /\ k \in D => c[k] = amt[k]
                      /\ k \in C => c[k] = -amt[k]
  BY DEF Effect, Direction
<1>4. {e \in RowSet(rows, n) : e.asset = asset} = S
  <2>1. \A k \in 1..n : rows[k].asset = asset <=> k \in D \cup C
    BY <1>1
  <2> HIDE DEF D, C
  <2> QED BY <1>1, <2>1 DEF RowSet
<1>5. \A k \in D \cup C : f[rows[k]] = c[k] /\ rows[k] \in S
  BY <1>1
<1>6. AmountsOf(lines, D) = AmountsOf(lines, C)
  <2>1. CASE D \cup C = {}
    BY <2>1
  <2>2. CASE D \cup C # {}
    <3>1. asset \in {lines[k].asset : k \in DOMAIN lines}
      BY <2>2
    <3>2. SideTotal(lines, "DEBIT", asset) = SideTotal(lines, "CREDIT", asset)
      BY <3>1 DEF Balanced
    <3> QED BY <3>2 DEF SideTotal, AmountsOf
  <2> QED BY <2>1, <2>2
<1>7. IsFiniteSet(S)
  <2> DEFINE row == [k \in D \cup C |-> rows[k]]
  <2>1. row \in Surjection(D \cup C, S)
    BY DEF Surjection
  <2> HIDE DEF row
  <2> QED BY <1>2, <2>1, FS_Surjection
<1> HIDE DEF side, D, C, c, amt, S
<1>8. \A e \in S : f[e] \in Int /\ f[e] = Effect(e)
  <2>1. ASSUME NEW e \in S PROVE f[e] \in Int
    <3>1. PICK k \in D \cup C : e = rows[k]
      BY DEF S
    <3> HIDE DEF f
    <3>2. f[e] = c[k] /\ c[k] \in Int
      BY <1>1, <1>3, <1>5, <3>1
    <3> QED BY <3>2
  <2>2. \A e \in S : f[e] = Effect(e)
    OBVIOUS
  <2> QED BY <2>1, <2>2
<1>9. MapThenSumSet(Effect, S) = Sum(f, S)
  BY <1>7, <1>8, EffectSum
<1> HIDE DEF f
<1>10. Sum(f, S) = Sum(c, D \cup C)
  <2>1. /\ \A k \in D \cup C : c[k] \in Int /\ c[k] = f[rows[k]]
        /\ \A j, k \in D \cup C : rows[j] = rows[k] => j = k
    BY <1>1, <1>3, <1>5
  <2> QED BY <1>2, <2>1, SumByName DEF S
<1>11. /\ Sum(c, D \cup C) = Sum(c, D) + Sum(c, C)
       /\ Sum(c, D) \in Int /\ Sum(c, C) \in Int
  <2>1. \A k \in D \cup C : c[k] \in Int
    BY <1>1, <1>3
  <2> QED BY <1>1, <1>2, <2>1, SumParts
<1>12. Sum(c, D) = Sum(amt, D)
  <2>1. \A k \in D : amt[k] \in Int /\ c[k] = amt[k]
    BY <1>1, <1>3
  <2> QED BY <1>2, <2>1, SumSame
<1>13. Sum(c, C) = -Sum(amt, C)
  <2>1. \A k \in C : amt[k] \in Int /\ c[k] = -amt[k]
    BY <1>1, <1>3
  <2> QED BY <1>2, <2>1, SumOpposite
<1>14. Sum(amt, D) = Sum(amt, C)
  <2>1. \A k \in 1..n : amt[k] \in Int /\ amt[k] = lines[k].amount
    BY <1>3 DEF amt
  <2>2. AmountsOf(lines, D) = Sum(amt, D)
    <3>1. \A k \in D : amt[k] \in Int /\ amt[k] = lines[k].amount
      BY <1>1, <2>1
    <3> QED BY <1>2, <3>1, AmountSum
  <2>3. AmountsOf(lines, C) = Sum(amt, C)
    <3>1. \A k \in C : amt[k] \in Int /\ amt[k] = lines[k].amount
      BY <1>1, <2>1
    <3> QED BY <1>2, <3>1, AmountSum
  <2> QED BY <1>6, <2>2, <2>3
<1>15. Sum(f, S) = 0
  BY <1>10, <1>11, <1>12, <1>13, <1>14
<1> QED BY <1>4, <1>9, <1>15 DEF Net

\* A balanced posting of lines that are not zero has two lines or more (post).
LEMMA TwoEntries ==
    ASSUME NEW lines, DOMAIN lines = 1..Len(lines), Len(lines) \in Nat \ {0},
           Balanced(lines),
           \A k \in 1..Len(lines) : /\ lines[k].amount \in Nat \ {0}
                                    /\ lines[k].direction \in Direction
    PROVE  Len(lines) >= 2
<1> SUFFICES ASSUME Len(lines) = 1 PROVE FALSE
  OBVIOUS
<1> DEFINE asset == lines[1].asset
           side(d) == {k \in DOMAIN lines : lines[k].direction = d /\ lines[k].asset = asset}
           amt == [k \in {1} |-> lines[k].amount]
<1>1. DOMAIN lines = {1} /\ lines[1].amount \in Nat \ {0} /\ lines[1].direction \in Direction
  OBVIOUS
<1>2. AmountsOf(lines, side("DEBIT")) = AmountsOf(lines, side("CREDIT"))
  <2>1. asset \in {lines[k].asset : k \in DOMAIN lines}
    BY <1>1
  <2> HIDE DEF asset
  <2> QED BY <2>1 DEF Balanced, SideTotal, AmountsOf
<1>3. \/ side("DEBIT") = {1} /\ side("CREDIT") = {}
      \/ side("DEBIT") = {} /\ side("CREDIT") = {1}
  BY <1>1 DEF Direction
<1>4. /\ amt[1] \in Int /\ amt[1] = lines[1].amount
      /\ IsFiniteSet({1}) /\ IsFiniteSet({})
  <2>1. amt[1] = lines[1].amount
    OBVIOUS
  <2>2. amt[1] \in Int
    BY <1>1, <2>1
  <2> QED BY <2>1, <2>2, FS_Singleton, FS_EmptySet
<1> HIDE DEF amt, side
<1>5. Sums(amt, {1})
  BY <1>4, SumRules
<1>6. Sum(amt, {1}) = amt[1] /\ Sum(amt, {}) = 0
  <2>1. Sum(amt, {} \cup {1}) = amt[1] + Sum(amt, {}) /\ Sum(amt, {}) = 0
    BY <1>5 DEF Sums
  <2>2. {} \cup {1} = {1}
    OBVIOUS
  <2> QED BY <1>4, <2>1, <2>2
<1>7. AmountsOf(lines, {1}) = amt[1]
  BY <1>4, <1>6, AmountSum
<1>8. AmountsOf(lines, {}) = 0
  BY <1>4, <1>6, AmountSum
<1> QED BY <1>1, <1>2, <1>3, <1>4, <1>7, <1>8

\* A set of rows that is made of whole postings which cancel out cancels out.
LEMMA NetOfPostings ==
    ASSUME NEW X, IsFiniteSet(X), \A e \in X : e.amount \in Nat, NEW asset,
           \A e \in X : Net({x \in X : x.posting_id = e.posting_id}, asset) = 0
    PROVE  Net(X, asset) = 0
<1> DEFINE Y == {e \in X : e.asset = asset}
           f == [e \in X |-> Effect(e)]
           A == {e.posting_id : e \in X}
           k == [e \in Y |-> e.posting_id]
           h == [a \in A |-> 0]
<1>1. IsFiniteSet(Y) /\ IsFiniteSet(A)
  <2> DEFINE id == [e \in X |-> e.posting_id]
  <2>1. id \in Surjection(X, A)
    BY DEF Surjection
  <2>2. Y \in SUBSET X
    OBVIOUS
  <2> HIDE DEF id, A, Y
  <2> QED BY <2>1, <2>2, FS_Subset, FS_Surjection
<1>2. \A e \in X : f[e] \in Int /\ f[e] = Effect(e)
  BY EffectType
<1>3. \A e \in Y : f[e] \in Int /\ k[e] \in A
  BY <1>2
<1>4. ASSUME NEW a \in A PROVE h[a] = Sum(f, Group(Y, k, a))
  <2> DEFINE Z == {e \in Y : k[e] = a}
             R == {x \in X : x.posting_id = a}
  <2>1. Z = {e \in R : e.asset = asset}
    OBVIOUS
  <2>2. Net(R, asset) = 0
    OBVIOUS
  <2>3. IsFiniteSet(Z) /\ \A e \in Z : f[e] \in Int /\ f[e] = Effect(e)
    BY <1>1, <1>2, FS_Subset
  <2>4. h[a] = 0
    OBVIOUS
  <2> HIDE DEF Z, f, h, R
  <2>5. MapThenSumSet(Effect, Z) = Sum(f, Z)
    BY <2>3, EffectSum
  <2>6. Sum(f, Z) = 0
    BY <2>1, <2>2, <2>5 DEF Net
  <2> QED BY <2>4, <2>6 DEF Z, Group
<1> HIDE DEF f, A, k, h, Y
<1>5. Sum(h, A) = Sum(f, Y)
  BY <1>1, <1>3, <1>4, SumOfGroups
<1>6. Sum(h, A) = 0
  <2>1. \A a \in A : h[a] = 0
    BY DEF h
  <2> QED BY <1>1, <2>1, SumZero
<1>7. MapThenSumSet(Effect, Y) = Sum(f, Y)
  <2>1. \A e \in Y : f[e] \in Int /\ f[e] = Effect(e)
    BY <1>2 DEF Y
  <2> QED BY <1>1, <2>1, EffectSum
<1> QED BY <1>5, <1>6, <1>7 DEF Net, Y

\* The balances of all accounts together are what all the rows together move
\* (compute_balance).
LEMMA BalancesAddUp ==
    ASSUME NEW X, IsFiniteSet(X), NEW A, IsFiniteSet(A), NEW asset, asset # "",
           \A e \in X : e.amount \in Nat /\ e.account_id \in A
    PROVE  BalancesOf(X, asset, A) = Net(X, asset)
<1> DEFINE Y == {e \in X : e.asset = asset}
           f == [e \in X |-> Effect(e)]
           k == [e \in Y |-> e.account_id]
           h == [a \in A |-> compute_balance(X, a, asset)]
<1>1. IsFiniteSet(Y)
  BY FS_Subset
<1>2. \A e \in X : f[e] \in Int /\ f[e] = Effect(e)
  BY EffectType
<1>3. \A e \in Y : f[e] \in Int /\ k[e] \in A
  BY <1>2
<1>4. ASSUME NEW a \in A PROVE h[a] = Sum(f, Group(Y, k, a)) /\ h[a] \in Int
  <2> DEFINE Z == {e \in Y : k[e] = a}
  <2>1. Z = {e \in X : /\ e.account_id = a
                       /\ asset = "" \/ e.asset = asset}
    OBVIOUS
  <2>2. h[a] = MapThenSumSet(Effect, Z)
    BY <2>1 DEF compute_balance
  <2>3. IsFiniteSet(Z) /\ \A e \in Z : f[e] \in Int /\ f[e] = Effect(e)
    BY <1>1, <1>2, FS_Subset
  <2> HIDE DEF Z, f, h
  <2>4. MapThenSumSet(Effect, Z) = Sum(f, Z)
    BY <2>3, EffectSum
  <2>5. Sums(f, Z)
    BY <2>3, SumRules
  <2>6. Sum(f, Z) \in Int
    BY <2>5 DEF Sums
  <2> QED BY <2>2, <2>4, <2>6 DEF Z, Group
<1>5. \A a \in A : h[a] \in Int /\ h[a] = compute_balance(X, a, asset)
  BY <1>4
<1> HIDE DEF f, k, h, Y
<1>6. BalancesOf(X, asset, A) = Sum(h, A)
  <2>1. ASSUME NEW g, g = h PROVE BalancesOf(X, asset, A) = Sum(g, A)
    <3>1. \A a \in A : g[a] \in Int /\ g[a] = compute_balance(X, a, asset)
      BY <1>5, <2>1
    <3>2. IsFiniteSet(A)
      OBVIOUS
    <3> QED BY ONLY <3>1, <3>2, BalanceSum
  <2> QED BY <2>1
<1>7. Sum(h, A) = Sum(f, Y)
  <2>1. ASSUME NEW g, g = h PROVE Sum(g, A) = Sum(f, Y)
    <3>1. \A a \in A : g[a] = Sum(f, Group(Y, k, a))
      BY <1>4, <2>1
    <3>2. IsFiniteSet(A)
      OBVIOUS
    <3> QED BY ONLY <1>1, <1>3, <3>1, <3>2, SumOfGroups
  <2> QED BY <2>1
<1>8. MapThenSumSet(Effect, Y) = Sum(f, Y)
  <2>1. \A e \in Y : f[e] \in Int /\ f[e] = Effect(e)
    BY <1>2 DEF Y
  <2> QED BY <1>1, <2>1, EffectSum
<1> QED BY <1>6, <1>7, <1>8 DEF Net, Y

\* The entries that post builds of a request it has not refused are at least two and
\* cancel out in every asset (post_via_memory, post_via_db).
LEMMA NewEntriesBalance ==
    ASSUME NEW r, NEW req, NEW prev, NEW seq, NEW asset,
           PostError(req) = "none",
           Len(req.entries) \in Nat \ {0},
           DOMAIN req.entries = 1..Len(req.entries),
           \A k \in 1..Len(req.entries) : req.entries[k].amount \in Nat
    PROVE  /\ Len(req.entries) >= 2
           /\ Net(RowSet(CreatedEntries(r, req, prev, seq), Len(req.entries)), asset) = 0
<1> DEFINE lines == req.entries
           n == Len(lines)
           rows == CreatedEntries(r, req, prev, seq)
<1>1. /\ Balanced(lines)
      /\ \A k \in 1..n : lines[k].amount # 0 /\ lines[k].direction \in Direction
  <2>1. Validated(req) /\ Balanced(lines)
    BY DEF PostError
  <2> QED BY <2>1 DEF Validated, validate_amount
<1>2. ASSUME NEW k \in 1..n
      PROVE  /\ rows[k].entry_id = <<r, k>>
             /\ rows[k].amount = lines[k].amount
             /\ rows[k].direction = lines[k].direction
             /\ rows[k].asset = lines[k].asset
  BY DEF CreatedEntries, EntryId
<1>3. n \in Nat \ {0} /\ DOMAIN lines = 1..n /\ \A k \in 1..n : lines[k].amount \in Nat
  OBVIOUS
<1> HIDE DEF rows, n, lines
<1>4. \A j, k \in 1..n : rows[j] = rows[k] => j = k
  <2>1. ASSUME NEW j \in 1..n, NEW k \in 1..n, rows[j] = rows[k] PROVE j = k
    <3>1. <<r, j>> = <<r, k>>
      BY <1>2, <2>1
    <3> QED BY <3>1
  <2> QED BY <2>1
<1>5. Net(RowSet(rows, n), asset) = 0
  <2>1. /\ n \in Nat /\ Balanced(lines)
        /\ \A k \in 1..n : lines[k].amount \in Nat /\ lines[k].direction \in Direction
        /\ \A k \in 1..n : /\ rows[k].amount = lines[k].amount
                           /\ rows[k].direction = lines[k].direction
                           /\ rows[k].asset = lines[k].asset
    BY <1>1, <1>2, <1>3
  <2> QED BY ONLY <1>3, <1>4, <2>1, NetOfPosting, SMTT(60)
<1>6. n >= 2
  BY <1>1, <1>3, TwoEntries DEF n
<1> QED BY <1>5, <1>6 DEF rows, n, lines

-----------------------------------------------------------------------------
(* A longer chain.                                                         *)

\* A chain that verifies and is numbered 1, 2, 3...
Line(rows) == /\ verify_chain(rows)
              /\ \A i \in 1..Len(rows) : rows[i].sequence_number = i

\* The entries of a posting that goes on from the head and the number of such a chain
\* make it a longer one (post_via_memory, post_via_db, hashchain::verify_chain).
LEMMA LongerLine ==
    ASSUME NEW S, NEW s \in Seq(S), Line(s), NEW t \in Seq(S),
           NEW h, h[0] = global_head(s),
           \A k \in 1..Len(t) : /\ t[k].sequence_number = Len(s) + k
                                /\ t[k].this_hash = h[k]
                                /\ LinkOK(t[k], h[k - 1])
    PROVE  Line(s \o t)
<1> DEFINE n == Len(s)
           m == Len(t)
           all == s \o t
<1>1. n \in Nat /\ m \in Nat
  OBVIOUS
<1>2. /\ Len(all) = n + m
      /\ \A i \in 1..n : all[i] = s[i]
      /\ \A k \in 1..m : all[n + k] = t[k]
  BY Extended
<1>3. /\ \A k \in 1..m : /\ t[k].sequence_number = n + k
                         /\ t[k].this_hash = h[k]
                         /\ LinkOK(t[k], h[k - 1])
      /\ \A i \in 1..n : LinkOK(s[i], IF i = 1 THEN GENESIS_HASH ELSE s[i - 1].this_hash)
      /\ \A i \in 1..n : s[i].sequence_number = i
      /\ s # <<>> <=> n # 0
  BY EmptySeq DEF Line, verify_chain
<1>4. h[0] = IF n = 0 THEN GENESIS_HASH ELSE s[n].this_hash
  BY <1>3 DEF global_head
<1> HIDE DEF all, n, m
<1>5. ASSUME NEW i \in 1..(n + m)
      PROVE  /\ LinkOK(all[i], IF i = 1 THEN GENESIS_HASH ELSE all[i - 1].this_hash)
             /\ all[i].sequence_number = i
  <2>1. CASE i \in 1..n
    <3>1. all[i] = s[i] /\ (i # 1 => all[i - 1] = s[i - 1])
      BY <1>1, <1>2, <2>1
    <3> QED BY <1>3, <2>1, <3>1
  <2>2. CASE i = n + 1
    <3>1. 1 \in 1..m /\ all[i] = t[1]
      BY <1>1, <1>2, <2>2
    <3>2. LinkOK(t[1], h[0]) /\ t[1].sequence_number = i
      <4>1. LinkOK(t[1], h[1 - 1]) /\ t[1].sequence_number = n + 1
        BY <1>3, <3>1
      <4> QED BY <2>2, <4>1
    <3>3. h[0] = IF i = 1 THEN GENESIS_HASH ELSE all[i - 1].this_hash
      <4>1. CASE n = 0
        BY <1>4, <2>2, <4>1
      <4>2. CASE n # 0
        <5>1. n \in 1..n /\ i # 1 /\ i - 1 = n
          BY <1>1, <2>2, <4>2
        <5> QED BY <1>2, <1>4, <4>2, <5>1
      <4> QED BY <4>1, <4>2
    <3> QED BY <3>1, <3>2, <3>3
  <2>3. CASE i \in (n + 2)..(n + m)
    <3>1. PICK k \in 2..m : i = n + k /\ i # 1 /\ i - 1 = n + (k - 1)
      <4>1. i - n \in 2..m /\ i = n + (i - n) /\ i # 1 /\ i - 1 = n + ((i - n) - 1)
        BY <1>1, <2>3
      <4> QED BY <4>1
    <3>2. k \in 1..m /\ k - 1 \in 1..m
      BY <1>1
    <3>3. all[i] = t[k] /\ all[i - 1] = t[k - 1]
      BY <1>2, <3>1, <3>2
    <3>4. LinkOK(t[k], h[k - 1]) /\ t[k - 1].this_hash = h[k - 1] /\ t[k].sequence_number = i
      BY <1>3, <3>1, <3>2
    <3> QED BY <3>1, <3>3, <3>4
  <2> QED BY <1>1, <2>1, <2>2, <2>3
<1> QED BY <1>2, <1>5 DEF Line, verify_chain, all
=============================================================================
