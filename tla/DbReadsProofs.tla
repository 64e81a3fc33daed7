---------------------------- MODULE DbReadsProofs ----------------------------
(***************************************************************************)
(* What the calls of several queries return while postings go on being     *)
(* committed between them, for every set of callers, requests, replicas    *)
(* and failures.                                                           *)
(***************************************************************************)
EXTENDS DbReads, DbCacheProofs

-----------------------------------------------------------------------------
(* The store below.                                                        *)

\* A step is one of the store, or one of a reader and none of the store's.
LEMMA StepOfStore ==
    ASSUME [ReadsNext]_<<store, reading>>
    PROVE  [Next]_vars
<1>1. CASE Serve
  BY <1>1 DEF Next
<1>2. ASSUME NEW c \in Callers,
             \/ WriteSnapshots(c) \/ BalanceViaSnapshot(c) \/ UserCustodialSum(c)
             \/ GetPosting(c) \/ ListPostings(c) \/ Ledger(c)
      PROVE  UNCHANGED vars
  BY <1>2 DEF WriteSnapshots, BalanceViaSnapshot, UserCustodialSum, GetPosting,
              ListPostings, Ledger, Begin, store
<1>3. ASSUME NEW c \in Callers, Ask(c) \/ AskFails(c) \/ InsertSnapshot(c) \/ Answer(c)
      PROVE  UNCHANGED vars
  BY <1>3 DEF Ask, AskFails, InsertSnapshot, Answer, store
<1> QED BY <1>1, <1>2, <1>3 DEF ReadsNext, store

\* So what is proved of the store alone may be used here.
LEMMA ReadsRunTheStore == ReadsSpec => Spec
<1>1. ReadsInit => Init
  BY DEF ReadsInit
<1>2. [ReadsNext]_<<store, reading>> => [Next]_vars
  BY StepOfStore
<1> QED BY <1>1, <1>2, PTL DEF ReadsSpec, Spec

-----------------------------------------------------------------------------
(* Lists.                                                                  *)

IsList(s) == Len(s) \in Nat /\ s = [i \in 1..Len(s) |-> s[i]]

LEMMA SequenceIsList ==
    ASSUME NEW T, NEW s \in Seq(T)
    PROVE  IsList(s)
BY DEF IsList

LEMMA AppendToList ==
    ASSUME NEW s, IsList(s), NEW x
    PROVE  /\ IsList(Append(s, x)) /\ DOMAIN Append(s, x) = 1..(Len(s) + 1)
           /\ Len(Append(s, x)) = Len(s) + 1 /\ DOMAIN s = 1..Len(s) /\ Len(s) \in Nat
           /\ \A i \in 1..Len(s) : Append(s, x)[i] = s[i]
           /\ Append(s, x)[Len(s) + 1] = x
<1> DEFINE T == {s[i] : i \in 1..Len(s)} \cup {x}
           n == Len(s)
<1>1. n \in Nat /\ s = [i \in 1..n |-> s[i]]
  BY DEF IsList
<1>2. s \in Seq(T)
  <2>1. [i \in 1..n |-> s[i]] \in [1..n -> T]
    OBVIOUS
  <2> HIDE DEF T
  <2>2. s \in [1..n -> T]
    BY <1>1, <2>1
  <2> QED BY <1>1, <2>2
<1>3. x \in T
  OBVIOUS
<1> HIDE DEF T
<1>4. /\ Append(s, x) \in Seq(T) /\ Len(Append(s, x)) = n + 1
      /\ \A i \in 1..n : Append(s, x)[i] = s[i]
      /\ Append(s, x)[n + 1] = x
  BY <1>2, <1>3
<1>5. DOMAIN s = 1..n /\ DOMAIN Append(s, x) = 1..(n + 1)
  BY <1>2, <1>4
<1>6. IsList(Append(s, x))
  BY <1>4, SequenceIsList
<1> QED BY <1>1, <1>4, <1>5, <1>6 DEF IsList

LEMMA TailOfList ==
    ASSUME NEW s, IsList(s), s # <<>>
    PROVE  /\ IsList(Tail(s)) /\ Head(s) = s[1] /\ DOMAIN s = 1..Len(s)
           /\ Len(s) \in Nat \ {0} /\ Len(Tail(s)) = Len(s) - 1
           /\ DOMAIN Tail(s) = 1..(Len(s) - 1)
           /\ \A i \in 1..(Len(s) - 1) : Tail(s)[i] = s[i + 1]
<1> DEFINE T == {s[i] : i \in 1..Len(s)}
           n == Len(s)
<1>1. n \in Nat /\ s = [i \in 1..n |-> s[i]]
  BY DEF IsList
<1>2. s \in Seq(T)
  <2>1. [i \in 1..n |-> s[i]] \in [1..n -> T]
    OBVIOUS
  <2> HIDE DEF T
  <2>2. s \in [1..n -> T]
    BY <1>1, <2>1
  <2> QED BY <1>1, <2>2
<1> HIDE DEF T
<1>3. /\ Tail(s) \in Seq(T) /\ Len(Tail(s)) = n - 1 /\ n # 0 /\ Head(s) = s[1]
      /\ \A i \in 1..(n - 1) : Tail(s)[i] = s[i + 1]
  BY <1>2
<1>4. DOMAIN s = 1..n /\ DOMAIN Tail(s) = 1..(n - 1)
  BY <1>2, <1>3
<1>5. IsList(Tail(s))
  BY <1>3, SequenceIsList
<1> QED BY <1>1, <1>3, <1>4, <1>5 DEF IsList

\* Which queries follow one that was answered, kind by kind.
LEMMA FollowingIs ==
    ASSUME NEW op, NEW q, NEW res, NEW todo
    PROVE  /\ q[1] = "pairs"  => Following(op, q, res, todo) = AllSnapshots(res)
           /\ q[1] = "exists" => Following(op, q, res, todo) = IF res THEN todo ELSE <<>>
           /\ q[1] = "latest" /\ res = NoKey =>
                 Following(op, q, res, todo) = << <<"balance", q[2], q[3]>> >>
           /\ q[1] = "latest" /\ res # NoKey =>
                 Following(op, q, res, todo)
                    = << <<"sequence", q[2], q[3], balance_snapshots[res].last_entry_id>> >>
           /\ q[1] = "sequence" =>
                 Following(op, q, res, todo) = << <<"delta", q[2], q[3], res>> >>
           /\ q[1] = "custodial" =>
                 Following(op, q, res, todo) = [i \in DOMAIN res |-> <<"balance", res[i], q[2]>>]
           /\ q[1] = "postings" /\ op = "list_postings" =>
                 Following(op, q, res, todo) = [i \in DOMAIN res |-> <<"entries", res[i]>>]
           /\ q[1] = "postings" /\ op = "get_posting" /\ res = <<>> =>
                 Following(op, q, res, todo) = <<>>
           /\ q[1] = "postings" /\ op = "get_posting" /\ res # <<>> =>
                 Following(op, q, res, todo) = todo
           /\ q[1] = "postings" /\ op \notin {"list_postings", "get_posting"} =>
                 Following(op, q, res, todo) = todo
           /\ q[1] \notin {"pairs", "exists", "latest", "sequence", "custodial", "postings"} =>
                 Following(op, q, res, todo) = todo
<1>1. CASE q[1] = "pairs"
  BY <1>1 DEF Following
<1>2. CASE q[1] = "exists"
  BY <1>2 DEF Following
<1>3. CASE q[1] = "latest"
  BY <1>3 DEF Following
<1>4. CASE q[1] = "sequence"
  BY <1>4 DEF Following
<1>5. CASE q[1] = "custodial"
  BY <1>5 DEF Following
<1>6. CASE q[1] = "postings"
  BY <1>6 DEF Following
<1>7. CASE q[1] \notin {"pairs", "exists", "latest", "sequence", "custodial", "postings"}
  BY <1>7 DEF Following
<1> QED BY <1>1, <1>2, <1>3, <1>4, <1>5, <1>6, <1>7

\* The results of the queries, kind by kind.
LEMMA ResultsIs ==
    ASSUME NEW q
    PROVE  /\ q[1] = "pairs"     => Results(q) = PairsQuery
           /\ q[1] = "balance"   => Results(q) = {compute_balance(entries, q[2], q[3])}
           /\ q[1] = "last"      => Results(q) = LastEntryQuery(q[2], q[3])
           /\ q[1] = "exists"    => Results(q) = {q[2] \in DOMAIN AccountTable}
           /\ q[1] = "latest"    => Results(q) = LatestQuery(q[2], q[3])
           /\ q[1] = "sequence"  => Results(q) = {SequenceOf(q[4])}
           /\ q[1] = "delta"     => Results(q) = DeltaQuery(q[2], q[3], q[4])
           /\ q[1] = "page"      => Results(q) = PageQuery(q[2], q[3])
           /\ q[1] = "custodial" => Results(q) = CustodialQuery(q[2])
           /\ q[1] = "postings"  => Results(q) = PostingsQuery(q[2], q[3])
           /\ q[1] = "entries"   => Results(q) = {IdsInOrder(RowsOf(q[2]))}
<1>1. CASE q[1] = "pairs"
  BY <1>1 DEF Results
<1>2. CASE q[1] = "balance"
  BY <1>2 DEF Results
<1>3. CASE q[1] = "last"
  BY <1>3 DEF Results
<1>4. CASE q[1] = "exists"
  BY <1>4 DEF Results
<1>5. CASE q[1] = "latest"
  BY <1>5 DEF Results
<1>6. CASE q[1] = "sequence"
  BY <1>6 DEF Results
<1>7. CASE q[1] = "delta"
  BY <1>7 DEF Results
<1>8. CASE q[1] = "page"
  BY <1>8 DEF Results
<1>9. CASE q[1] = "custodial"
  BY <1>9 DEF Results
<1>10. CASE q[1] = "postings"
  BY <1>10 DEF Results
<1>11. CASE q[1] = "entries"
  BY <1>11 DEF Results
<1> QED BY <1>1, <1>2, <1>3, <1>4, <1>5, <1>6, <1>7, <1>8, <1>9, <1>10, <1>11

\* SetToSeq lists the members of a finite set, each once.
LEMMA SetIsListed ==
    ASSUME NEW S, IsFiniteSet(S), NEW list, list = SetToSeq(S)
    PROVE  /\ Cardinality(S) \in Nat /\ Len(list) = Cardinality(S)
           /\ IsList(list) /\ DOMAIN list = 1..Len(list)
           /\ ToSet(list) = S
           /\ \A i, j \in DOMAIN list : list[i] = list[j] => i = j
<1> DEFINE n == Cardinality(S)
<1>1. n \in Nat /\ ExistsBijection(1..n, S)
  BY FS_CardinalityType
<1>2. PICK f : f \in Bijection(1..n, S)
  BY <1>1 DEF ExistsBijection
<1>3. f \in [1..n -> S] /\ \A i, j \in 1..n : f[i] = f[j] => i = j
  BY <1>2 DEF Bijection, Injection, IsInjective
<1>4. list \in [1..n -> S] /\ \A i, j \in 1..n : list[i] = list[j] => i = j
  <2>1. IsInjective(f)
    BY <1>3 DEF IsInjective
  <2>2. \E g \in [1..n -> S] : IsInjective(g)
    BY <1>3, <2>1
  <2>3. list \in [1..n -> S] /\ IsInjective(list)
    BY <2>2 DEF SetToSeq
  <2> QED BY <2>3 DEF IsInjective
<1> HIDE DEF n
<1>5. list \in Seq(S) /\ Len(list) = n /\ DOMAIN list = 1..n
  BY <1>1, <1>4
<1>6. list \in Surjection(1..n, S)
  <2>1. list \in Injection(1..n, S)
    BY <1>4 DEF Injection, IsInjective
  <2>2. IsFiniteSet(1..n) /\ Cardinality(1..n) = n
    BY <1>1, FS_Interval
  <2> QED BY <2>1, <2>2, FS_Injection DEF n
<1>7. ToSet(list) = S
  BY <1>4, <1>5, <1>6 DEF Surjection, ToSet
<1> QED BY <1>1, <1>4, <1>5, <1>7, SequenceIsList DEF n

-----------------------------------------------------------------------------
(* The steps of a caller.                                                  *)

\* What the store is known for, whatever its callers do.
StoreSound == DbInv /\ IsFiniteSet(entries)

\* The calls are records; what they have still to ask and what they have got are lists.
CallsListed ==
    /\ DOMAIN call = Callers
    /\ \A c \in Callers : /\ DOMAIN call[c] = {"op", "at", "todo", "got", "since"}
                          /\ IsList(call[c].todo) /\ IsList(call[c].got)

\* Caller c moves, the others do not.
Alone(c) ==
    /\ DOMAIN call' = Callers
    /\ DOMAIN call'[c] = {"op", "at", "todo", "got", "since"}
    /\ \A d \in Callers : d # c => call'[d] = call[d]

Starts(c, op, todo) ==
    /\ Alone(c)
    /\ call'[c].op = op /\ call'[c].todo = todo /\ call'[c].got = <<>>
    /\ call'[c].since = IF op \in AnswersWithSum THEN entries ELSE {}

\* Its next query brings something in, and some are still to be asked then.
Learns(c, ok, is, rest) ==
    /\ Alone(c)
    /\ call[c].todo # <<>>
    /\ call'[c].op = call[c].op /\ call'[c].since = call[c].since
    /\ call'[c].got = Append(call[c].got, [q |-> Head(call[c].todo), ok |-> ok, is |-> is])
    /\ call'[c].todo = rest

Inserts(c) ==
    /\ Alone(c)
    /\ call[c].todo # <<>>
    /\ call'[c].op = call[c].op /\ call'[c].since = call[c].since
    /\ call'[c].got = <<>> /\ call'[c].todo = Tail(call[c].todo)

LEMMA BeginStarts ==
    ASSUME CallsListed, NEW c \in Callers, NEW op, NEW todo, Begin(c, op, todo)
    PROVE  call[c].op = "none" /\ Starts(c, op, todo) /\ UNCHANGED <<vars, past, balance_snapshots, now>>
BY DEF CallsListed, Begin, Busy, Starts, Alone, store

LEMMA AskLearns ==
    ASSUME CallsListed, NEW c \in Callers, Ask(c)
    PROVE  /\ \E is \in Results(Head(call[c].todo)) :
                 Learns(c, TRUE, is, Following(call[c].op, Head(call[c].todo), is, Tail(call[c].todo)))
           /\ Head(call[c].todo)[1] # "insert"
           /\ UNCHANGED <<vars, past, balance_snapshots, now, walk>>
BY ZenonT(30) DEF CallsListed, Ask, Learns, Alone, store

LEMMA FailureLearns ==
    ASSUME CallsListed, NEW c \in Callers, AskFails(c)
    PROVE  /\ Learns(c, FALSE, Default(Head(call[c].todo)[1]),
                     FollowingError(Head(call[c].todo), Tail(call[c].todo)))
           /\ Head(call[c].todo)[1] \in Failing /\ NothingFailed(c)
           /\ UNCHANGED <<vars, past, balance_snapshots, now, walk>>
BY DEF CallsListed, AskFails, Learns, Alone, store

LEMMA InsertInserts ==
    ASSUME CallsListed, NEW c \in Callers, InsertSnapshot(c)
    PROVE  Inserts(c) /\ Head(call[c].todo)[1] = "insert" /\ UNCHANGED <<vars, past, walk>>
BY DEF CallsListed, InsertSnapshot, Inserts, Alone, store

LEMMA AnswerEnds ==
    ASSUME CallsListed, NEW c \in Callers, Answer(c)
    PROVE  /\ Alone(c) /\ call[c].todo = <<>>
           /\ call'[c].op = "none" /\ call'[c].todo = <<>> /\ call'[c].got = <<>>
           /\ UNCHANGED <<vars, past, balance_snapshots, now>>
BY DEF CallsListed, Answer, Alone, Idle, store

\* A posting has rows, and so the answer that lists their ids has some.
LEMMA PostingHasRows ==
    ASSUME DbInv, NEW id \in DOMAIN postings
    PROVE  RowsOf(id) # {} /\ IdsInOrder(RowsOf(id)) # <<>>
<1>1. PICK r \in Requests : Id(r) = id /\ Wrote(r)
  BY DEF DbInv, EveryPostingWritten
<1>2. /\ PostError(Payload[r]) = "none" /\ prev[r] \in Hashes /\ seq[r] \in Nat
      /\ RowsOf(id) = ToSet(Created(r))
  BY <1>1 DEF Wrote, DbInv, DbTypes
<1> DEFINE n == Len(Payload[r].entries)
<1>3. n \in Nat \ {0} /\ DOMAIN Created(r) = 1..n /\ DOMAIN Payload[r].entries = 1..n
  BY <1>2, Built, ValidLines DEF Hashable
<1>4. IdsInOrder(RowsOf(id)) = NewIds(r)
  BY <1>1, IdsOfPosting
<1> HIDE DEF n
<1>5. RowsOf(id) # {}
  <2>1. 1 \in 1..n
    BY <1>3
  <2> QED BY <1>2, <1>3, <2>1 DEF ToSet
<1>6. DOMAIN NewIds(r) = 1..n
  BY <1>3 DEF NewIds
<1>7. DOMAIN NewIds(r) # {}
  <2>1. 1 \in 1..n
    BY <1>3
  <2> QED BY <1>6, <2>1
<1> QED BY <1>4, <1>5, <1>7

\* So there are finitely many of them.
LEMMA PostingsFinite ==
    ASSUME StoreSound
    PROVE  IsFiniteSet(DOMAIN postings)
<1> DEFINE S == {e.posting_id : e \in entries}
           f == [e \in entries |-> e.posting_id]
<1>1. f \in Surjection(entries, S)
  BY DEF Surjection
<1>2. IsFiniteSet(S)
  <2> HIDE DEF f, S
  <2> QED BY <1>1, FS_Surjection DEF StoreSound
<1>3. ASSUME NEW id \in DOMAIN postings PROVE id \in S
  <2>1. PICK e \in RowsOf(id) : TRUE
    BY PostingHasRows DEF StoreSound
  <2> QED BY <2>1 DEF RowsOf
<1>4. DOMAIN postings \in SUBSET S
  BY <1>3
<1> HIDE DEF S
<1> QED BY <1>2, <1>4, FS_Subset

LEMMA TuplesAreLists ==
    /\ IsList(<<>>)
    /\ \A x : IsList(<<x>>)
    /\ \A x, y : IsList(<<x, y>>)
    /\ \A x, y, z : IsList(<<x, y, z>>)
<1>1. <<>> \in Seq({})
  OBVIOUS
<1>2. \A x : <<x>> \in Seq({x})
  OBVIOUS
<1>3. \A x, y : <<x, y>> \in Seq({x, y})
  OBVIOUS
<1>4. \A x, y, z : <<x, y, z>> \in Seq({x, y, z})
  OBVIOUS
<1> QED BY <1>1, <1>2, <1>3, <1>4, SequenceIsList

LEMMA FunctionIsList ==
    ASSUME NEW n \in Nat, NEW f, f = [i \in 1..n |-> f[i]]
    PROVE  IsList(f) /\ Len(f) = n /\ DOMAIN f = 1..n
<1> DEFINE T == {f[i] : i \in 1..n}
<1>1. [i \in 1..n |-> f[i]] \in [1..n -> T]
  OBVIOUS
<1> HIDE DEF T
<1>2. f \in [1..n -> T]
  BY <1>1
<1>3. f \in Seq(T) /\ Len(f) = n /\ DOMAIN f = 1..n
  BY <1>2
<1> QED BY <1>3, SequenceIsList

\* Only postings there are show in the answer that lists them.
LEMMA PostingsAsked ==
    ASSUME NEW ids, NEW limit, NEW res \in PostingsQuery(ids, limit)
    PROVE  \E S : S \subseteq ids \cap DOMAIN postings /\ res = SetToSeq(S)
<1> DEFINE found == ids \cap DOMAIN postings
           listed == {T \in SUBSET found : Cardinality(T) = Min({limit, Cardinality(found)})}
<1>1. res \in {SetToSeq(S) : S \in listed}
  BY DEF PostingsQuery
<1>2. listed \subseteq SUBSET found
  OBVIOUS
<1> HIDE DEF listed
<1>3. PICK S \in listed : res = SetToSeq(S)
  BY <1>1
<1>4. S \subseteq found
  BY <1>2, <1>3
<1> QED BY <1>3, <1>4

\* Whatever is to be asked after an answer or a failure is a list again.
LEMMA ResultListed ==
    ASSUME StoreSound, NEW q, q[1] \in {"pairs", "custodial", "postings"}, NEW res \in Results(q)
    PROVE  IsList(res) /\ DOMAIN res = 1..Len(res) /\ Len(res) \in Nat
<1>1. \E S : IsFiniteSet(S) /\ res = SetToSeq(S)
  <2>1. CASE q[1] = "pairs"
    <3> DEFINE S == {<<e.account_id, e.asset>> : e \in entries}
               f == [e \in entries |-> <<e.account_id, e.asset>>]
    <3>1. f \in Surjection(entries, S)
      BY DEF Surjection
    <3>2. IsFiniteSet(S)
      <4> HIDE DEF f, S
      <4> QED BY <3>1, FS_Surjection DEF StoreSound
    <3>3. res = SetToSeq(S)
      BY <2>1, ResultsIs DEF PairsQuery
    <3> QED BY <3>2, <3>3
  <2>2. CASE q[1] = "custodial"
    <3> DEFINE S == {a \in DOMAIN AccountTable : AccountTable[a] = "user_custodial"}
    <3>1. S \in SUBSET DOMAIN AccountTable
      OBVIOUS
    <3>2. CustodialQuery(q[2]) = {SetToSeq(S)}
      BY DEF CustodialQuery
    <3> HIDE DEF S
    <3>3. res = SetToSeq(S)
      BY <2>2, <3>2, ResultsIs
    <3> QED BY <3>1, <3>3, TableAssumption, FS_Subset
  <2>3. CASE q[1] = "postings"
    <3>0. res \in PostingsQuery(q[2], q[3])
      BY <2>3, ResultsIs
    <3>1. PICK S : S \subseteq q[2] \cap DOMAIN postings /\ res = SetToSeq(S)
      BY <3>0, PostingsAsked
    <3>2. S \in SUBSET DOMAIN postings
      BY <3>1
    <3> QED BY <3>1, <3>2, PostingsFinite, FS_Subset
  <2> QED BY <2>1, <2>2, <2>3
<1>2. PICK S : IsFiniteSet(S) /\ res = SetToSeq(S)
  BY <1>1
<1> QED BY <1>2, SetIsListed DEF IsList

LEMMA FollowingListed ==
    ASSUME StoreSound, NEW op, NEW q, NEW res \in Results(q), NEW todo, IsList(todo)
    PROVE  IsList(Following(op, q, res, todo))
<1>1. CASE q[1] = "pairs"
  <2>1. Len(res) \in Nat
    BY <1>1, ResultListed
  <2>2. PICK n \in Nat : n = 3 * Len(res)
    BY <2>1
  <2>3. AllSnapshots(res) = [i \in 1..n |-> AllSnapshots(res)[i]]
    BY <2>2 DEF AllSnapshots
  <2>4. IsList(AllSnapshots(res))
    BY <2>3, FunctionIsList
  <2> QED BY <1>1, <2>4, FollowingIs
<1>2. CASE q[1] = "custodial"
  <2>1. PICK f : f = [i \in DOMAIN res |-> <<"balance", res[i], q[2]>>]
    OBVIOUS
  <2>2. Len(res) \in Nat /\ f = [i \in 1..Len(res) |-> f[i]]
    BY <1>2, <2>1, ResultListed
  <2>3. IsList(f)
    BY <2>2, FunctionIsList
  <2> QED BY <1>2, <2>1, <2>3, FollowingIs
<1>3. CASE q[1] = "postings" /\ op = "list_postings"
  <2>1. PICK f : f = [i \in DOMAIN res |-> <<"entries", res[i]>>]
    OBVIOUS
  <2>2. Len(res) \in Nat /\ f = [i \in 1..Len(res) |-> f[i]]
    BY <1>3, <2>1, ResultListed
  <2>3. IsList(f)
    BY <2>2, FunctionIsList
  <2> QED BY <1>3, <2>1, <2>3, FollowingIs, SMTT(30)
<1>4. CASE q[1] = "postings" /\ op # "list_postings"
  BY <1>4, FollowingIs, TuplesAreLists
<1>5. CASE q[1] \in {"exists", "latest", "sequence"}
  BY <1>5, FollowingIs, TuplesAreLists
<1>6. CASE q[1] \notin {"pairs", "exists", "latest", "sequence", "custodial", "postings"}
  BY <1>6, FollowingIs
<1> QED BY <1>1, <1>2, <1>3, <1>4, <1>5, <1>6

\* The same for a query that failed.
LEMMA FollowingErrorIs ==
    ASSUME NEW q, NEW todo
    PROVE  /\ q[1] \in {"pairs", "exists", "page", "custodial", "postings"} =>
                 FollowingError(q, todo) = <<>>
           /\ q[1] \in {"latest", "sequence"} =>
                 FollowingError(q, todo) = << <<"balance", q[2], q[3]>> >>
           /\ q[1] \notin {"pairs", "exists", "page", "custodial", "postings", "latest",
                           "sequence"} =>
                 FollowingError(q, todo) = todo
           /\ IsList(todo) => IsList(FollowingError(q, todo))
<1>1. CASE q[1] \in {"pairs", "exists", "page", "custodial", "postings"}
  BY <1>1, TuplesAreLists DEF FollowingError
<1>2. CASE q[1] \in {"latest", "sequence"}
  BY <1>2, TuplesAreLists DEF FollowingError
<1>3. CASE q[1] \notin {"pairs", "exists", "page", "custodial", "postings", "latest", "sequence"}
  BY <1>3 DEF FollowingError
<1> QED BY <1>1, <1>2, <1>3

\* With which queries a call begins.
FirstQueries(op, todo) ==
    \/ op = "write_snapshots" /\ todo = << <<"pairs">> >>
    \/ op = "balance_via_snapshot" /\ \E pair \in Asked : todo = ViaQueries(pair)
    \/ op = "user_custodial_sum" /\ \E pair \in Asked : todo = << <<"custodial", pair[2]>> >>
    \/ op = "get_posting" /\ \E id \in Ids : todo = PostingQueries(id)
    \/ op = "list_postings" /\ \E limit \in Nat : todo = << <<"postings", Ids, limit>> >>
    \/ op = "ledger" /\ walk'.account # None /\ todo = PageQueries(walk'.account, walk.cursor)

Begins(c) ==
    \/ WriteSnapshots(c) \/ BalanceViaSnapshot(c) \/ UserCustodialSum(c)
    \/ GetPosting(c) \/ ListPostings(c) \/ Ledger(c)

\* Where the client reads on is known.
WalkTyped ==
    /\ DOMAIN walk = {"account", "cursor", "seen", "done"}
    /\ walk.cursor \in Nat /\ walk.seen \subseteq entries

LEMMA BeginsStarts ==
    ASSUME CallsListed, WalkTyped, NEW c \in Callers, Begins(c)
    PROVE  /\ \E op, todo : /\ FirstQueries(op, todo) /\ IsList(todo) /\ op # "none"
                            /\ Starts(c, op, todo) /\ (op # "ledger" => UNCHANGED walk)
           /\ call[c].op = "none"
           /\ DOMAIN walk' = DOMAIN walk
           /\ walk'.cursor = walk.cursor /\ walk'.seen = walk.seen
           /\ walk.account # None => walk'.account = walk.account
           /\ UNCHANGED <<vars, past, balance_snapshots, now>>
<1>1. CASE WriteSnapshots(c)
  <2>1. PICK todo : todo = << <<"pairs">> >>
    OBVIOUS
  <2>2. Begin(c, "write_snapshots", todo) /\ UNCHANGED walk
    BY <1>1, <2>1 DEF WriteSnapshots
  <2>3. FirstQueries("write_snapshots", todo) /\ IsList(todo)
    BY <2>1, TuplesAreLists DEF FirstQueries
  <2> QED BY <2>2, <2>3, BeginStarts
<1>2. CASE BalanceViaSnapshot(c)
  <2>1. PICK pair \in Asked : Begin(c, "balance_via_snapshot", ViaQueries(pair)) /\ UNCHANGED walk
    BY <1>2 DEF BalanceViaSnapshot
  <2>2. FirstQueries("balance_via_snapshot", ViaQueries(pair))
    BY DEF FirstQueries
  <2>3. IsList(ViaQueries(pair))
    BY TuplesAreLists DEF ViaQueries
  <2> QED BY <2>1, <2>2, <2>3, BeginStarts
<1>3. CASE UserCustodialSum(c)
  <2>1. PICK pair \in Asked :
            Begin(c, "user_custodial_sum", << <<"custodial", pair[2]>> >>) /\ UNCHANGED walk
    BY <1>3 DEF UserCustodialSum
  <2>2. PICK todo : todo = << <<"custodial", pair[2]>> >>
    OBVIOUS
  <2>3. FirstQueries("user_custodial_sum", todo) /\ IsList(todo)
    BY <2>2, TuplesAreLists DEF FirstQueries
  <2> QED BY <2>1, <2>2, <2>3, BeginStarts
<1>4. CASE GetPosting(c)
  <2>1. PICK id \in Ids : Begin(c, "get_posting", PostingQueries(id)) /\ UNCHANGED walk
    BY <1>4 DEF GetPosting
  <2>2. FirstQueries("get_posting", PostingQueries(id))
    BY DEF FirstQueries
  <2>3. IsList(PostingQueries(id))
    BY TuplesAreLists DEF PostingQueries
  <2> QED BY <2>1, <2>2, <2>3, BeginStarts
<1>5. CASE ListPostings(c)
  <2>0. PICK limit \in 1..Cardinality(Ids) :
            Begin(c, "list_postings", << <<"postings", Ids, limit>> >>) /\ UNCHANGED walk
    BY <1>5 DEF ListPostings
  <2>1. PICK todo : todo = << <<"postings", Ids, limit>> >>
    OBVIOUS
  <2>2. Begin(c, "list_postings", todo) /\ UNCHANGED walk
    BY <2>0, <2>1
  <2>3. FirstQueries("list_postings", todo) /\ IsList(todo)
    BY <2>0, <2>1, TuplesAreLists DEF FirstQueries
  <2> QED BY <2>2, <2>3, BeginStarts
<1>6. CASE Ledger(c)
  <2>1. PICK account_id \in IF walk.account = None THEN {pair[1] : pair \in Asked}
                            ELSE {walk.account} :
            /\ Begin(c, "ledger", PageQueries(account_id, walk.cursor))
            /\ walk' = [walk EXCEPT !.account = account_id]
    BY <1>6 DEF Ledger
  <2>2. account_id # None /\ (walk.account # None => account_id = walk.account)
    BY <2>1, AskedAssumption
  <2>3. /\ walk'.account = account_id /\ DOMAIN walk' = DOMAIN walk
        /\ walk'.cursor = walk.cursor /\ walk'.seen = walk.seen
    BY <2>1 DEF WalkTyped
  <2>4. FirstQueries("ledger", PageQueries(account_id, walk.cursor))
    BY <2>2, <2>3 DEF FirstQueries
  <2>5. IsList(PageQueries(account_id, walk.cursor))
    BY TuplesAreLists, Zenon DEF PageQueries
  <2> QED BY <2>1, <2>2, <2>3, <2>4, <2>5, BeginStarts
<1> QED BY <1>1, <1>2, <1>3, <1>4, <1>5, <1>6 DEF Begins

\* A step is one of the store, or one of a caller that leaves the store alone.
LEMMA StepOfReads ==
    ASSUME [ReadsNext]_<<store, reading>>
    PROVE  \/ [Next]_vars /\ UNCHANGED reading
           \/ \E c \in Callers :
                 Begins(c) \/ Ask(c) \/ AskFails(c) \/ InsertSnapshot(c) \/ Answer(c)
BY DEF ReadsNext, Begins, Next, store

LEMMA CallsStayListed ==
    ASSUME StoreSound, CallsListed, WalkTyped, [ReadsNext]_<<store, reading>>
    PROVE  CallsListed'
<1>1. CASE UNCHANGED reading
  BY <1>1 DEF CallsListed, reading
<1>2. ASSUME NEW c \in Callers, Alone(c), IsList(call'[c].todo), IsList(call'[c].got)
      PROVE  CallsListed'
  BY <1>2 DEF CallsListed, Alone
<1>3. ASSUME NEW c \in Callers, NEW ok, NEW is, NEW rest, Learns(c, ok, is, rest), IsList(rest)
      PROVE  CallsListed'
  <2>1. IsList(call'[c].got)
    BY <1>3, AppendToList DEF CallsListed, Learns
  <2> QED BY <1>2, <1>3, <2>1 DEF Learns
<1>4. ASSUME NEW c \in Callers, Begins(c) PROVE CallsListed'
  BY <1>2, <1>4, BeginsStarts, TuplesAreLists DEF Starts
<1>5. ASSUME NEW c \in Callers, call[c].todo # <<>> PROVE IsList(Tail(call[c].todo))
  BY <1>5, TailOfList DEF CallsListed
<1>6. ASSUME NEW c \in Callers, Ask(c) PROVE CallsListed'
  <2>1. PICK is \in Results(Head(call[c].todo)) :
            Learns(c, TRUE, is, Following(call[c].op, Head(call[c].todo), is, Tail(call[c].todo)))
    BY <1>6, AskLearns
  <2>2. IsList(Tail(call[c].todo))
    BY <1>5, <2>1 DEF Learns
  <2>3. IsList(Following(call[c].op, Head(call[c].todo), is, Tail(call[c].todo)))
    BY <2>2, FollowingListed
  <2> QED BY <1>3, <2>1, <2>3
<1>7. ASSUME NEW c \in Callers, AskFails(c) PROVE CallsListed'
  <2>1. Learns(c, FALSE, Default(Head(call[c].todo)[1]),
               FollowingError(Head(call[c].todo), Tail(call[c].todo)))
    BY <1>7, FailureLearns
  <2>2. IsList(FollowingError(Head(call[c].todo), Tail(call[c].todo)))
    BY <1>5, <2>1, FollowingErrorIs DEF Learns
  <2> QED BY <1>3, <2>1, <2>2
<1>8. ASSUME NEW c \in Callers, InsertSnapshot(c) PROVE CallsListed'
  BY <1>2, <1>5, <1>8, InsertInserts, TuplesAreLists DEF Inserts
<1>9. ASSUME NEW c \in Callers, Answer(c) PROVE CallsListed'
  BY <1>2, <1>9, AnswerEnds, TuplesAreLists
<1> QED BY <1>1, <1>4, <1>6, <1>7, <1>8, <1>9, StepOfReads

\* What a caller has got stays, in its place, when it learns something more.
LEMMA ItemLearnt ==
    ASSUME CallsListed, NEW c \in Callers, NEW ok, NEW is, NEW rest, Learns(c, ok, is, rest),
           NEW n, n = Len(call[c].got)
    PROVE  /\ n \in Nat /\ DOMAIN call[c].got = 1..n /\ DOMAIN call'[c].got = 1..(n + 1)
           /\ Len(call'[c].got) = n + 1
           /\ \A i \in 1..n : call'[c].got[i] = call[c].got[i]
           /\ call'[c].got[n + 1] = [q |-> Head(call[c].todo), ok |-> ok, is |-> is]
           /\ \A i \in 1..(n + 1) : i \in 1..n \/ i = n + 1
<1>1. /\ n \in Nat /\ DOMAIN call[c].got = 1..n
      /\ \A x : /\ DOMAIN Append(call[c].got, x) = 1..(n + 1)
                /\ Len(Append(call[c].got, x)) = n + 1
                /\ \A i \in 1..n : Append(call[c].got, x)[i] = call[c].got[i]
                /\ Append(call[c].got, x)[n + 1] = x
  BY AppendToList DEF CallsListed
<1> QED BY <1>1, SMTT(30) DEF Learns

-----------------------------------------------------------------------------
(* Types.  The row of a snapshot is made of what the queries before its    *)
(* insert returned, so their order must be known.                          *)

LastIds(account_id, asset) ==
    {e.entry_id : e \in AccountRows(account_id, asset)} \cup {NoEntryId}

ItemTyped(x) ==
    /\ x.q[1] = "page" /\ x.ok => InSequence(x.is)
    /\ x.q[1] = "balance" => x.is \in Int
    /\ x.q[1] = "last" => x.is \in LastIds(x.q[2], x.q[3])

ItemsTyped == \A c \in Callers : \A i \in DOMAIN call[c].got : ItemTyped(call[c].got[i])

\* Before the insert the last entry was asked for, and before that the balance, of the
\* same account and asset.
InTurn(todo, got) ==
    \A i \in DOMAIN todo :
        /\ todo[i][1] = "last" =>
              IF i = 1 THEN /\ got # <<>>
                            /\ got[Len(got)].q = <<"balance", todo[i][2], todo[i][3]>>
              ELSE todo[i - 1] = <<"balance", todo[i][2], todo[i][3]>>
        /\ todo[i][1] = "insert" =>
              IF i = 1 THEN /\ Len(got) >= 2
                            /\ got[Len(got)].q = <<"last", todo[i][2], todo[i][3]>>
                            /\ got[Len(got) - 1].q = <<"balance", todo[i][2], todo[i][3]>>
              ELSE todo[i - 1] = <<"last", todo[i][2], todo[i][3]>>

SnapshotTyped(key) ==
    /\ key[3] \in 0..MaxNow
    /\ balance_snapshots[key].balance \in Int
    /\ balance_snapshots[key].last_entry_id \in LastIds(key[1], key[2])

ReadsTypes ==
    /\ CallsListed /\ WalkTyped /\ ItemsTyped
    /\ \A c \in Callers : InTurn(call[c].todo, call[c].got)
    /\ now \in 0..MaxNow
    /\ \A key \in DOMAIN balance_snapshots : SnapshotTyped(key)

\* Whatever is committed only adds to what was seen.
LEMMA StaysTyped ==
    ASSUME entries \subseteq entries'
    PROVE  /\ \A account_id, asset : LastIds(account_id, asset) \subseteq LastIds(account_id, asset)'
           /\ \A s : InSequence(s) => InSequence(s)'
           /\ \A x : ItemTyped(x) => ItemTyped(x)'
<1>1. \A a, s : AccountRows(a, s) \subseteq AccountRows(a, s)'
  BY DEF AccountRows
<1>2. \A a, s : LastIds(a, s) \subseteq LastIds(a, s)'
  BY <1>1 DEF LastIds
<1>3. \A s : InSequence(s) => InSequence(s)'
  BY DEF InSequence
<1>4. \A x : ItemTyped(x) => ItemTyped(x)'
  BY <1>2, <1>3 DEF ItemTyped
<1> QED BY <1>2, <1>3, <1>4

\* The page of a statement.
AllRows(account_id) == AccountRows(account_id, "")
RowsAfter(account_id, cursor) == {e \in AllRows(account_id) : e.sequence_number > cursor}
Page(rows, tie) == SubSeq(InOrder(rows, tie), 1, Min({Limit + 1, Cardinality(rows)}))

LEMMA PageQueryIs ==
    ASSUME NEW account_id, NEW cursor
    PROVE  /\ PageQuery(account_id, cursor) = {Page(RowsAfter(account_id, cursor), tie) : tie \in TieBreaks}
           /\ AllRows(account_id) = {e \in entries : e.account_id = account_id}
<1>1. AllRows(account_id) = {e \in entries : e.account_id = account_id}
  BY Zenon DEF AllRows, AccountRows
<1>2. PageQuery(account_id, cursor) = {Page(RowsAfter(account_id, cursor), tie) : tie \in TieBreaks}
  BY Zenon DEF PageQuery, Page, RowsAfter, AllRows
<1> QED BY <1>1, <1>2

\* It shows the first rows there are, in order, and one more than fits (ORDER BY
\* sequence_number LIMIT limit + 1 in ledger_page_from_db).
LEMMA PageShows ==
    ASSUME StoreSound, NEW rows \in SUBSET entries, NEW tie \in TieBreaks,
           NEW page, page = Page(rows, tie)
    PROVE  /\ InSequence(page) /\ ToSet(page) \subseteq rows
           /\ Len(page) \in Nat /\ DOMAIN page = 1..Len(page) /\ Len(page) <= Limit + 1
           /\ Len(page) <= Limit => ToSet(page) = rows
           /\ \A e \in rows \ ToSet(page), x \in ToSet(page) :
                 x.sequence_number <= e.sequence_number
<1> DEFINE n == Cardinality(rows)
           m == Min({Limit + 1, n})
<1>1. PICK all : all = InOrder(rows, tie)
  OBVIOUS
<1>2. InSequence(all) /\ Len(all) = n /\ n \in Nat /\ ToSet(all) = rows
  BY <1>1, InOrderIsInSequence DEF StoreSound
<1>3. m \in 0..n /\ m <= Limit + 1 /\ (m <= Limit => m = n)
  <2>1. Limit \in Nat
    BY LimitAssumption
  <2> HIDE DEF n
  <2>2. \E x \in {Limit + 1, n} : \A y \in {Limit + 1, n} : x <= y
    BY <1>2, <2>1
  <2>3. m \in {Limit + 1, n} /\ \A y \in {Limit + 1, n} : m <= y
    BY <2>2 DEF Min
  <2> QED BY <1>2, <2>1, <2>3
<1> HIDE DEF n, m
<1>4. all \in Seq(EntryRecords) /\ DOMAIN all = 1..n
  BY <1>2 DEF InSequence
<1>5. page = SubSeq(all, 1, m)
  BY <1>1 DEF Page, m, n
<1>6. /\ page \in Seq(EntryRecords) /\ Len(page) = m /\ DOMAIN page = 1..m
      /\ \A i \in 1..m : page[i] = all[i]
  BY <1>2, <1>3, <1>4, <1>5
<1>7. m \in Nat /\ \A i \in 1..m : i \in 1..n
  BY <1>2, <1>3
<1>8. ToSet(page) \subseteq rows
  BY <1>2, <1>4, <1>6, <1>7 DEF ToSet
<1>9. InSequence(page)
  <2>1. ToSet(page) \subseteq entries
    BY <1>8
  <2>2. ASSUME NEW i \in 1..m, NEW j \in 1..m, i < j
        PROVE  page[i] # page[j] /\ page[i].sequence_number <= page[j].sequence_number
    <3>1. i \in DOMAIN all /\ j \in DOMAIN all /\ page[i] = all[i] /\ page[j] = all[j]
      BY <1>4, <1>6, <1>7
    <3> QED BY <1>2, <2>2, <3>1 DEF InSequence
  <2> QED BY <1>6, <2>1, <2>2 DEF InSequence
<1>10. ASSUME m <= Limit PROVE ToSet(page) = rows
  BY <1>2, <1>3, <1>4, <1>6, <1>10 DEF ToSet
<1>11. ASSUME NEW e \in rows \ ToSet(page), NEW x \in ToSet(page)
       PROVE  x.sequence_number <= e.sequence_number
  <2>1. PICK i \in 1..m : x = all[i]
    BY <1>6 DEF ToSet
  <2>2. PICK j \in 1..n : e = all[j]
    BY <1>2, <1>4 DEF ToSet
  <2>3. j \notin 1..m
    BY <1>6, <1>11, <2>2 DEF ToSet
  <2>4. i < j /\ i \in 1..n
    BY <1>2, <1>7, <2>3
  <2> QED BY <1>2, <1>4, <2>1, <2>2, <2>4 DEF InSequence
<1> QED BY <1>3, <1>6, <1>7, <1>8, <1>9, <1>10, <1>11

\* The result of a query has its type.
LEMMA ResultTyped ==
    ASSUME StoreSound, NEW q, NEW is \in Results(q), NEW x, x = [q |-> q, ok |-> TRUE, is |-> is]
    PROVE  ItemTyped(x)
<1>1. \A e \in entries : e.amount \in Nat
  BY DEF StoreSound, DbInv, DbTypes, EntryRecords
<1>2. CASE q[1] = "page"
  <2>1. RowsAfter(q[2], q[3]) \in SUBSET entries
    BY PageQueryIs DEF RowsAfter
  <2>2. PICK tie \in TieBreaks : is = Page(RowsAfter(q[2], q[3]), tie)
    <3>1. is \in PageQuery(q[2], q[3])
      BY <1>2, ResultsIs
    <3>2. PageQuery(q[2], q[3]) = {Page(RowsAfter(q[2], q[3]), t) : t \in TieBreaks}
      BY PageQueryIs
    <3> QED BY <3>1, <3>2
  <2>3. InSequence(is)
    BY <2>1, <2>2, PageShows
  <2> QED BY <1>2, <2>3 DEF ItemTyped
<1>3. CASE q[1] = "balance"
  <2>1. is = compute_balance(entries, q[2], q[3])
    BY <1>3, ResultsIs
  <2>2. is \in Int
    BY <1>1, <2>1, BalanceType DEF StoreSound
  <2> QED BY <1>3, <2>2 DEF ItemTyped
<1>4. CASE q[1] = "last"
  <2>1. is \in LastEntryQuery(q[2], q[3])
    BY <1>4, ResultsIs
  <2>2. is \in LastIds(q[2], q[3])
    BY <2>1 DEF LastEntryQuery, LastIds
  <2> QED BY <1>4, <2>2 DEF ItemTyped
<1>5. CASE q[1] \notin {"page", "balance", "last"}
  BY <1>5 DEF ItemTyped
<1> QED BY <1>2, <1>3, <1>4, <1>5

\* The queries go on in turn.
LEMMA TurnGoesOn ==
    ASSUME CallsListed, NEW c \in Callers, InTurn(call[c].todo, call[c].got), NEW ok, NEW is,
           Learns(c, ok, is, Tail(call[c].todo))
    PROVE  InTurn(call'[c].todo, call'[c].got)
<1> DEFINE todo == call[c].todo
           got == call[c].got
           n == Len(got)
           new == call'[c].got
<1>1. /\ n \in Nat /\ DOMAIN got = 1..n /\ Len(new) = n + 1
      /\ \A i \in 1..n : new[i] = got[i]
      /\ new[n + 1].q = Head(todo)
  <2>1. PICK k : k = Len(call[c].got)
    OBVIOUS
  <2>2. PICK rest : rest = Tail(call[c].todo)
    OBVIOUS
  <2>3. Learns(c, ok, is, rest)
    BY <2>2
  <2>4. /\ k \in Nat /\ DOMAIN call[c].got = 1..k /\ Len(call'[c].got) = k + 1
        /\ \A i \in 1..k : call'[c].got[i] = call[c].got[i]
        /\ call'[c].got[k + 1] = [q |-> Head(call[c].todo), ok |-> ok, is |-> is]
    BY ONLY <2>1, <2>3, CallsListed, c \in Callers, ItemLearnt
  <2> QED BY <2>1, <2>4
<1>2. /\ Len(todo) \in Nat \ {0} /\ DOMAIN todo = 1..Len(todo) /\ Head(todo) = todo[1]
      /\ DOMAIN Tail(todo) = 1..(Len(todo) - 1)
      /\ \A i \in 1..(Len(todo) - 1) : Tail(todo)[i] = todo[i + 1]
  BY TailOfList DEF CallsListed, Learns
<1>3. call'[c].todo = Tail(todo)
  BY DEF Learns
<1>4. InTurn(todo, got)
  OBVIOUS
<1>5. got = <<>> <=> n = 0
  <2>1. IsList(got)
    BY DEF CallsListed
  <2> QED BY <2>1 DEF IsList
<1> HIDE DEF todo, got, n, new
<1>6. ASSUME NEW i \in 1..(Len(todo) - 1) PROVE i + 1 \in DOMAIN todo /\ i \in DOMAIN todo
  BY <1>2
<1>7. 1 \in DOMAIN todo
  BY <1>2
<1>8. new # <<>>
  BY <1>1
<1>9. ASSUME NEW i \in 1..(Len(todo) - 1), todo[i + 1][1] = "last"
      PROVE  IF i = 1 THEN new[Len(new)].q = <<"balance", todo[i + 1][2], todo[i + 1][3]>>
             ELSE Tail(todo)[i - 1] = <<"balance", todo[i + 1][2], todo[i + 1][3]>>
  <2>1. todo[i] = <<"balance", todo[i + 1][2], todo[i + 1][3]>>
    <3>1. i + 1 # 1 /\ (i + 1) - 1 = i
      BY <1>2
    <3> QED BY <1>4, <1>6, <1>9, <3>1 DEF InTurn
  <2>2. CASE i = 1
    BY <1>1, <1>2, <2>1, <2>2
  <2>3. CASE i # 1
    <3>1. i - 1 \in 1..(Len(todo) - 1) /\ (i - 1) + 1 = i
      BY <1>2, <2>3
    <3> QED BY <1>2, <2>1, <2>3, <3>1
  <2> QED BY <2>2, <2>3
<1>10. ASSUME NEW i \in 1..(Len(todo) - 1), todo[i + 1][1] = "insert"
       PROVE  IF i = 1
              THEN /\ Len(new) >= 2
                   /\ new[Len(new)].q = <<"last", todo[i + 1][2], todo[i + 1][3]>>
                   /\ new[Len(new) - 1].q = <<"balance", todo[i + 1][2], todo[i + 1][3]>>
              ELSE Tail(todo)[i - 1] = <<"last", todo[i + 1][2], todo[i + 1][3]>>
  <2>1. todo[i] = <<"last", todo[i + 1][2], todo[i + 1][3]>>
    <3>1. i + 1 # 1 /\ (i + 1) - 1 = i
      BY <1>2
    <3> QED BY <1>4, <1>6, <1>10, <3>1 DEF InTurn
  <2>2. CASE i = 1
    <3>1. /\ todo[1][1] = "last" /\ todo[1][2] = todo[i + 1][2] /\ todo[1][3] = todo[i + 1][3]
      BY <2>1, <2>2
    <3>2. got # <<>> /\ got[n].q = <<"balance", todo[i + 1][2], todo[i + 1][3]>>
      BY <1>4, <1>7, <3>1 DEF InTurn, n
    <3>3. n \in 1..n /\ Len(new) >= 2 /\ Len(new) - 1 = n
      BY <1>1, <1>5, <3>2
    <3> QED BY <1>1, <1>2, <2>1, <2>2, <3>2, <3>3
  <2>3. CASE i # 1
    <3>1. i - 1 \in 1..(Len(todo) - 1) /\ (i - 1) + 1 = i
      BY <1>2, <2>3
    <3> QED BY <1>2, <2>1, <2>3, <3>1
  <2> QED BY <2>2, <2>3
<1>11. InTurn(Tail(todo), new)
  <2>1. PICK rest, k : rest = Tail(todo) /\ k = Len(todo) - 1
    OBVIOUS
  <2>2. DOMAIN rest = 1..k /\ \A i \in 1..k : rest[i] = todo[i + 1]
    BY <1>2, <2>1
  <2>3. ASSUME NEW i \in 1..k, rest[i][1] = "last"
        PROVE  IF i = 1 THEN new[Len(new)].q = <<"balance", rest[i][2], rest[i][3]>>
               ELSE rest[i - 1] = <<"balance", rest[i][2], rest[i][3]>>
    BY <1>9, <2>1, <2>2, <2>3
  <2>4. ASSUME NEW i \in 1..k, rest[i][1] = "insert"
        PROVE  IF i = 1 THEN /\ Len(new) >= 2
                             /\ new[Len(new)].q = <<"last", rest[i][2], rest[i][3]>>
                             /\ new[Len(new) - 1].q = <<"balance", rest[i][2], rest[i][3]>>
               ELSE rest[i - 1] = <<"last", rest[i][2], rest[i][3]>>
    BY <1>10, <2>1, <2>2, <2>4
  <2>5. InTurn(rest, new)
    BY <1>8, <2>2, <2>3, <2>4 DEF InTurn
  <2> QED BY <2>1, <2>5
<1> QED BY <1>3, <1>11 DEF new

LEMMA NothingToInsert ==
    ASSUME NEW todo, NEW got, \A i \in DOMAIN todo : todo[i][1] \notin {"last", "insert"}
    PROVE  InTurn(todo, got)
BY DEF InTurn

LEMMA Thirds ==
    ASSUME NEW k \in Nat
    PROVE  /\ k \div 3 \in Nat /\ k % 3 \in 0..2 /\ k = 3 * (k \div 3) + (k % 3)
           /\ k % 3 # 0 => (k - 1) \div 3 = k \div 3 /\ (k - 1) % 3 = (k % 3) - 1
OBVIOUS

\* The loop of write_snapshots asks in turn.
LEMMA SnapshotsInTurn ==
    ASSUME NEW pairs, Len(pairs) \in Nat, NEW got
    PROVE  InTurn(AllSnapshots(pairs), got)
<1> DEFINE all == AllSnapshots(pairs)
           n == 3 * Len(pairs)
<1>1. n \in Nat /\ all = [i \in 1..n |-> SnapshotQueries(pairs[1 + ((i - 1) \div 3)])[1 + ((i - 1) % 3)]]
  BY DEF AllSnapshots
<1>2. ASSUME NEW pair
      PROVE  /\ SnapshotQueries(pair)[1] = <<"balance", pair[1], pair[2]>>
             /\ SnapshotQueries(pair)[2] = <<"last", pair[1], pair[2]>>
             /\ SnapshotQueries(pair)[3] = <<"insert", pair[1], pair[2]>>
  BY DEF SnapshotQueries
<1> HIDE DEF all, n
<1>3. ASSUME NEW i \in 1..n
      PROVE  \E pair :
                \/ all[i] = <<"balance", pair[1], pair[2]>>
                \/ /\ i - 1 \in 1..n /\ i # 1
                   /\ all[i] = <<"last", pair[1], pair[2]>>
                   /\ all[i - 1] = <<"balance", pair[1], pair[2]>>
                \/ /\ i - 1 \in 1..n /\ i # 1
                   /\ all[i] = <<"insert", pair[1], pair[2]>>
                   /\ all[i - 1] = <<"last", pair[1], pair[2]>>
  <2>1. PICK d, m : d = (i - 1) \div 3 /\ m = (i - 1) % 3
    OBVIOUS
  <2>2. /\ m \in 0..2 /\ i - 1 = 3 * d + m /\ d \in Nat
        /\ m # 0 => ((i - 1) - 1) \div 3 = d /\ ((i - 1) - 1) % 3 = m - 1
    <3>1. PICK k \in Nat : k = i - 1
      BY <1>1
    <3> QED BY <2>1, <3>1, Thirds
  <2>3. PICK pair : pair = pairs[1 + d]
    OBVIOUS
  <2>4. all[i] = SnapshotQueries(pair)[1 + m]
    BY <1>1, <2>1, <2>3
  <2>5. CASE m = 0
    BY <1>2, <2>4, <2>5
  <2>6. CASE m # 0
    <3>1. i - 1 \in 1..n /\ i # 1 /\ ((i - 1) - 1) \div 3 = d /\ ((i - 1) - 1) % 3 = m - 1
      BY <1>1, <2>2, <2>6
    <3>2. all[i - 1] = SnapshotQueries(pair)[1 + (m - 1)]
      BY <1>1, <2>3, <3>1
    <3>3. CASE m = 1
      BY <1>2, <2>4, <3>1, <3>2, <3>3
    <3>4. CASE m = 2
      BY <1>2, <2>4, <3>1, <3>2, <3>4
    <3>5. m = 1 \/ m = 2
      BY <2>2, <2>6
    <3> QED BY <3>3, <3>4, <3>5, Zenon
  <2> QED BY <2>5, <2>6
<1>4. DOMAIN all = 1..n
  BY <1>1
<1>5. InTurn(all, got)
  <2> SUFFICES ASSUME NEW i \in 1..n
               PROVE  /\ all[i][1] = "last" => i # 1 /\ all[i - 1] = <<"balance", all[i][2], all[i][3]>>
                      /\ all[i][1] = "insert" => i # 1 /\ all[i - 1] = <<"last", all[i][2], all[i][3]>>
    BY <1>4 DEF InTurn
  <2> QED BY <1>3
<1> QED BY <1>5 DEF all

LEMMA AskInTurn ==
    ASSUME StoreSound, CallsListed, NEW c \in Callers, InTurn(call[c].todo, call[c].got),
           NEW is \in Results(Head(call[c].todo)),
           Learns(c, TRUE, is, Following(call[c].op, Head(call[c].todo), is, Tail(call[c].todo)))
    PROVE  InTurn(call'[c].todo, call'[c].got)
<1>1. PICK op, q, todo : op = call[c].op /\ q = Head(call[c].todo) /\ todo = Tail(call[c].todo)
  OBVIOUS
<1>2. PICK rest : rest = Following(op, q, is, todo)
  OBVIOUS
<1>3. call'[c].todo = rest /\ is \in Results(q)
  BY <1>1, <1>2 DEF Learns
<1>4. CASE rest = todo
  BY <1>1, <1>2, <1>4, TurnGoesOn
<1>5. CASE \A i \in DOMAIN rest : rest[i][1] \notin {"last", "insert"}
  BY <1>3, <1>5, NothingToInsert
<1>6. CASE q[1] = "pairs"
  <2>1. Len(is) \in Nat /\ rest = AllSnapshots(is)
    BY <1>2, <1>3, <1>6, FollowingIs, ResultListed
  <2> QED BY <1>3, <2>1, SnapshotsInTurn
<1>7. CASE q[1] = "latest" \/ q[1] = "sequence"
  <2>1. \E x : rest = <<x>> /\ x[1] \in {"balance", "sequence", "delta"}
    <3>1. CASE q[1] = "latest" /\ is = NoKey
      BY <1>2, <3>1, FollowingIs
    <3>2. CASE q[1] = "latest" /\ is # NoKey
      BY <1>2, <3>2, FollowingIs
    <3>3. CASE q[1] = "sequence"
      BY <1>2, <3>3, FollowingIs
    <3> QED BY <1>7, <3>1, <3>2, <3>3
  <2> QED BY <1>5, <2>1
<1>8. CASE q[1] = "custodial" \/ (q[1] = "postings" /\ op = "list_postings")
  BY <1>2, <1>5, <1>8, FollowingIs
<1>9. CASE q[1] = "exists" \/ (q[1] = "postings" /\ op # "list_postings")
  <2>1. rest = <<>> \/ rest = todo
    BY <1>2, <1>9, FollowingIs
  <2> QED BY <1>4, <1>5, <2>1
<1>10. CASE q[1] \notin {"pairs", "exists", "latest", "sequence", "custodial", "postings"}
  BY <1>2, <1>4, <1>10, FollowingIs
<1> QED BY <1>6, <1>7, <1>8, <1>9, <1>10

LEMMA FailureInTurn ==
    ASSUME CallsListed, NEW c \in Callers, InTurn(call[c].todo, call[c].got), NEW is,
           Learns(c, FALSE, is, FollowingError(Head(call[c].todo), Tail(call[c].todo)))
    PROVE  InTurn(call'[c].todo, call'[c].got)
<1>1. PICK q, todo : q = Head(call[c].todo) /\ todo = Tail(call[c].todo)
  OBVIOUS
<1>2. PICK rest : rest = FollowingError(q, todo)
  OBVIOUS
<1>3. call'[c].todo = rest
  BY <1>1, <1>2 DEF Learns
<1>4. CASE rest = todo
  BY <1>1, <1>2, <1>4, TurnGoesOn
<1>5. CASE \A i \in DOMAIN rest : rest[i][1] \notin {"last", "insert"}
  BY <1>3, <1>5, NothingToInsert
<1>6. rest = todo \/ rest = <<>> \/ rest = << <<"balance", q[2], q[3]>> >>
  BY <1>2, FollowingErrorIs
<1> QED BY <1>4, <1>5, <1>6

LEMMA PageQueriesAre ==
    \A a, k : \E any :
        PageQueries(a, k) = << <<"exists", a>>, <<"page", a, k>>, <<"balance", a, any>> >>
BY Zenon DEF PageQueries

LEMMA FirstIsNoInsert ==
    ASSUME NEW op, NEW todo, FirstQueries(op, todo)
    PROVE  \A i \in DOMAIN todo : todo[i][1] \notin {"last", "insert"}
<1>1. CASE op = "write_snapshots" /\ todo = << <<"pairs">> >>
  BY <1>1
<1>2. ASSUME NEW pair, todo = ViaQueries(pair)
      PROVE  \A i \in DOMAIN todo : todo[i][1] \notin {"last", "insert"}
  BY <1>2 DEF ViaQueries
<1>3. ASSUME NEW pair, todo = << <<"custodial", pair[2]>> >>
      PROVE  \A i \in DOMAIN todo : todo[i][1] \notin {"last", "insert"}
  BY <1>3
<1>4. ASSUME NEW id, todo = PostingQueries(id)
      PROVE  \A i \in DOMAIN todo : todo[i][1] \notin {"last", "insert"}
  BY <1>4 DEF PostingQueries
<1>5. CASE todo = << <<"postings", Ids>> >>
  BY <1>5
<1>6. ASSUME NEW a, NEW k, todo = PageQueries(a, k)
      PROVE  \A i \in DOMAIN todo : todo[i][1] \notin {"last", "insert"}
  <2>1. PICK any : todo = << <<"exists", a>>, <<"page", a, k>>, <<"balance", a, any>> >>
    BY <1>6, PageQueriesAre
  <2> QED BY <2>1
<1> QED BY <1>1, <1>2, <1>3, <1>4, <1>5, <1>6 DEF FirstQueries

\* After the insert the next account's balance comes first.
LEMMA InsertInTurn ==
    ASSUME NEW todo, IsList(todo), todo # <<>>, Head(todo)[1] = "insert", NEW got,
           InTurn(todo, got)
    PROVE  InTurn(Tail(todo), <<>>)
<1>1. /\ Len(todo) \in Nat \ {0} /\ DOMAIN todo = 1..Len(todo) /\ Head(todo) = todo[1]
      /\ DOMAIN Tail(todo) = 1..(Len(todo) - 1)
      /\ \A i \in 1..(Len(todo) - 1) : Tail(todo)[i] = todo[i + 1]
  BY TailOfList
<1>2. PICK n, rest : n = Len(todo) - 1 /\ rest = Tail(todo)
  OBVIOUS
<1>3. /\ n \in Nat /\ DOMAIN todo = 1..(n + 1) /\ todo[1][1] = "insert"
      /\ DOMAIN rest = 1..n
      /\ \A i \in 1..n : rest[i] = todo[i + 1] /\ i + 1 \in DOMAIN todo /\ i + 1 # 1 /\ (i + 1) - 1 = i
  BY <1>1, <1>2
<1>4. ASSUME NEW i \in 1..n
      PROVE  /\ rest[i][1] = "last" =>
                  i # 1 /\ rest[i - 1] = <<"balance", rest[i][2], rest[i][3]>>
             /\ rest[i][1] = "insert" =>
                  i # 1 /\ rest[i - 1] = <<"last", rest[i][2], rest[i][3]>>
  <2>1. /\ rest[i][1] = "last" => todo[i] = <<"balance", rest[i][2], rest[i][3]>>
        /\ rest[i][1] = "insert" => todo[i] = <<"last", rest[i][2], rest[i][3]>>
    <3>1. PICK k : k = i + 1
      OBVIOUS
    <3>2. k \in DOMAIN todo /\ k # 1 /\ k - 1 = i /\ rest[i] = todo[k]
      BY <1>3, <3>1
    <3> QED BY <3>2 DEF InTurn
  <2>2. CASE i = 1
    BY <1>3, <2>1, <2>2
  <2>3. CASE i # 1
    <3>1. i - 1 \in 1..n /\ (i - 1) + 1 = i
      BY <1>3, <2>3
    <3>2. rest[i - 1] = todo[i]
      BY <1>3, <3>1
    <3> QED BY <2>1, <2>3, <3>2
  <2> QED BY <2>2, <2>3
<1>5. InTurn(rest, <<>>)
  BY <1>3, <1>4 DEF InTurn
<1> QED BY <1>2, <1>5

\* Which item is the last of its kind.
LEMMA LastOfKind ==
    ASSUME NEW c, NEW kind, NEW n \in Int, n \in Got(c, kind), \A i \in Got(c, kind) : i \in Int /\ i <= n
    PROVE  LastGot(c, kind) = call[c].got[n]
<1>1. Max(Got(c, kind)) = n
  <2>1. PICK S : S = Got(c, kind)
    OBVIOUS
  <2>2. n \in S /\ \A y \in S : y \in Int /\ n >= y
    BY <2>1
  <2>3. PICK m : m = Max(S)
    OBVIOUS
  <2>4. m \in S /\ \A y \in S : m >= y
    BY <2>2, <2>3 DEF Max
  <2>5. m \in Int /\ m >= n /\ n >= m
    BY <2>2, <2>4
  <2>6. m = n
    BY <2>5
  <2> QED BY <2>1, <2>3, <2>6
<1> QED BY <1>1 DEF LastGot

\* What InsertSnapshot makes its row of.
LEMMA RowInserted ==
    ASSUME StoreSound, ReadsTypes, NEW c \in Callers, call[c].todo # <<>>,
           NEW q, q = Head(call[c].todo), q[1] = "insert"
    PROVE  /\ LastGot(c, "balance").is \in Int
           /\ LastGot(c, "last").is \in LastIds(q[2], q[3])
           /\ \E n \in DOMAIN call[c].got :
                 /\ call[c].got[n].q = <<"last", q[2], q[3]>>
                 /\ LastGot(c, "last") = call[c].got[n]
                 /\ LastGot(c, "balance") = call[c].got[n - 1]
<1>1. PICK got, n : got = call[c].got /\ n = Len(got)
  OBVIOUS
<1>2. IsList(got) /\ n \in Nat /\ DOMAIN got = 1..n
  BY <1>1 DEF ReadsTypes, CallsListed, IsList
<1>3. 1 \in DOMAIN call[c].todo /\ call[c].todo[1] = q
  BY TailOfList DEF ReadsTypes, CallsListed
<1>4. /\ n >= 2 /\ got[n].q = <<"last", q[2], q[3]>>
      /\ got[n - 1].q = <<"balance", q[2], q[3]>>
  <2>1. InTurn(call[c].todo, got)
    BY <1>1 DEF ReadsTypes
  <2> QED BY <1>1, <1>3, <2>1 DEF InTurn
<1>5. n \in DOMAIN got /\ n - 1 \in DOMAIN got
  BY <1>2, <1>4
<1>6. LastGot(c, "last") = got[n]
  <2>1. n \in Got(c, "last")
    BY <1>1, <1>4, <1>5 DEF Got
  <2>2. \A i \in Got(c, "last") : i \in Int /\ i <= n
    BY <1>1, <1>2 DEF Got
  <2> QED BY <1>1, <1>2, <2>1, <2>2, LastOfKind
<1>7. LastGot(c, "balance") = got[n - 1]
  <2>1. n - 1 \in Got(c, "balance")
    BY <1>1, <1>4, <1>5 DEF Got
  <2>2. n \notin Got(c, "balance")
    BY <1>1, <1>4 DEF Got
  <2>3. \A i \in Got(c, "balance") : i \in 1..n
    BY <1>1, <1>2 DEF Got
  <2>4. \A i \in Got(c, "balance") : i \in Int /\ i <= n - 1
    BY <1>2, <2>2, <2>3
  <2>5. n - 1 \in Int
    BY <1>2
  <2> QED BY <1>1, <2>1, <2>4, <2>5, LastOfKind
<1>8. ItemTyped(got[n]) /\ ItemTyped(got[n - 1])
  BY <1>1, <1>5 DEF ReadsTypes, ItemsTyped
<1>9. LastGot(c, "balance").is \in Int /\ LastGot(c, "last").is \in LastIds(q[2], q[3])
  BY <1>4, <1>6, <1>7, <1>8 DEF ItemTyped
<1> QED BY <1>1, <1>4, <1>5, <1>6, <1>7, <1>9

\* The page a client takes was seen in the database.
LEMMA PageTaken ==
    ASSUME ReadsTypes, NEW c \in Callers, Answer(c)
    PROVE  /\ DOMAIN walk' = DOMAIN walk /\ walk'.account = walk.account
           /\ \/ UNCHANGED walk
              \/ \E i \in DOMAIN call[c].got :
                    LET rows == call[c].got[i].is
                    IN  /\ call[c].got[i].q[1] = "page" /\ call[c].got[i].ok
                        /\ walk'.seen = walk.seen \cup ToSet(SubSeq(rows, 1, Min({Limit, Len(rows)})))
                        /\ walk'.cursor = IF Len(rows) > Limit THEN CursorOf(rows) ELSE walk.cursor
                        /\ walk'.done = (Len(rows) <= Limit)
<1>1. DOMAIN walk = {"account", "cursor", "seen", "done"}
  BY DEF ReadsTypes, WalkTyped
<1>2. CASE Got(c, "page") # {} /\ LastGot(c, "page").ok
  <2>1. PICK i : i = Max(Got(c, "page"))
    OBVIOUS
  <2>2. i \in Got(c, "page")
    <3>1. PICK S, n : S = Got(c, "page") /\ n = Len(call[c].got)
      OBVIOUS
    <3>2. n \in Nat /\ S \in SUBSET (1..n) /\ S # {}
      BY <1>2, <3>1 DEF ReadsTypes, CallsListed, IsList, Got
    <3>3. IsFiniteSet(S) /\ \A x \in S : x \in Int
      <4>1. IsFiniteSet(1..n)
        BY <3>2, FS_Interval
      <4>2. IsFiniteSet(S)
        BY <3>2, <4>1, FS_Subset
      <4> QED BY <3>2, <4>2
    <3>4. Max(S) \in S
      BY <3>2, <3>3, MaxOfSet
    <3> QED BY <2>1, <3>1, <3>4
  <2>3. i \in DOMAIN call[c].got /\ call[c].got[i].q[1] = "page" /\ LastGot(c, "page") = call[c].got[i]
    BY <2>1, <2>2 DEF Got, LastGot
  <2>4. PICK rows : rows = call[c].got[i].is
    OBVIOUS
  <2>5. walk' = [walk EXCEPT
                    !.seen = @ \cup ToSet(SubSeq(rows, 1, Min({Limit, Len(rows)}))),
                    !.cursor = IF Len(rows) > Limit THEN CursorOf(rows) ELSE @,
                    !.done = Len(rows) <= Limit]
    BY <1>2, <2>3, <2>4 DEF Answer
  <2> QED BY <1>1, <1>2, <2>3, <2>4, <2>5
<1>3. CASE ~(Got(c, "page") # {} /\ LastGot(c, "page").ok)
  BY <1>3 DEF Answer
<1> QED BY <1>2, <1>3

LEMMA WalkStaysTyped ==
    ASSUME StoreSound, ReadsTypes, [ReadsNext]_<<store, reading>>, entries \subseteq entries'
    PROVE  WalkTyped'
<1>1. WalkTyped /\ CallsListed
  BY DEF ReadsTypes
<1>2. CASE UNCHANGED walk
  BY <1>1, <1>2 DEF WalkTyped
<1>3. ASSUME NEW c \in Callers, Begins(c) PROVE WalkTyped'
  BY <1>1, <1>3, BeginsStarts DEF WalkTyped
<1>4. ASSUME NEW c \in Callers, Answer(c), NEW i \in DOMAIN call[c].got,
             call[c].got[i].q[1] = "page" /\ call[c].got[i].ok,
             NEW rows, rows = call[c].got[i].is,
             walk'.seen = walk.seen \cup ToSet(SubSeq(rows, 1, Min({Limit, Len(rows)}))),
             walk'.cursor = IF Len(rows) > Limit THEN CursorOf(rows) ELSE walk.cursor,
             DOMAIN walk' = DOMAIN walk
      PROVE  DOMAIN walk' = {"account", "cursor", "seen", "done"} /\ walk'.cursor \in Nat /\ walk'.seen \subseteq entries
  <2>1. InSequence(rows)
    BY <1>4 DEF ReadsTypes, ItemsTyped, ItemTyped
  <2>2. PICK m : m = Min({Limit, Len(rows)})
    OBVIOUS
  <2>3. Limit \in Nat \ {0} /\ rows \in Seq(EntryRecords) /\ Len(rows) \in Nat
    BY <2>1, LimitAssumption DEF InSequence
  <2>4. m \in 0..Len(rows) /\ DOMAIN rows = 1..Len(rows)
    <3>1. m \in {Limit, Len(rows)} /\ \A y \in {Limit, Len(rows)} : m <= y
      <4>1. \E x \in {Limit, Len(rows)} : \A y \in {Limit, Len(rows)} : x <= y
        BY <2>3
      <4> QED BY <2>2, <4>1 DEF Min
    <3> QED BY <2>3, <3>1
  <2>5. /\ SubSeq(rows, 1, m) \in Seq(EntryRecords) /\ Len(SubSeq(rows, 1, m)) = m
        /\ \A k \in 1..m : SubSeq(rows, 1, m)[k] = rows[k] /\ k \in DOMAIN rows
    BY <2>3, <2>4
  <2>6. ToSet(SubSeq(rows, 1, m)) \subseteq ToSet(rows)
    BY <2>4, <2>5 DEF ToSet
  <2>7. ToSet(rows) \subseteq entries
    BY <2>1 DEF InSequence
  <2>8. ASSUME Len(rows) > Limit PROVE CursorOf(rows) \in Nat
    <3>1. rows[Limit] \in EntryRecords
      BY <2>3, <2>8
    <3> QED BY <3>1 DEF CursorOf, EntryRecords
  <2>9. walk'.cursor \in Nat
    BY <1>1, <1>4, <2>8 DEF WalkTyped
  <2> QED BY <1>1, <1>4, <2>2, <2>6, <2>7, <2>9 DEF WalkTyped
<1>5. ASSUME NEW c \in Callers, Answer(c) PROVE WalkTyped'
  <2>1. CASE UNCHANGED walk
    BY <1>2, <2>1
  <2>2. ASSUME NEW i \in DOMAIN call[c].got,
               call[c].got[i].q[1] = "page" /\ call[c].got[i].ok,
               NEW rows, rows = call[c].got[i].is,
               walk'.seen = walk.seen \cup ToSet(SubSeq(rows, 1, Min({Limit, Len(rows)}))),
               walk'.cursor = IF Len(rows) > Limit THEN CursorOf(rows) ELSE walk.cursor
        PROVE  WalkTyped'
    <3>1. DOMAIN walk' = DOMAIN walk /\ walk'.account = walk.account
      BY <1>5, PageTaken
    <3>2. /\ DOMAIN walk' = {"account", "cursor", "seen", "done"}
          /\ walk'.cursor \in Nat /\ walk'.seen \subseteq entries
      BY <1>4, <1>5, <2>2, <3>1
    <3> QED BY <3>2 DEF WalkTyped
  <2> QED BY <1>5, <2>1, <2>2, PageTaken
<1>6. ASSUME NEW c \in Callers, Ask(c) \/ AskFails(c) \/ InsertSnapshot(c) PROVE UNCHANGED walk
  BY <1>6 DEF Ask, AskFails, InsertSnapshot
<1> QED BY <1>2, <1>3, <1>5, <1>6, StepOfReads DEF reading

LEMMA ReadsTypesStep ==
    ASSUME StoreSound, ReadsTypes, [ReadsNext]_<<store, reading>>
    PROVE  ReadsTypes'
<1>1. CallsListed /\ WalkTyped /\ ItemsTyped /\ IsFiniteSet(entries) /\ DbInv
  BY DEF ReadsTypes, StoreSound
<1>2. CallsListed'
  BY <1>1, CallsStayListed
<1>3. CASE [Next]_vars /\ UNCHANGED reading
  <2>1. entries \subseteq entries'
    BY <1>1, <1>3, NextSound DEF Sound, Kept
  <2>2. /\ \A x : ItemTyped(x) => ItemTyped(x)'
        /\ \A a, s : LastIds(a, s) \subseteq LastIds(a, s)'
    BY <2>1, StaysTyped
  <2>3. call' = call /\ now' = now /\ balance_snapshots' = balance_snapshots
    BY <1>3 DEF reading
  <2>4. ItemsTyped'
    BY <1>1, <2>2, <2>3 DEF ItemsTyped
  <2>5. WalkTyped'
    BY <2>1, WalkStaysTyped
  <2>6. ASSUME NEW key \in DOMAIN balance_snapshots PROVE SnapshotTyped(key)'
    BY <2>2, <2>3, <2>6 DEF ReadsTypes, SnapshotTyped
  <2> QED BY <1>2, <2>3, <2>4, <2>5, <2>6 DEF ReadsTypes
<1>4. ASSUME UNCHANGED vars
      PROVE  /\ \A x : ItemTyped(x) => ItemTyped(x)'
             /\ \A a, s : LastIds(a, s)' = LastIds(a, s)
             /\ WalkTyped'
  <2>1. entries' = entries
    BY <1>4 DEF vars, db
  <2>2. WalkTyped'
    BY <2>1, WalkStaysTyped
  <2>3. \A a, s : LastIds(a, s)' = LastIds(a, s)
    BY <2>1 DEF LastIds, AccountRows
  <2> QED BY <2>1, <2>2, <2>3, StaysTyped
<1>5. ASSUME NEW c \in Callers, Alone(c), UNCHANGED vars,
             \A i \in DOMAIN call'[c].got : ItemTyped(call'[c].got[i])
      PROVE  ItemsTyped'
  <2>1. ASSUME NEW d \in Callers, NEW i \in DOMAIN call'[d].got PROVE ItemTyped(call[d].got[i])'
    <3>1. PICK x : x = call'[d].got[i]
      OBVIOUS
    <3>2. ItemTyped(x)
      BY <1>1, <1>5, <2>1, <3>1 DEF Alone, ItemsTyped
    <3>3. ItemTyped(x)'
      BY <1>4, <1>5, <3>2
    <3> QED BY <3>1, <3>3
  <2> QED BY <2>1 DEF ItemsTyped
<1>6. ASSUME NEW c \in Callers, Alone(c), InTurn(call'[c].todo, call'[c].got)
      PROVE  \A d \in Callers : InTurn(call'[d].todo, call'[d].got)
  BY <1>6 DEF Alone, ReadsTypes
<1>7. ASSUME UNCHANGED balance_snapshots, UNCHANGED vars
      PROVE  \A key \in DOMAIN balance_snapshots' : SnapshotTyped(key)'
  BY <1>4, <1>7 DEF ReadsTypes, SnapshotTyped
<1>8. ASSUME NEW c \in Callers, Alone(c), UNCHANGED <<vars, past, balance_snapshots, now>>,
             \A i \in DOMAIN call'[c].got : ItemTyped(call'[c].got[i]),
             InTurn(call'[c].todo, call'[c].got)
      PROVE  ReadsTypes'
  <2>1. ItemsTyped' /\ WalkTyped'
    BY <1>4, <1>5, <1>8
  <2>2. \A d \in Callers : InTurn(call'[d].todo, call'[d].got)
    BY <1>6, <1>8
  <2>3. \A key \in DOMAIN balance_snapshots' : SnapshotTyped(key)'
    BY <1>7, <1>8
  <2>4. now' \in 0..MaxNow
    BY <1>8 DEF ReadsTypes
  <2> QED BY <1>2, <2>1, <2>2, <2>3, <2>4 DEF ReadsTypes
<1>9. ASSUME NEW c \in Callers, Begins(c) PROVE ReadsTypes'
  <2>1. PICK op, todo : FirstQueries(op, todo) /\ Starts(c, op, todo)
    BY <1>1, <1>9, BeginsStarts
  <2>2. UNCHANGED <<vars, past, balance_snapshots, now>>
    BY <1>1, <1>9, BeginsStarts
  <2>3. \A i \in DOMAIN todo : todo[i][1] \notin {"last", "insert"}
    BY <2>1, FirstIsNoInsert
  <2> QED BY <1>8, <2>1, <2>2, <2>3, NothingToInsert DEF Starts
<1>10. ASSUME NEW c \in Callers, NEW ok, NEW is, NEW rest, Learns(c, ok, is, rest),
              UNCHANGED <<vars, past, balance_snapshots, now>>,
              NEW x, x = [q |-> Head(call[c].todo), ok |-> ok, is |-> is], ItemTyped(x),
              InTurn(call'[c].todo, call'[c].got)
       PROVE  ReadsTypes'
  <2>1. PICK n : n = Len(call[c].got)
    OBVIOUS
  <2>2. /\ n \in Nat /\ DOMAIN call[c].got = 1..n /\ DOMAIN call'[c].got = 1..(n + 1)
        /\ \A i \in 1..n : call'[c].got[i] = call[c].got[i]
        /\ call'[c].got[n + 1] = [q |-> Head(call[c].todo), ok |-> ok, is |-> is]
        /\ \A i \in 1..(n + 1) : i \in 1..n \/ i = n + 1
    BY ONLY <1>1, <1>10, <2>1, c \in Callers, ItemLearnt
  <2>3. \A i \in 1..n : ItemTyped(call[c].got[i])
    BY <1>1, <2>2 DEF ItemsTyped
  <2>4. \A i \in DOMAIN call'[c].got : ItemTyped(call'[c].got[i])
    BY <1>10, <2>2, <2>3
  <2>5. Alone(c)
    BY <1>10 DEF Learns
  <2> QED BY <1>8, <1>10, <2>4, <2>5
<1>11. ASSUME NEW c \in Callers, Ask(c) PROVE ReadsTypes'
  <2>1. PICK is \in Results(Head(call[c].todo)) :
            Learns(c, TRUE, is, Following(call[c].op, Head(call[c].todo), is, Tail(call[c].todo)))
    BY <1>1, <1>11, AskLearns
  <2>2. UNCHANGED <<vars, past, balance_snapshots, now>>
    BY <1>1, <1>11, AskLearns
  <2>3. PICK x : x = [q |-> Head(call[c].todo), ok |-> TRUE, is |-> is]
    OBVIOUS
  <2>4. ItemTyped(x)
    BY <2>1, <2>3, ResultTyped
  <2>5. InTurn(call[c].todo, call[c].got)
    BY DEF ReadsTypes
  <2>6. InTurn(call'[c].todo, call'[c].got)
    BY <1>1, <2>1, <2>5, AskInTurn
  <2>7. PICK rest : rest = Following(call[c].op, Head(call[c].todo), is, Tail(call[c].todo))
    OBVIOUS
  <2>8. Learns(c, TRUE, is, rest)
    BY <2>1, <2>7
  <2> QED BY <1>10, <2>2, <2>3, <2>4, <2>6, <2>8
<1>12. ASSUME NEW c \in Callers, AskFails(c) PROVE ReadsTypes'
  <2>1. PICK is, rest : /\ is = Default(Head(call[c].todo)[1])
                        /\ rest = FollowingError(Head(call[c].todo), Tail(call[c].todo))
    OBVIOUS
  <2>2. Learns(c, FALSE, is, rest) /\ UNCHANGED <<vars, past, balance_snapshots, now>>
    BY <1>1, <1>12, <2>1, FailureLearns
  <2>3. PICK x : x = [q |-> Head(call[c].todo), ok |-> FALSE, is |-> is]
    OBVIOUS
  <2>4. ItemTyped(x)
    BY <2>1, <2>3 DEF ItemTyped, Default, LastIds
  <2>5. InTurn(call[c].todo, call[c].got)
    BY DEF ReadsTypes
  <2>6. InTurn(call'[c].todo, call'[c].got)
    BY <1>1, <2>1, <2>2, <2>5, FailureInTurn
  <2> QED BY <1>10, <2>2, <2>3, <2>4, <2>6
<1>13. ASSUME NEW c \in Callers, Answer(c) PROVE ReadsTypes'
  <2>1. Alone(c) /\ call'[c].todo = <<>> /\ call'[c].got = <<>> /\ UNCHANGED <<vars, past, balance_snapshots, now>>
    BY <1>1, <1>13, AnswerEnds
  <2>2. DOMAIN call'[c].got = {} /\ InTurn(call'[c].todo, call'[c].got)
    BY <2>1 DEF InTurn
  <2> QED BY <1>8, <2>1, <2>2
<1>14. ASSUME NEW c \in Callers, InsertSnapshot(c) PROVE ReadsTypes'
  <2>1. PICK q : q = Head(call[c].todo)
    OBVIOUS
  <2>2. Inserts(c) /\ q[1] = "insert" /\ UNCHANGED vars /\ call[c].todo # <<>>
    BY <1>1, <1>14, <2>1, InsertInserts DEF Inserts
  <2>3. PICK row, key :
            /\ row = [balance |-> LastGot(c, "balance").is, last_entry_id |-> LastGot(c, "last").is]
            /\ key = <<q[2], q[3], now'>>
    OBVIOUS
  <2>4. row.balance \in Int /\ row.last_entry_id \in LastIds(q[2], q[3])
    BY <2>1, <2>2, <2>3, RowInserted
  <2>5. now' \in 0..MaxNow
    BY <1>14 DEF InsertSnapshot, ReadsTypes
  <2>6. balance_snapshots' = IF key \in DOMAIN balance_snapshots THEN balance_snapshots
                             ELSE Insert(balance_snapshots, key, row)
    BY <1>14, <2>1, <2>3 DEF InsertSnapshot
  <2>7. /\ \A k \in DOMAIN balance_snapshots :
              k \in DOMAIN balance_snapshots' /\ balance_snapshots'[k] = balance_snapshots[k]
        /\ \A k \in DOMAIN balance_snapshots' :
              k \in DOMAIN balance_snapshots \/ (k = key /\ balance_snapshots'[k] = row)
    BY <2>6 DEF Insert
  <2>8. \A a, s : LastIds(a, s)' = LastIds(a, s)
    BY <1>4, <2>2
  <2>9. ASSUME NEW k \in DOMAIN balance_snapshots' PROVE SnapshotTyped(k)'
    <3>1. CASE k \in DOMAIN balance_snapshots
      BY <2>7, <2>8, <3>1 DEF ReadsTypes, SnapshotTyped
    <3>2. CASE k = key /\ balance_snapshots'[k] = row
      <4>1. k[1] = q[2] /\ k[2] = q[3] /\ k[3] = now'
        BY <2>3, <3>2
      <4> QED BY <2>4, <2>5, <2>8, <3>2, <4>1 DEF SnapshotTyped
    <3> QED BY <2>7, <3>1, <3>2
  <2>10. Alone(c) /\ call'[c].got = <<>> /\ call'[c].todo = Tail(call[c].todo)
    BY <2>2 DEF Inserts
  <2>11. ItemsTyped' /\ WalkTyped'
    <3>1. DOMAIN call'[c].got = {}
      BY <2>10
    <3> QED BY <1>4, <1>5, <2>2, <2>10, <3>1
  <2>12. InTurn(call'[c].todo, call'[c].got)
    <3>1. PICK todo, got : todo = call[c].todo /\ got = call[c].got
      OBVIOUS
    <3>2. InTurn(todo, got) /\ IsList(todo) /\ todo # <<>> /\ Head(todo)[1] = "insert"
      BY <1>1, <2>1, <2>2, <3>1 DEF ReadsTypes, CallsListed
    <3>3. InTurn(Tail(todo), <<>>)
      BY <3>2, InsertInTurn
    <3> QED BY <2>10, <3>1, <3>3
  <2>13. \A d \in Callers : InTurn(call'[d].todo, call'[d].got)
    BY <1>6, <2>10, <2>12
  <2> QED BY <1>2, <2>5, <2>9, <2>11, <2>13 DEF ReadsTypes
<1> QED BY <1>3, <1>9, <1>11, <1>12, <1>13, <1>14, StepOfReads

LEMMA ReadsTypesAtStart == ReadsInit => ReadsTypes
<1> SUFFICES ASSUME ReadsInit PROVE ReadsTypes
  OBVIOUS
<1>1. call = [c \in Callers |-> Idle] /\ balance_snapshots = <<>> /\ now = 0
  BY DEF ReadsInit
<1>2. ASSUME NEW c \in Callers
      PROVE  /\ DOMAIN call[c] = {"op", "at", "todo", "got", "since"}
             /\ call[c].todo = <<>> /\ call[c].got = <<>>
  BY <1>1 DEF Idle
<1>3. CallsListed /\ ItemsTyped /\ \A c \in Callers : InTurn(call[c].todo, call[c].got)
  BY <1>1, <1>2, TuplesAreLists DEF CallsListed, ItemsTyped, InTurn
<1>4. WalkTyped
  BY DEF ReadsInit, WalkTyped
<1>5. now \in 0..MaxNow /\ DOMAIN balance_snapshots = {}
  BY <1>1, LimitAssumption
<1> QED BY <1>3, <1>4, <1>5 DEF ReadsTypes

\* What is known of every state: of the store, and of the calls that read it.
LEMMA ReadsTypesHold == ReadsSpec => [](StoreSound /\ ReadsTypes)
<1>1. EverythingSound => StoreSound
  BY DEF EverythingSound, ServiceSound, CacheInv, StoreSound
<1>2. StoreSound /\ ReadsTypes /\ [ReadsNext]_<<store, reading>> => ReadsTypes'
  BY ReadsTypesStep
<1> QED BY <1>1, <1>2, ReadsRunTheStore, CacheInvHolds, ReadsTypesAtStart, PTL DEF ReadsSpec

\* Every row of balance_snapshots has a balance and names an entry of its account and
\* asset, or none; what a client of a statement has seen is committed (write_snapshots,
\* ledger_page_from_db).
THEOREM ReadsTypeCorrect == ReadsSpec => []ReadsTypeOK
<1>1. TypeOK /\ ReadsTypes => ReadsTypeOK
  BY DEF ReadsTypes, ReadsTypeOK, WalkTyped, SnapshotTyped, LastIds
<1> QED BY <1>1, ReadsRunTheStore, DbTypeCorrect, ReadsTypesHold, PTL

-----------------------------------------------------------------------------
(* Postings and their entries.                                             *)

\* A call that shows postings asks which there are, then for the entries of one after
\* the other; the entries it has got of those that are there are theirs.
View(todo, got) ==
    /\ \A i \in DOMAIN todo :
          todo[i][1] = IF i = 1 /\ got = <<>> THEN "postings" ELSE "entries"
    /\ \A i \in DOMAIN got : got[i].q[1] = IF i = 1 THEN "postings" ELSE "entries"
    /\ got # <<>> => ToSet(got[1].is) \subseteq DOMAIN postings
    /\ \A i \in DOMAIN got :
          i # 1 /\ got[i].ok /\ got[i].q[2] \in ToSet(got[1].is) =>
              got[i].is = IdsInOrder(RowsOf(got[i].q[2]))

ShowsPostings == {"get_posting", "list_postings"}

Views == \A c \in Callers : call[c].op \in ShowsPostings => View(call[c].todo, call[c].got)

\* A posting that was there stays, with its entries.
LEMMA ViewStays ==
    ASSUME Kept
    PROVE  \A todo, got : View(todo, got) => View(todo, got)'
BY DEF Kept, View

LEMMA ViewLearns ==
    ASSUME CallsListed, NEW c \in Callers, NEW ok, NEW is, NEW rest, Learns(c, ok, is, rest),
           View(call[c].todo, call[c].got), NEW q, q = Head(call[c].todo),
           rest = Tail(call[c].todo) \/ \A i \in DOMAIN rest : rest[i][1] = "entries",
           q[1] = "postings" => ToSet(is) \subseteq DOMAIN postings,
           q[1] = "entries" /\ ok => is = IdsInOrder(RowsOf(q[2]))
    PROVE  View(call'[c].todo, call'[c].got)
<1>1. PICK todo, got, new, n :
          todo = call[c].todo /\ got = call[c].got /\ new = call'[c].got /\ n = Len(got)
  OBVIOUS
<1>2. /\ n \in Nat /\ DOMAIN got = 1..n /\ DOMAIN new = 1..(n + 1) /\ Len(new) = n + 1
      /\ \A i \in 1..n : new[i] = got[i]
      /\ new[n + 1] = [q |-> q, ok |-> ok, is |-> is]
      /\ \A i \in 1..(n + 1) : i \in 1..n \/ i = n + 1
  <2>1. \A k : k = Len(call[c].got) =>
            /\ k \in Nat /\ DOMAIN call[c].got = 1..k /\ DOMAIN call'[c].got = 1..(k + 1)
            /\ Len(call'[c].got) = k + 1
            /\ \A i \in 1..k : call'[c].got[i] = call[c].got[i]
            /\ call'[c].got[k + 1] = [q |-> Head(call[c].todo), ok |-> ok, is |-> is]
            /\ \A i \in 1..(k + 1) : i \in 1..k \/ i = k + 1
    BY ItemLearnt
  <2> QED BY <1>1, <2>1
<1>3. /\ IsList(got) /\ todo # <<>> /\ IsList(todo)
      /\ View(todo, got) /\ call'[c].todo = rest /\ q = Head(todo)
      /\ rest = Tail(todo) \/ \A i \in DOMAIN rest : rest[i][1] = "entries"
  BY <1>1 DEF CallsListed, Learns
<1>4. got = <<>> <=> n = 0
  BY <1>1, <1>3 DEF IsList
<1>5. 1 \in DOMAIN todo /\ q = todo[1]
  BY <1>3, TailOfList
<1>6. new # <<>>
  BY <1>2
<1>7. ASSUME NEW i \in DOMAIN rest PROVE rest[i][1] = "entries"
  <2>1. CASE rest = Tail(todo)
    <3>1. i + 1 \in DOMAIN todo /\ i + 1 # 1 /\ rest[i] = todo[i + 1]
      BY <1>3, <2>1, TailOfList
    <3> QED BY <1>3, <3>1 DEF View
  <2> QED BY <1>3, <2>1
<1>8. CASE n = 0
  <2>1. q[1] = "postings"
    BY <1>3, <1>4, <1>5, <1>8 DEF View
  <2>2. new[1].q = q /\ new[1].is = is /\ DOMAIN new = {1}
    BY <1>2, <1>8
  <2>3. View(rest, new)
    BY <1>6, <1>7, <2>1, <2>2 DEF View
  <2> QED BY <1>1, <1>3, <2>3
<1>9. CASE n # 0
  <2>1. q[1] = "entries"
    BY <1>3, <1>4, <1>5, <1>9 DEF View
  <2>2. 1 \in 1..n /\ n + 1 # 1 /\ new[1] = got[1] /\ got # <<>>
    BY <1>2, <1>4, <1>9
  <2>3. /\ new[n + 1].q = q /\ new[n + 1].is = is /\ new[n + 1].ok = ok
    BY <1>2
  <2>4. ASSUME NEW i \in DOMAIN new
        PROVE  /\ new[i].q[1] = IF i = 1 THEN "postings" ELSE "entries"
               /\ i # 1 /\ new[i].ok /\ new[i].q[2] \in ToSet(new[1].is) =>
                     new[i].is = IdsInOrder(RowsOf(new[i].q[2]))
    <3>1. CASE i \in 1..n
      <4>1. i \in DOMAIN got /\ new[i] = got[i]
        BY <1>2, <3>1
      <4> QED BY <1>3, <2>2, <4>1 DEF View
    <3>2. CASE i = n + 1
      BY <2>1, <2>2, <2>3, <3>2
    <3> QED BY <1>2, <3>1, <3>2
  <2>5. ToSet(new[1].is) \subseteq DOMAIN postings
    BY <1>3, <2>2 DEF View
  <2>6. View(rest, new)
    BY <1>6, <1>7, <2>4, <2>5 DEF View
  <2> QED BY <1>1, <1>3, <2>6
<1> QED BY <1>2, <1>8, <1>9

LEMMA ViewsStep ==
    ASSUME StoreSound, ReadsTypes, Views, [ReadsNext]_<<store, reading>>
    PROVE  Views'
<1>1. CallsListed /\ WalkTyped /\ DbInv
  BY DEF ReadsTypes, StoreSound
<1>2. ASSUME UNCHANGED vars PROVE \A todo, got : View(todo, got)' = View(todo, got)
  BY <1>2 DEF View, RowsOf, vars, db
<1>3. ASSUME NEW c \in Callers, Alone(c), UNCHANGED vars,
             call'[c].op \in ShowsPostings => View(call'[c].todo, call'[c].got)
      PROVE  Views'
  <2>1. ASSUME NEW d \in Callers, call'[d].op \in ShowsPostings
        PROVE  View(call'[d].todo, call'[d].got)
    BY <1>3, <2>1 DEF Alone, Views
  <2>2. ASSUME NEW d \in Callers, call'[d].op \in ShowsPostings
        PROVE  View(call[d].todo, call[d].got)'
    <3>1. PICK todo, got : todo = call'[d].todo /\ got = call'[d].got
      OBVIOUS
    <3>2. View(todo, got)'
      BY <1>2, <1>3, <2>1, <2>2, <3>1
    <3> QED BY <3>1, <3>2
  <2> QED BY <2>2 DEF Views
<1>4. CASE [Next]_vars /\ UNCHANGED reading
  <2>1. Kept
    BY <1>1, <1>4, NextSound DEF Sound
  <2>2. \A todo, got : View(todo, got) => View(todo, got)'
    BY <2>1, ViewStays
  <2>3. call' = call
    BY <1>4 DEF reading
  <2> QED BY <2>2, <2>3 DEF Views
<1>5. ASSUME NEW c \in Callers, Begins(c) PROVE Views'
  <2>1. PICK op, todo : FirstQueries(op, todo) /\ Starts(c, op, todo)
    BY <1>1, <1>5, BeginsStarts
  <2>2. UNCHANGED vars
    BY <1>1, <1>5, BeginsStarts
  <2>3. ASSUME op \in ShowsPostings PROVE View(todo, <<>>)
    <3>1. CASE \E id \in Ids : todo = PostingQueries(id)
      BY <3>1 DEF PostingQueries, View
    <3>2. ASSUME NEW limit, todo = << <<"postings", Ids, limit>> >> PROVE View(todo, <<>>)
      BY <3>2 DEF View
    <3> QED BY <2>1, <2>3, <3>1, <3>2 DEF FirstQueries, ShowsPostings
  <2>4. /\ call'[c].op = op /\ call'[c].todo = todo /\ call'[c].got = <<>> /\ Alone(c)
    BY <2>1 DEF Starts
  <2> QED BY <1>3, <2>2, <2>3, <2>4
<1>6. ASSUME NEW c \in Callers, Ask(c) PROVE Views'
  <2>1. PICK q, todo, op : q = Head(call[c].todo) /\ todo = Tail(call[c].todo) /\ op = call[c].op
    OBVIOUS
  <2>2. PICK is \in Results(q) : Learns(c, TRUE, is, Following(op, q, is, todo))
    BY <1>1, <1>6, <2>1, AskLearns
  <2>3. PICK rest : rest = Following(op, q, is, todo)
    OBVIOUS
  <2>4. Learns(c, TRUE, is, rest) /\ UNCHANGED vars
    BY <1>1, <1>6, <2>2, <2>3, AskLearns
  <2>5. Alone(c) /\ call'[c].op = op /\ call[c].todo # <<>>
    BY <2>1, <2>4 DEF Learns
  <2>6. ASSUME op \in ShowsPostings PROVE View(call'[c].todo, call'[c].got)
    <3>1. View(call[c].todo, call[c].got)
      BY <2>1, <2>6 DEF Views
    <3>2. q[1] \in {"postings", "entries"}
      <4>1. 1 \in DOMAIN call[c].todo /\ q = call[c].todo[1]
        BY <1>1, <2>1, <2>5, TailOfList DEF CallsListed
      <4> QED BY <3>1, <4>1 DEF View
    <3>3. rest = todo \/ \A i \in DOMAIN rest : rest[i][1] = "entries"
      <4>1. CASE q[1] = "postings" /\ op = "list_postings"
        BY <2>3, <4>1, FollowingIs
      <4>2. CASE q[1] = "entries" \/ op = "get_posting"
        <5>1. rest = todo \/ rest = <<>>
          BY <2>3, <3>2, <4>2, FollowingIs
        <5> QED BY <5>1
      <4> QED BY <2>6, <3>2, <4>1, <4>2 DEF ShowsPostings
    <3>4. ASSUME q[1] = "postings" PROVE ToSet(is) \subseteq DOMAIN postings
      <4>0. is \in PostingsQuery(q[2], q[3])
        BY <3>4, ResultsIs
      <4>1. PICK S : S \subseteq q[2] \cap DOMAIN postings /\ is = SetToSeq(S)
        BY <4>0, PostingsAsked
      <4>2. S \in SUBSET DOMAIN postings
        BY <4>1
      <4>3. IsFiniteSet(S)
        BY <4>2, PostingsFinite, FS_Subset
      <4>4. ToSet(is) = S
        BY <4>1, <4>3, SetIsListed
      <4> QED BY <4>2, <4>4
    <3>5. ASSUME q[1] = "entries" PROVE is = IdsInOrder(RowsOf(q[2]))
      BY <3>5, ResultsIs
    <3>6. \A ok : ok = TRUE => Learns(c, ok, is, rest)
      BY <2>4
    <3>7. PICK ok : ok = TRUE
      OBVIOUS
    <3>8. Learns(c, ok, is, rest)
      BY <3>6, <3>7
    <3> QED BY <1>1, <2>1, <3>1, <3>3, <3>4, <3>5, <3>8, ViewLearns
  <2> QED BY <1>3, <2>4, <2>5, <2>6
<1>7. ASSUME NEW c \in Callers, AskFails(c) PROVE Views'
  <2>1. PICK q, todo : q = Head(call[c].todo) /\ todo = Tail(call[c].todo)
    OBVIOUS
  <2>2. PICK is, rest : is = Default(q[1]) /\ rest = FollowingError(q, todo)
    OBVIOUS
  <2>3. Learns(c, FALSE, is, rest) /\ UNCHANGED vars
    BY <1>1, <1>7, <2>1, <2>2, FailureLearns
  <2>4. Alone(c) /\ call'[c].op = call[c].op /\ call[c].todo # <<>>
    BY <2>3 DEF Learns
  <2>5. ASSUME call[c].op \in ShowsPostings PROVE View(call'[c].todo, call'[c].got)
    <3>1. View(call[c].todo, call[c].got)
      BY <2>5 DEF Views
    <3>2. q[1] \in {"postings", "entries"}
      <4>1. 1 \in DOMAIN call[c].todo /\ q = call[c].todo[1]
        BY <1>1, <2>1, <2>4, TailOfList DEF CallsListed
      <4> QED BY <3>1, <4>1 DEF View
    <3>3. rest = todo \/ rest = <<>>
      BY <2>2, <3>2, FollowingErrorIs
    <3>4. is = <<>>
      BY <2>2, <3>2 DEF Default
    <3>5. ToSet(is) \subseteq DOMAIN postings
      BY <3>4 DEF ToSet
    <3>6. rest = todo \/ \A i \in DOMAIN rest : rest[i][1] = "entries"
      BY <3>3
    <3> QED BY <1>1, <2>1, <2>3, <3>1, <3>5, <3>6, ViewLearns
  <2> QED BY <1>3, <2>3, <2>4, <2>5
<1>8. ASSUME NEW c \in Callers, InsertSnapshot(c) PROVE Views'
  <2>1. Inserts(c) /\ Head(call[c].todo)[1] = "insert" /\ UNCHANGED vars
    BY <1>1, <1>8, InsertInserts
  <2>2. Alone(c) /\ call'[c].op = call[c].op /\ call[c].todo # <<>>
    BY <2>1 DEF Inserts
  <2>3. call[c].op \notin ShowsPostings
    <3>1. 1 \in DOMAIN call[c].todo /\ call[c].todo[1][1] = "insert"
      BY <1>1, <2>1, <2>2, TailOfList DEF CallsListed
    <3> QED BY <3>1 DEF Views, View
  <2> QED BY <1>3, <2>1, <2>2, <2>3
<1>9. ASSUME NEW c \in Callers, Answer(c) PROVE Views'
  <2>1. Alone(c) /\ call'[c].op = "none" /\ UNCHANGED vars
    BY <1>1, <1>9, AnswerEnds
  <2> QED BY <1>3, <2>1 DEF ShowsPostings
<1> QED BY <1>4, <1>5, <1>6, <1>7, <1>8, <1>9, StepOfReads

\* A posting that is shown is shown whole: once it is there its entries are, all of them
\* and for ever (get_posting, list_postings; one transaction in post_via_db).
THEOREM PostingsShownWhole == ReadsSpec => []PostingViewWhole
<1>1. ReadsInit => Views
  <2> SUFFICES ASSUME ReadsInit PROVE Views
    OBVIOUS
  <2>1. \A c \in Callers : call[c].op = "none"
    BY DEF ReadsInit, Idle
  <2> QED BY <2>1 DEF Views, ShowsPostings
<1>2. StoreSound /\ ReadsTypes /\ Views /\ [ReadsNext]_<<store, reading>> => Views'
  BY ViewsStep
<1>3. StoreSound /\ ReadsTypes /\ Views => PostingViewWhole
  <2> SUFFICES ASSUME StoreSound, ReadsTypes, Views, NEW c \in Callers,
                      Answering(c, "get_posting") \/ Answering(c, "list_postings"),
                      NEW i \in Got(c, "entries"), NEW view, view = call[c].got[i],
                      view.ok, view.q[2] \in ToSet(LastGot(c, "postings").is)
               PROVE  view.is # <<>> /\ view.is = IdsInOrder(RowsOf(view.q[2]))
    BY DEF PostingViewWhole
  <2>1. PICK got, n : got = call[c].got /\ n = Len(got)
    OBVIOUS
  <2>2. View(call[c].todo, got) /\ DOMAIN got = 1..n /\ n \in Nat /\ IsList(got)
    BY <2>1 DEF Answering, Views, ShowsPostings, ReadsTypes, CallsListed, IsList
  <2>3. i \in 1..n /\ got[i].q[1] = "entries" /\ view = got[i]
    BY <2>1, <2>2 DEF Got
  <2>4. i # 1 /\ 1 \in 1..n /\ got # <<>> /\ got[1].q[1] = "postings"
    <3>1. 1 \in 1..n
      BY <2>2, <2>3
    <3>2. got # <<>>
      BY <2>2, <3>1
    <3> QED BY <2>2, <2>3, <3>1, <3>2 DEF View
  <2>5. LastGot(c, "postings") = got[1]
    <3>1. 1 \in Got(c, "postings")
      BY <2>1, <2>2, <2>4 DEF Got
    <3>2. \A k \in Got(c, "postings") : k \in Int /\ k <= 1
      BY <2>1, <2>2 DEF Got, View
    <3> QED BY <2>1, <3>1, <3>2, LastOfKind
  <2>6. view.q[2] \in DOMAIN postings /\ view.is = IdsInOrder(RowsOf(view.q[2]))
    BY <2>2, <2>3, <2>4, <2>5 DEF View
  <2> QED BY <2>6, PostingHasRows DEF StoreSound
<1> QED BY <1>1, <1>2, <1>3, ReadsTypesHold, PTL DEF ReadsSpec

-----------------------------------------------------------------------------
(* Numbers.  Writers that draw theirs from the same last number give it    *)
(* twice, but none is left out: up to the number of any row there is a row *)
(* of every number.  So a row that is new follows all the others, or has   *)
(* the number of one of them.                                              *)

LEMMA LastNumberOf ==
    ASSUME NEW S, IsFiniteSet(S), \A e \in S : e.sequence_number \in Nat
    PROVE  /\ LastNumber(S) \in Nat
           /\ \A e \in S : e.sequence_number <= LastNumber(S)
           /\ S # {} => \E e \in S : e.sequence_number = LastNumber(S)
           /\ S = {} => LastNumber(S) = 0
<1>1. CASE S = {}
  BY <1>1 DEF LastNumber
<1>2. CASE S # {}
  <2> DEFINE N == {e.sequence_number : e \in S}
             f == [e \in S |-> e.sequence_number]
  <2>1. f \in Surjection(S, N)
    BY DEF Surjection
  <2>2. IsFiniteSet(N)
    <3> HIDE DEF f, N
    <3> QED BY <2>1, FS_Surjection
  <2>3. N # {} /\ \A n \in N : n \in Nat
    BY <1>2
  <2>4. PICK m : m = Max(N)
    OBVIOUS
  <2>5. m \in N /\ \A n \in N : m >= n
    <3> HIDE DEF N
    <3> QED BY <2>2, <2>3, <2>4, MaxOfSet
  <2>6. LastNumber(S) = m
    BY <1>2, <2>4 DEF LastNumber
  <2> QED BY <1>2, <2>3, <2>5, <2>6
<1> QED BY <1>1, <1>2

LEMMA LastNumberIs ==
    ASSUME StoreSound, NEW S \in SUBSET entries
    PROVE  /\ LastNumber(S) \in Nat
           /\ \A e \in S : e.sequence_number \in Nat /\ e.sequence_number <= LastNumber(S)
           /\ S # {} => \E e \in S : e.sequence_number = LastNumber(S)
           /\ S = {} => LastNumber(S) = 0
<1>1. \A e \in S : e.sequence_number \in Nat
  BY DEF StoreSound, DbInv, DbTypes, EntryRecords
<1>2. IsFiniteSet(S)
  BY FS_Subset DEF StoreSound
<1> QED BY <1>1, <1>2, LastNumberOf

FillsUp(S) == \A e \in S : \A n \in 1..e.sequence_number : \E x \in S : x.sequence_number = n

\* The number a request goes on from is that of a row, or that of none.
Drawn(n) == n = 0 \/ \E x \in entries : x.sequence_number = n

NumberInv ==
    /\ \A r \in Requests : pc[r] = "commit" => Drawn(seq[r])
    /\ \A e \in entries : e.sequence_number >= 1
    /\ FillsUp(entries)

NewRowsFollow ==
    \A e \in entries' \ entries : e.sequence_number > LastNumber(entries) \/ SharesItsNumber(e)'

\* The rows of a posting get the numbers after the one its request has drawn
\* (next_sequence_from_db).
LEMMA PublishFollows ==
    ASSUME StoreSound, NumberInv, NEW r \in Requests, pc[r] = "commit", Publish(r)
    PROVE  /\ entries \subseteq entries' /\ NewRowsFollow
           /\ \A e \in entries' : e.sequence_number >= 1
           /\ FillsUp(entries')
<1>1. /\ PostError(Payload[r]) = "none" /\ prev[r] \in Hashes /\ seq[r] \in Nat
      /\ entries' = entries \cup ToSet(Created(r))
  BY Published DEF StoreSound
<1>2. PICK m, last, t : m = Len(Payload[r].entries) /\ last = seq[r] /\ t = Created(r)
  OBVIOUS
<1>3. /\ DOMAIN t = 1..m /\ m \in Nat /\ last \in Nat
      /\ \A k \in 1..m : t[k].sequence_number = last + k
  <2>1. /\ m \in Nat \ {0} /\ DOMAIN t = 1..m
        /\ \A k \in 1..m : IsEntry(t[k], r, Payload[r], prev[r], seq[r], k)
    BY <1>1, <1>2, Built
  <2> QED BY <1>1, <1>2, <2>1 DEF IsEntry
<1>4. \A e \in entries : e.sequence_number \in Nat /\ e.sequence_number >= 1
  BY LastNumberIs DEF NumberInv
<1>5. /\ \A e \in entries' : e \in entries \/ \E k \in 1..m : e = t[k]
      /\ \A k \in 1..m : t[k] \in entries'
  BY <1>1, <1>2, <1>3 DEF ToSet
<1>6. \A n \in 1..last : \E x \in entries : x.sequence_number = n
  <2>1. CASE last = 0
    BY <2>1
  <2>2. CASE last # 0
    BY <1>2, <2>2 DEF NumberInv, Drawn, FillsUp
  <2> QED BY <2>1, <2>2
<1>7. \A e \in entries' : e.sequence_number >= 1
  BY <1>3, <1>4, <1>5
<1>8. FillsUp(entries')
  <2> SUFFICES ASSUME NEW e \in entries', NEW n \in 1..e.sequence_number
               PROVE  \E x \in entries' : x.sequence_number = n
    BY DEF FillsUp
  <2>1. CASE e \in entries
    BY <1>1, <2>1 DEF NumberInv, FillsUp
  <2>2. ASSUME NEW k \in 1..m, e = t[k] PROVE \E x \in entries' : x.sequence_number = n
    <3>1. n \in 1..(last + k)
      BY <1>3, <2>2
    <3>2. CASE n \in 1..last
      BY <1>1, <1>6, <3>2
    <3>3. CASE n \notin 1..last
      <4>1. n - last \in 1..m /\ last + (n - last) = n
        BY <1>3, <2>2, <3>1, <3>3
      <4> QED BY <1>3, <1>5, <4>1
    <3> QED BY <3>2, <3>3
  <2> QED BY <1>5, <2>1, <2>2
<1>9. ASSUME NEW e \in entries' \ entries
      PROVE  e.sequence_number > LastNumber(entries) \/ SharesItsNumber(e)'
  <2>1. e.sequence_number \in Nat /\ e.sequence_number >= 1
    BY <1>3, <1>5
  <2>2. /\ LastNumber(entries) \in Nat
        /\ entries = {} => LastNumber(entries) = 0
        /\ entries # {} => \E x \in entries : x.sequence_number = LastNumber(entries)
    BY LastNumberIs
  <2>3. CASE entries = {}
    BY <2>1, <2>2, <2>3
  <2>4. CASE entries # {} /\ e.sequence_number <= LastNumber(entries)
    <3>1. PICK x \in entries : x.sequence_number = LastNumber(entries)
      BY <2>2, <2>4
    <3>2. e.sequence_number \in 1..x.sequence_number
      BY <2>1, <2>2, <2>4, <3>1
    <3>3. PICK y \in entries : y.sequence_number = e.sequence_number
      BY <3>2 DEF NumberInv, FillsUp
    <3> QED BY <1>1, <3>3 DEF SharesItsNumber
  <2> QED BY <2>1, <2>2, <2>3, <2>4
<1> QED BY <1>1, <1>7, <1>8, <1>9 DEF NewRowsFollow

LEMMA NumbersGoOn ==
    ASSUME StoreSound, NumberInv, [Next]_vars
    PROVE  NumberInv' /\ NewRowsFollow /\ entries \subseteq entries'
<1>1. DbInv
  BY DEF StoreSound
<1>2. /\ entries \subseteq entries' /\ NewRowsFollow
      /\ \A e \in entries' : e.sequence_number >= 1
      /\ FillsUp(entries')
  <2>1. CASE entries' = entries
    BY <2>1 DEF NumberInv, NewRowsFollow
  <2>2. ASSUME NEW r \in Requests, pc[r] = "commit", Publish(r)
        PROVE  /\ entries \subseteq entries' /\ NewRowsFollow
               /\ \A e \in entries' : e.sequence_number >= 1
               /\ FillsUp(entries')
    BY <2>2, PublishFollows
  <2> QED BY <2>1, <2>2, RowsByCommit
<1>3. ASSUME NEW q \in Requests, pc'[q] = "commit" PROVE Drawn(seq[q])'
  <2>1. CASE pc[q] = "commit" /\ seq'[q] = seq[q]
    <3>1. Drawn(seq[q])
      BY <2>1 DEF NumberInv
    <3> QED BY <1>2, <2>1, <3>1 DEF Drawn
  <2>2. CASE ReadSequence(q)
    <3>1. entries' = entries /\ seq'[q] = LastNumber(entries)
      BY <1>1, <2>2 DEF ReadSequence, db, DbInv, DbTypes
    <3>2. LastNumber(entries) = 0 \/ \E x \in entries : x.sequence_number = LastNumber(entries)
      BY LastNumberIs
    <3> QED BY <3>1, <3>2 DEF Drawn
  <2> QED BY <1>1, <1>3, <2>1, <2>2, ToTheCommit
<1>4. NumberInv'
  BY <1>2, <1>3 DEF NumberInv, FillsUp
<1> QED BY <1>2, <1>4

LEMMA NumbersAtStart == Init => NumberInv
BY DEF Init, NumberInv, FillsUp

-----------------------------------------------------------------------------
(* The pages of a statement.                                               *)

\* What follows an answer begins no page, and does not stop before it either.
LEMMA FollowingKinds ==
    ASSUME StoreSound, NEW op, NEW q, NEW is \in Results(q), NEW todo,
           NEW rest, rest = Following(op, q, is, todo)
    PROVE  \/ rest = todo
           \/ \A i \in DOMAIN rest :
                 rest[i][1] \in {"balance", "last", "insert", "sequence", "delta", "entries"}
<1>1. CASE q[1] = "pairs"
  <2>1. Len(is) \in Nat /\ rest = AllSnapshots(is)
    BY <1>1, FollowingIs, ResultListed
  <2>2. PICK n \in Nat : n = 3 * Len(is)
    BY <2>1
  <2>3. rest = [i \in 1..n |-> SnapshotQueries(is[1 + ((i - 1) \div 3)])[1 + ((i - 1) % 3)]]
    BY <2>1, <2>2 DEF AllSnapshots
  <2>4. ASSUME NEW pair, NEW m \in 0..2
        PROVE  SnapshotQueries(pair)[1 + m][1] \in {"balance", "last", "insert"}
    BY DEF SnapshotQueries
  <2>5. ASSUME NEW i \in 1..n PROVE rest[i][1] \in {"balance", "last", "insert"}
    <3>1. PICK k \in Nat : k = i - 1
      OBVIOUS
    <3>2. PICK m \in 0..2 : m = k % 3
      BY Thirds
    <3>3. PICK pair : pair = is[1 + ((i - 1) \div 3)]
      OBVIOUS
    <3>4. rest[i] = SnapshotQueries(pair)[1 + m]
      BY <2>3, <3>1, <3>2, <3>3
    <3> QED BY <2>4, <3>4
  <2> QED BY <2>3, <2>5
<1>2. CASE q[1] \in {"latest", "sequence"}
  <2>1. \E x : rest = <<x>> /\ x[1] \in {"balance", "sequence", "delta"}
    <3>1. CASE q[1] = "latest" /\ is = NoKey
      BY <3>1, FollowingIs
    <3>2. CASE q[1] = "latest" /\ is # NoKey
      BY <3>2, FollowingIs
    <3>3. CASE q[1] = "sequence"
      BY <3>3, FollowingIs
    <3> QED BY <1>2, <3>1, <3>2, <3>3
  <2> QED BY <2>1
<1>3. CASE q[1] = "custodial"
  BY <1>3, FollowingIs
<1>4. CASE q[1] = "postings" /\ op = "list_postings"
  BY <1>4, FollowingIs
<1>5. CASE q[1] = "exists" \/ (q[1] = "postings" /\ op # "list_postings")
  <2>1. rest = <<>> \/ rest = todo
    BY <1>5, FollowingIs
  <2> QED BY <2>1
<1>6. CASE q[1] \notin {"pairs", "exists", "latest", "sequence", "custodial", "postings"}
  BY <1>6, FollowingIs
<1> QED BY <1>1, <1>2, <1>3, <1>4, <1>5, <1>6

\* The rows of an account whose numbers no other row has.
LoneRows(account_id) == {e \in AllRows(account_id) : ~SharesItsNumber(e)}

\* A page still to be asked for: the client has seen such rows up to its cursor.
PageAhead(q) ==
    q[1] = "page" =>
        /\ walk.account # None /\ q[2] = walk.account
        /\ q[3] \in Nat /\ q[3] <= LastNumber(entries)
        /\ \A e \in LoneRows(walk.account) : e.sequence_number <= q[3] => e \in walk.seen

\* A page got: what the client has not seen and is not on it comes after it.
PageGot(x) ==
    x.q[1] = "page" /\ x.ok =>
        /\ walk.account # None
        /\ ToSet(x.is) \subseteq AllRows(walk.account) /\ Len(x.is) <= Limit + 1
        /\ \A e \in LoneRows(walk.account) \ (walk.seen \cup ToSet(x.is)), y \in ToSet(x.is) :
              y.sequence_number < e.sequence_number

PagesInv == \A c \in Callers : /\ \A i \in DOMAIN call[c].todo : PageAhead(call[c].todo[i])
                               /\ \A i \in DOMAIN call[c].got : PageGot(call[c].got[i])

NothingSkipped ==
    \A e \in LoneRows(walk.account) \ walk.seen :
        /\ e.sequence_number > walk.cursor
        /\ \A x \in walk.seen : x.sequence_number < e.sequence_number

WalkInv ==
    /\ walk.account = None => walk.cursor = 0 /\ walk.seen = {}
    /\ walk.cursor <= LastNumber(entries)
    /\ NothingSkipped
    /\ PagesInv

LEMMA AllRowsAre == \A a : AllRows(a) = {e \in entries : e.account_id = a}
BY PageQueryIs

LEMMA LoneRowsAre ==
    /\ \A a : LoneRows(a) \subseteq AllRows(a)
    /\ \A a : \A e \in LoneRows(a), x \in entries : x # e => x.sequence_number # e.sequence_number
BY DEF LoneRows, SharesItsNumber

\* New rows, and a client that sees more, make no page wrong.
LEMMA PagesStay ==
    ASSUME StoreSound, StoreSound', entries \subseteq entries', NewRowsFollow,
           walk.seen \subseteq walk'.seen,
           walk.account # None => walk'.account = walk.account
    PROVE  /\ LastNumber(entries) <= LastNumber(entries')
           /\ \A a : LoneRows(a)' \cap entries \subseteq LoneRows(a)
           /\ \A a : LoneRows(a)' \subseteq entries'
           /\ \A a : \A e \in LoneRows(a)' \ entries :
                 e.sequence_number > LastNumber(entries) /\ e.sequence_number \in Nat
           /\ \A q : PageAhead(q) => PageAhead(q)'
           /\ \A x : PageGot(x) => PageGot(x)'
<1>1. /\ LastNumber(entries) \in Nat
      /\ \A e \in entries : e.sequence_number \in Nat /\ e.sequence_number <= LastNumber(entries)
      /\ entries # {} => \E e \in entries : e.sequence_number = LastNumber(entries)
      /\ entries = {} => LastNumber(entries) = 0
  BY LastNumberIs
<1>2. /\ LastNumber(entries') \in Nat
      /\ \A e \in entries' : e.sequence_number \in Nat /\ e.sequence_number <= LastNumber(entries')
  <2>1. PICK S : S = entries'
    OBVIOUS
  <2>2. IsFiniteSet(S) /\ \A e \in S : e.sequence_number \in Nat
    BY <2>1 DEF StoreSound, DbInv, DbTypes, EntryRecords
  <2>3. LastNumber(S) \in Nat /\ \A e \in S : e.sequence_number <= LastNumber(S)
    BY <2>2, LastNumberOf
  <2> QED BY <2>1, <2>2, <2>3
<1>3. LastNumber(entries) <= LastNumber(entries')
  <2>1. CASE entries = {}
    BY <1>1, <1>2, <2>1
  <2>2. CASE entries # {}
    BY <1>1, <1>2, <2>2
  <2> QED BY <2>1, <2>2
<1>4. \A a : AllRows(a)' = {e \in entries' : e.account_id = a}
  BY Zenon DEF AllRows, AccountRows
<1>5. ASSUME NEW a
      PROVE  /\ AllRows(a) \subseteq AllRows(a)'
             /\ LoneRows(a)' \cap entries \subseteq LoneRows(a)
             /\ LoneRows(a)' \subseteq entries'
             /\ \A e \in LoneRows(a)' \ entries :
                   /\ e.sequence_number > LastNumber(entries) /\ e.sequence_number \in Nat
                   /\ \A x \in entries : x.sequence_number < e.sequence_number
  <2>1. AllRows(a) \subseteq AllRows(a)' /\ AllRows(a)' \cap entries = AllRows(a)
    BY <1>4, AllRowsAre
  <2>2. \A e : SharesItsNumber(e) => SharesItsNumber(e)'
    BY DEF SharesItsNumber
  <2>3. \A e \in LoneRows(a)' : e \in AllRows(a)' /\ ~SharesItsNumber(e)'
    BY DEF LoneRows
  <2>4. LoneRows(a)' \cap entries \subseteq LoneRows(a)
    BY <2>1, <2>2, <2>3 DEF LoneRows
  <2>5. LoneRows(a)' \subseteq entries'
    BY <1>4, <2>3
  <2>6. ASSUME NEW e \in LoneRows(a)' \ entries
        PROVE  /\ e.sequence_number > LastNumber(entries) /\ e.sequence_number \in Nat
               /\ \A x \in entries : x.sequence_number < e.sequence_number
    <3>1. e.sequence_number > LastNumber(entries) /\ e.sequence_number \in Nat
      BY <1>2, <2>3, <2>5, <2>6 DEF NewRowsFollow
    <3> QED BY <1>1, <3>1
  <2> QED BY <2>1, <2>4, <2>5, <2>6
<1>6. ASSUME NEW q, PageAhead(q), q[1] = "page" PROVE PageAhead(q)'
  <2>1. /\ walk.account # None /\ q[2] = walk.account /\ walk'.account = walk.account
        /\ q[3] \in Nat /\ q[3] <= LastNumber(entries)
        /\ \A e \in LoneRows(walk.account) : e.sequence_number <= q[3] => e \in walk.seen
    BY <1>6 DEF PageAhead
  <2>2. PICK a : a = walk.account
    OBVIOUS
  <2>3. q[3] <= LastNumber(entries')
    BY <1>1, <1>2, <1>3, <2>1
  <2>4. ASSUME NEW e \in LoneRows(a)', e.sequence_number <= q[3] PROVE e \in walk'.seen
    <3>1. CASE e \in entries
      BY <1>5, <2>1, <2>2, <2>4, <3>1
    <3>2. CASE e \notin entries
      <4>1. e.sequence_number > LastNumber(entries) /\ e.sequence_number \in Nat
        BY <1>5, <2>4, <3>2
      <4> QED BY <1>1, <2>1, <2>4, <4>1
    <3> QED BY <3>1, <3>2
  <2>5. \A e \in LoneRows(walk.account)' : e.sequence_number <= q[3] => e \in walk'.seen
    <3>1. LoneRows(walk.account)' = LoneRows(a)'
      BY <2>1, <2>2 DEF LoneRows, AllRows, AccountRows
    <3> QED BY <2>4, <3>1
  <2> QED BY <2>1, <2>3, <2>5 DEF PageAhead
<1>7. ASSUME NEW x, PageGot(x), x.q[1] = "page" /\ x.ok PROVE PageGot(x)'
  <2>1. /\ walk.account # None /\ walk'.account = walk.account
        /\ ToSet(x.is) \subseteq AllRows(walk.account) /\ Len(x.is) <= Limit + 1
        /\ \A e \in LoneRows(walk.account) \ (walk.seen \cup ToSet(x.is)), y \in ToSet(x.is) :
              y.sequence_number < e.sequence_number
    BY <1>7 DEF PageGot
  <2>2. PICK a : a = walk.account
    OBVIOUS
  <2>3. ToSet(x.is) \subseteq AllRows(a)' /\ ToSet(x.is) \subseteq entries
    BY <1>5, <2>1, <2>2, AllRowsAre
  <2>4. ASSUME NEW e \in LoneRows(a)' \ (walk'.seen \cup ToSet(x.is)), NEW y \in ToSet(x.is)
        PROVE  y.sequence_number < e.sequence_number
    <3>1. CASE e \in entries
      BY <1>5, <2>1, <2>2, <2>4, <3>1
    <3>2. CASE e \notin entries
      BY <1>5, <2>3, <2>4, <3>2
    <3> QED BY <3>1, <3>2
  <2>5. AllRows(walk.account)' = AllRows(a)' /\ LoneRows(walk.account)' = LoneRows(a)'
    BY <2>1, <2>2 DEF LoneRows, AllRows, AccountRows
  <2> QED BY <2>1, <2>3, <2>4, <2>5 DEF PageGot
<1>8. \A q : q[1] # "page" => PageAhead(q)'
  BY DEF PageAhead
<1>9. \A x : ~(x.q[1] = "page" /\ x.ok) => PageGot(x)'
  BY DEF PageGot
<1> QED BY <1>3, <1>5, <1>6, <1>7, <1>8, <1>9

\* A page is what follows its cursor (ledger_page_from_db).
LEMMA PageAsked ==
    ASSUME StoreSound, NEW q, PageAhead(q), NEW is \in Results(q),
           NEW ok, NEW x, x = [q |-> q, ok |-> ok, is |-> is]
    PROVE  PageGot(x)
<1> SUFFICES ASSUME q[1] = "page" PROVE PageGot(x)
  BY DEF PageGot
<1>1. PICK a, rows : a = walk.account /\ rows = RowsAfter(q[2], q[3])
  OBVIOUS
<1>2. /\ a # None /\ q[2] = a /\ q[3] \in Nat
      /\ \A e \in LoneRows(a) : e.sequence_number <= q[3] => e \in walk.seen
  BY <1>1 DEF PageAhead
<1>3. rows = {e \in AllRows(a) : e.sequence_number > q[3]} /\ AllRows(a) \subseteq entries
  BY <1>1, <1>2, AllRowsAre DEF RowsAfter
<1>4. PICK tie \in TieBreaks : is = Page(rows, tie)
  <2>1. is \in PageQuery(q[2], q[3])
    BY ResultsIs
  <2>2. PageQuery(q[2], q[3]) = {Page(rows, t) : t \in TieBreaks}
    BY <1>1, PageQueryIs
  <2> QED BY <2>1, <2>2
<1>5. /\ ToSet(is) \subseteq rows /\ Len(is) <= Limit + 1
      /\ \A e \in rows \ ToSet(is), y \in ToSet(is) : y.sequence_number <= e.sequence_number
  <2>1. rows \in SUBSET entries
    BY <1>3
  <2> QED BY <1>4, <2>1, PageShows
<1>6. ASSUME NEW e \in LoneRows(a) \ (walk.seen \cup ToSet(is)), NEW y \in ToSet(is)
      PROVE  y.sequence_number < e.sequence_number
  <2>1. e \in AllRows(a) /\ e \in entries /\ y \in entries /\ e # y
    BY <1>3, <1>5, <1>6, LoneRowsAre
  <2>2. e.sequence_number \in Nat /\ y.sequence_number \in Nat /\ e.sequence_number # y.sequence_number
    BY <1>6, <2>1, LoneRowsAre DEF StoreSound, DbInv, DbTypes, EntryRecords
  <2>3. e \in rows
    BY <1>2, <1>3, <1>6, <2>1, <2>2
  <2>4. y.sequence_number <= e.sequence_number
    BY <1>5, <1>6, <2>3
  <2> QED BY <2>2, <2>4
<1>7. ToSet(is) \subseteq AllRows(a)
  BY <1>3, <1>5
<1> QED BY <1>1, <1>2, <1>5, <1>6, <1>7 DEF PageGot

\* The client takes the rows that fit, and the number of the last of them if there are
\* more (CursorOf).
LEMMA PageTakenInOrder ==
    ASSUME StoreSound, ReadsTypes, WalkInv, NEW rows, InSequence(rows),
           walk.account # None,
           ToSet(rows) \subseteq AllRows(walk.account), Len(rows) <= Limit + 1,
           \A e \in LoneRows(walk.account) \ (walk.seen \cup ToSet(rows)), y \in ToSet(rows) :
               y.sequence_number < e.sequence_number,
           walk'.cursor = IF Len(rows) > Limit THEN CursorOf(rows) ELSE walk.cursor,
           walk'.seen = walk.seen \cup ToSet(SubSeq(rows, 1, Min({Limit, Len(rows)})))
    PROVE  /\ walk'.cursor <= LastNumber(entries)
           /\ \A e \in LoneRows(walk.account) \ walk'.seen :
                 /\ e.sequence_number > walk'.cursor
                 /\ \A x \in walk'.seen : x.sequence_number < e.sequence_number
<1> PICK cursor, m, seen : cursor = walk'.cursor /\ m = Min({Limit, Len(rows)}) /\ seen = walk'.seen
  OBVIOUS
<1>0. /\ cursor = IF Len(rows) > Limit THEN CursorOf(rows) ELSE walk.cursor
      /\ seen = walk.seen \cup ToSet(SubSeq(rows, 1, m))
  OBVIOUS
<1> SUFFICES /\ cursor <= LastNumber(entries)
             /\ \A e \in LoneRows(walk.account) \ seen :
                   /\ e.sequence_number > cursor
                   /\ \A x \in seen : x.sequence_number < e.sequence_number
  OBVIOUS
<1>1. PICK a, n : a = walk.account /\ n = Len(rows)
  OBVIOUS
<1>2. /\ Limit \in Nat \ {0} /\ rows \in Seq(EntryRecords) /\ n \in Nat /\ DOMAIN rows = 1..n
      /\ ToSet(rows) \subseteq entries
      /\ \A i, j \in 1..n : i < j => rows[i] # rows[j]
  BY <1>1, LimitAssumption DEF InSequence
<1>3. m \in 0..n /\ m <= Limit /\ (n <= Limit => m = n) /\ (n > Limit => m = Limit /\ n = Limit + 1)
  <2>1. m \in {Limit, n} /\ \A y \in {Limit, n} : m <= y
    <3>1. \E x \in {Limit, n} : \A y \in {Limit, n} : x <= y
      BY <1>2
    <3> QED BY <1>1, <3>1 DEF Min
  <2> QED BY <1>1, <1>2, <2>1
<1>4. ToSet(SubSeq(rows, 1, m)) = {rows[i] : i \in 1..m}
  <2>1. /\ SubSeq(rows, 1, m) \in Seq(EntryRecords) /\ Len(SubSeq(rows, 1, m)) = m
        /\ \A k \in 1..m : SubSeq(rows, 1, m)[k] = rows[k]
    <3>1. rows \in Seq(EntryRecords) /\ Len(rows) \in Nat /\ m \in 0..Len(rows)
      BY <1>1, <1>2, <1>3
    <3> QED BY ONLY <3>1
  <2>2. DOMAIN SubSeq(rows, 1, m) = 1..m
    BY <2>1
  <2>3. PICK page : page = SubSeq(rows, 1, m)
    OBVIOUS
  <2>4. DOMAIN page = 1..m /\ \A k \in 1..m : page[k] = rows[k]
    BY <2>1, <2>2, <2>3
  <2>5. ToSet(page) = {rows[i] : i \in 1..m}
    BY ONLY <2>4 DEF ToSet
  <2> QED BY <2>3, <2>5
<1>5. \A e \in entries : e.sequence_number \in Nat /\ e.sequence_number <= LastNumber(entries)
  BY LastNumberIs
<1>6. \A i \in 1..n : rows[i] \in ToSet(rows) /\ rows[i] \in entries
  BY <1>2 DEF ToSet
<1>7. ASSUME NEW i \in 1..n, NEW j \in 1..n, i < j, rows[j] \in LoneRows(a)
      PROVE  rows[i].sequence_number < rows[j].sequence_number
  <2>1. rows[i].sequence_number <= rows[j].sequence_number /\ rows[i] # rows[j]
    BY <1>2, <1>7 DEF InSequence
  <2>2. rows[i].sequence_number # rows[j].sequence_number
    BY <1>6, <1>7, <2>1, LoneRowsAre
  <2> QED BY <1>5, <1>6, <2>1, <2>2
<1>8. CASE n <= Limit
  <2>1. cursor = walk.cursor /\ m = n
    BY <1>0, <1>1, <1>2, <1>3, <1>8
  <2>2. seen = walk.seen \cup ToSet(rows)
    BY <1>0, <1>2, <1>4, <2>1 DEF ToSet
  <2>3. ASSUME NEW e \in LoneRows(a) \ seen
        PROVE  e.sequence_number > cursor /\ \A x \in seen : x.sequence_number < e.sequence_number
    <3>1. e \in LoneRows(a) \ walk.seen /\ e \in LoneRows(walk.account) \ (walk.seen \cup ToSet(rows))
      BY <1>1, <2>2, <2>3
    <3>2. e.sequence_number > cursor /\ \A x \in walk.seen : x.sequence_number < e.sequence_number
      BY <1>1, <2>1, <3>1 DEF WalkInv, NothingSkipped
    <3>3. \A x \in ToSet(rows) : x.sequence_number < e.sequence_number
      BY <3>1
    <3> QED BY <2>2, <3>2, <3>3
  <2> QED BY <1>1, <2>1, <2>3 DEF WalkInv
<1>9. CASE n > Limit
  <2>1. n = Limit + 1 /\ m = Limit /\ Limit \in 1..n /\ n \in 1..n
    BY <1>2, <1>3, <1>9
  <2>2. cursor = rows[Limit].sequence_number
    BY <1>0, <1>1, <1>9 DEF CursorOf
  <2>3. cursor <= LastNumber(entries) /\ cursor \in Nat
    BY <1>5, <1>6, <2>1, <2>2
  <2>4. ASSUME NEW e \in LoneRows(a) \ seen
        PROVE  e.sequence_number > cursor /\ \A x \in seen : x.sequence_number < e.sequence_number
    <3>1. e \in LoneRows(a) \ walk.seen
      BY <1>0, <2>4
    <3>2. \A x \in walk.seen : x.sequence_number < e.sequence_number
      BY <1>1, <3>1 DEF WalkInv, NothingSkipped
    <3>3. CASE e \in ToSet(rows)
      <4>1. PICK j \in 1..n : e = rows[j]
        BY <1>2, <3>3 DEF ToSet
      <4>2. j \notin 1..m
        BY <1>0, <1>4, <2>4, <4>1
      <4>3. j = n
        BY <1>2, <2>1, <4>2
      <4>4. \A i \in 1..m : i \in 1..n /\ i < j
        BY <1>2, <2>1, <4>3
      <4>5. \A i \in 1..m : rows[i].sequence_number < e.sequence_number
        BY <1>7, <2>1, <3>1, <4>1, <4>4
      <4>6. e.sequence_number > cursor
        <5>1. Limit \in 1..m
          BY <1>2, <2>1
        <5>2. e.sequence_number \in Nat
          BY <1>5, <1>6, <4>1
        <5> QED BY <2>2, <2>3, <4>5, <5>1, <5>2
      <4>7. \A x \in ToSet(SubSeq(rows, 1, m)) : x.sequence_number < e.sequence_number
        BY <1>4, <4>5
      <4> QED BY <1>0, <3>2, <4>6, <4>7
    <3>4. CASE e \notin ToSet(rows)
      <4>1. \A y \in ToSet(rows) : y.sequence_number < e.sequence_number
        BY <1>1, <3>1, <3>4
      <4>2. \A i \in 1..m : rows[i] \in ToSet(rows)
        BY <1>6, <2>1
      <4>3. rows[Limit].sequence_number < e.sequence_number
        BY <1>6, <2>1, <4>1
      <4>4. e.sequence_number \in Nat
        BY <1>1, <1>5, <3>1, AllRowsAre, LoneRowsAre
      <4>5. \A x \in ToSet(SubSeq(rows, 1, m)) : x.sequence_number < e.sequence_number
        BY <1>4, <4>1, <4>2
      <4> QED BY <1>0, <2>2, <2>3, <3>2, <4>3, <4>4, <4>5
    <3> QED BY <3>3, <3>4
  <2> QED BY <1>1, <2>3, <2>4
<1>10. n <= Limit \/ n > Limit
  BY <1>2
<1> QED BY <1>8, <1>9, <1>10

LEMMA FirstIsNoPage ==
    ASSUME NEW op, op # "ledger", NEW todo, FirstQueries(op, todo)
    PROVE  \A i \in DOMAIN todo : todo[i][1] # "page"
<1>1. CASE todo = << <<"pairs">> >>
  BY <1>1
<1>2. ASSUME NEW pair, todo = ViaQueries(pair) PROVE \A i \in DOMAIN todo : todo[i][1] # "page"
  BY <1>2 DEF ViaQueries
<1>3. ASSUME NEW pair, todo = << <<"custodial", pair[2]>> >>
      PROVE  \A i \in DOMAIN todo : todo[i][1] # "page"
  BY <1>3
<1>4. ASSUME NEW id, todo = PostingQueries(id) PROVE \A i \in DOMAIN todo : todo[i][1] # "page"
  BY <1>4 DEF PostingQueries
<1>5. ASSUME NEW limit, todo = << <<"postings", Ids, limit>> >>
      PROVE  \A i \in DOMAIN todo : todo[i][1] # "page"
  BY <1>5
<1> QED BY <1>1, <1>2, <1>3, <1>4, <1>5 DEF FirstQueries

LEMMA WalkStep ==
    ASSUME StoreSound, StoreSound', NumberInv, ReadsTypes, WalkInv,
           [ReadsNext]_<<store, reading>>
    PROVE  WalkInv'
<1>1. CallsListed /\ WalkTyped /\ ItemsTyped /\ NothingSkipped /\ PagesInv /\ walk.cursor <= LastNumber(entries)
  BY DEF ReadsTypes, WalkInv
<1>2. ASSUME UNCHANGED vars
      PROVE  /\ \A a : LoneRows(a)' = LoneRows(a)
             /\ LastNumber(entries') = LastNumber(entries)
             /\ entries \subseteq entries' /\ NewRowsFollow
  BY <1>2 DEF LoneRows, SharesItsNumber, AllRows, AccountRows, vars, db, NewRowsFollow
\* What is left to show when a caller moves.
<1>3. ASSUME NEW c \in Callers, Alone(c), UNCHANGED vars,
             walk.seen \subseteq walk'.seen,
             walk.account # None => walk'.account = walk.account,
             (walk.account = None => walk.cursor = 0 /\ walk.seen = {})',
             walk'.cursor <= LastNumber(entries), NothingSkipped',
             \A i \in DOMAIN call'[c].todo : PageAhead(call[c].todo[i])',
             \A i \in DOMAIN call'[c].got : PageGot(call[c].got[i])'
      PROVE  WalkInv'
  <2>1. entries \subseteq entries' /\ NewRowsFollow /\ LastNumber(entries') = LastNumber(entries)
    BY <1>2, <1>3
  <2>2. (\A q : PageAhead(q) => PageAhead(q)') /\ (\A x : PageGot(x) => PageGot(x)')
    BY <1>3, <2>1, PagesStay
  <2>3. ASSUME NEW d \in Callers, d # c
        PROVE  /\ \A i \in DOMAIN call'[d].todo : PageAhead(call[d].todo[i])'
               /\ \A i \in DOMAIN call'[d].got : PageGot(call[d].got[i])'
    <3>1. PICK todo, got : todo = call[d].todo /\ got = call[d].got
      OBVIOUS
    <3>2. call'[d].todo = todo /\ call'[d].got = got
      BY <1>3, <2>3, <3>1 DEF Alone
    <3>3. (\A i \in DOMAIN todo : PageAhead(todo[i])) /\ (\A i \in DOMAIN got : PageGot(got[i]))
      BY <1>1, <3>1 DEF PagesInv
    <3>4. \A i \in DOMAIN todo : PageAhead(todo[i])'
      BY <2>2, <3>3
    <3>5. \A i \in DOMAIN got : PageGot(got[i])'
      BY <2>2, <3>3
    <3> QED BY <3>2, <3>4, <3>5
  <2>4. PagesInv'
    BY <1>3, <2>3 DEF PagesInv
  <2>5. walk'.cursor <= LastNumber(entries')
    BY <1>3, <2>1
  <2> QED BY <1>3, <2>4, <2>5 DEF WalkInv
<1>4. CASE [Next]_vars /\ UNCHANGED reading
  <2>1. NewRowsFollow /\ entries \subseteq entries'
    BY <1>4, NumbersGoOn
  <2>2. NumberInv'
    BY <1>4, NumbersGoOn
  <2>3. walk' = walk /\ call' = call
    BY <1>4 DEF reading
  <2>4. /\ LastNumber(entries) <= LastNumber(entries')
        /\ \A a : LoneRows(a)' \cap entries \subseteq LoneRows(a)
        /\ \A a : \A e \in LoneRows(a)' \ entries :
              e.sequence_number > LastNumber(entries) /\ e.sequence_number \in Nat
        /\ (\A q : PageAhead(q) => PageAhead(q)') /\ (\A x : PageGot(x) => PageGot(x)')
    BY <2>1, <2>3, PagesStay
  <2>5. PagesInv'
    BY <1>1, <2>3, <2>4 DEF PagesInv
  <2>6. PICK a : a = walk.account
    OBVIOUS
  <2>7. LoneRows(walk.account)' = LoneRows(a)'
    BY <2>3, <2>6 DEF LoneRows, AllRows, AccountRows
  <2>8. ASSUME NEW e \in LoneRows(a)' \ walk.seen
        PROVE  e.sequence_number > walk.cursor /\ \A x \in walk.seen : x.sequence_number < e.sequence_number
    <3>1. CASE e \in entries
      BY <1>1, <2>4, <2>6, <2>8, <3>1 DEF NothingSkipped
    <3>2. CASE e \notin entries
      <4>2. e.sequence_number > LastNumber(entries) /\ e.sequence_number \in Nat
        BY <2>4, <2>8, <3>2
      <4>3. /\ LastNumber(entries) \in Nat
            /\ \A x \in entries : x.sequence_number \in Nat /\ x.sequence_number <= LastNumber(entries)
        BY LastNumberIs
      <4>4. walk.cursor \in Nat /\ walk.seen \subseteq entries
        BY <1>1 DEF WalkTyped
      <4>5. e.sequence_number > walk.cursor
        BY <1>1, <4>2, <4>3, <4>4
      <4>6. \A x \in walk.seen : x.sequence_number < e.sequence_number
        BY <4>2, <4>3, <4>4
      <4> QED BY <4>5, <4>6
    <3> QED BY <3>1, <3>2
  <2>9. NothingSkipped'
    BY <2>3, <2>7, <2>8 DEF NothingSkipped
  <2>10. walk'.cursor <= LastNumber(entries')
    <3>1. walk.cursor \in Nat /\ LastNumber(entries) \in Nat
      BY <1>1, LastNumberIs DEF WalkTyped
    <3>2. PICK S : S = entries'
      OBVIOUS
    <3>3. IsFiniteSet(S) /\ \A e \in S : e.sequence_number \in Nat
      BY <3>2 DEF StoreSound, DbInv, DbTypes, EntryRecords
    <3>4. LastNumber(entries') \in Nat
      BY <3>2, <3>3, LastNumberOf
    <3> QED BY <1>1, <2>3, <2>4, <3>1, <3>4
  <2> QED BY <2>3, <2>5, <2>9, <2>10 DEF WalkInv
<1>5. ASSUME UNCHANGED vars, UNCHANGED walk
      PROVE  /\ walk.seen \subseteq walk'.seen
             /\ walk.account # None => walk'.account = walk.account
             /\ (walk.account = None => walk.cursor = 0 /\ walk.seen = {})'
             /\ walk'.cursor <= LastNumber(entries) /\ NothingSkipped'
             /\ \A q : PageAhead(q) => PageAhead(q)'
             /\ \A x : PageGot(x) => PageGot(x)'
  <2>1. NothingSkipped'
    BY <1>1, <1>2, <1>5 DEF NothingSkipped
  <2>2. (\A q : PageAhead(q) => PageAhead(q)') /\ (\A x : PageGot(x) => PageGot(x)')
    BY <1>2, <1>5, PagesStay
  <2> QED BY <1>5, <2>1, <2>2 DEF WalkInv
<1>6. ASSUME NEW c \in Callers, Begins(c) PROVE WalkInv'
  <2>1. PICK op, todo : FirstQueries(op, todo) /\ Starts(c, op, todo) /\ (op # "ledger" => UNCHANGED walk)
    BY <1>1, <1>6, BeginsStarts
  <2>2. /\ UNCHANGED vars
        /\ walk'.cursor = walk.cursor /\ walk'.seen = walk.seen
        /\ walk.account # None => walk'.account = walk.account
    BY <1>1, <1>6, BeginsStarts
  <2>3. PICK a, k, cursor : a = walk.account /\ k = LastNumber(entries) /\ cursor = walk.cursor
    OBVIOUS
  <2>4. /\ k \in Nat /\ cursor \in Nat /\ cursor <= k
        /\ \A e \in entries : e.sequence_number \in Nat
    BY <1>1, <2>3, LastNumberIs DEF WalkTyped
  <2>5. CASE op # "ledger"
    <3>1. \A i \in DOMAIN todo : todo[i][1] # "page"
      BY <2>1, <2>5, FirstIsNoPage
    <3>2. \A i \in DOMAIN todo : PageAhead(todo[i])'
      BY <3>1 DEF PageAhead
    <3>3. Alone(c) /\ call'[c].todo = todo /\ call'[c].got = <<>> /\ DOMAIN call'[c].got = {}
      BY <2>1 DEF Starts
    <3>4. \A i \in DOMAIN call'[c].todo : PageAhead(call[c].todo[i])'
      BY <3>2, <3>3
    <3>5. /\ walk.seen \subseteq walk'.seen
          /\ (walk.account = None => walk.cursor = 0 /\ walk.seen = {})'
          /\ walk'.cursor <= LastNumber(entries) /\ NothingSkipped'
      BY <1>5, <2>1, <2>2, <2>5
    <3> QED BY <1>3, <2>2, <3>3, <3>4, <3>5
  <2>6. CASE op = "ledger"
    <3>1. PICK b : b = walk'.account
      OBVIOUS
    <3>2. b # None /\ todo = PageQueries(b, cursor) /\ (a # None => b = a)
      BY <2>1, <2>2, <2>3, <2>6, <3>1 DEF FirstQueries
    <3>3. ASSUME NEW e \in LoneRows(b) \ walk.seen
          PROVE  /\ e.sequence_number > cursor
                 /\ \A x \in walk.seen : x.sequence_number < e.sequence_number
      <4>1. CASE a = None
        <5>1. cursor = 0 /\ walk.seen = {}
          BY <2>3, <4>1 DEF WalkInv
        <5>2. e.sequence_number >= 1 /\ e.sequence_number \in Nat
          BY <2>4, <3>3, AllRowsAre, LoneRowsAre DEF NumberInv
        <5> QED BY <5>1, <5>2
      <4>2. CASE a # None
        BY <1>1, <2>3, <3>2, <3>3, <4>2 DEF NothingSkipped
      <4> QED BY <4>1, <4>2
    <3>4. \A e \in LoneRows(b) : e.sequence_number <= cursor => e \in walk.seen
      BY <2>4, <3>3, AllRowsAre, LoneRowsAre
    <3>5. LoneRows(walk.account)' = LoneRows(b)
      BY <2>2, <3>1 DEF LoneRows, SharesItsNumber, AllRows, AccountRows, vars, db
    <3>6. NothingSkipped'
      BY <2>2, <2>3, <3>3, <3>5 DEF NothingSkipped
    <3>7. PICK any : todo = << <<"exists", b>>, <<"page", b, cursor>>, <<"balance", b, any>> >>
      BY <3>2, PageQueriesAre
    <3>8. LastNumber(entries)' = k
      BY <2>2, <2>3 DEF vars, db
    <3>9. ASSUME NEW q, q = <<"page", b, cursor>> PROVE PageAhead(q)'
      <4>1. q[1] = "page" /\ q[2] = b /\ q[3] = cursor
        BY <3>9
      <4>2. \A e \in LoneRows(walk.account)' : e.sequence_number <= cursor => e \in walk'.seen
        BY <2>2, <3>4, <3>5
      <4> QED BY <2>4, <3>1, <3>2, <3>8, <4>1, <4>2 DEF PageAhead
    <3>10. \A q : q[1] # "page" => PageAhead(q)'
      BY DEF PageAhead
    <3>11. ASSUME NEW i \in DOMAIN todo PROVE PageAhead(todo[i])'
      <4>1. PICK q : q = todo[i]
        OBVIOUS
      <4>2. q = <<"page", b, cursor>> \/ q[1] # "page"
        BY <3>7, <4>1
      <4>3. PageAhead(q)'
        BY <3>9, <3>10, <4>2
      <4> QED BY <4>1, <4>3
    <3>12. Alone(c) /\ call'[c].todo = todo /\ call'[c].got = <<>> /\ DOMAIN call'[c].got = {}
      BY <2>1 DEF Starts
    <3>13. \A i \in DOMAIN call'[c].todo : PageAhead(call[c].todo[i])'
      BY <3>11, <3>12
    <3>14. (walk.account = None => walk.cursor = 0 /\ walk.seen = {})'
      BY <3>1, <3>2
    <3>15. walk.seen \subseteq walk'.seen /\ walk'.cursor <= LastNumber(entries)
      BY <1>1, <2>2
    <3> QED BY <1>3, <2>2, <3>6, <3>12, <3>13, <3>14, <3>15
  <2> QED BY <2>5, <2>6
<1>7. ASSUME NEW c \in Callers, NEW ok, NEW is, NEW rest, Learns(c, ok, is, rest),
             UNCHANGED vars, UNCHANGED walk,
             NEW x, x = [q |-> Head(call[c].todo), ok |-> ok, is |-> is], PageGot(x),
             \A i \in DOMAIN rest : PageAhead(rest[i])
      PROVE  WalkInv'
  <2>1. PICK n : n = Len(call[c].got)
    OBVIOUS
  <2>2. /\ n \in Nat /\ DOMAIN call[c].got = 1..n /\ DOMAIN call'[c].got = 1..(n + 1)
        /\ \A i \in 1..n : call'[c].got[i] = call[c].got[i]
        /\ call'[c].got[n + 1] = [q |-> Head(call[c].todo), ok |-> ok, is |-> is]
        /\ \A i \in 1..(n + 1) : i \in 1..n \/ i = n + 1
    BY ONLY <1>1, <1>7, <2>1, c \in Callers, ItemLearnt, SMTT(30)
  <2>3. PICK new : new = call'[c].got
    OBVIOUS
  <2>4. \A i \in DOMAIN new : PageGot(new[i])
    <3>1. \A i \in 1..n : PageGot(call[c].got[i])
      BY <1>1, <2>2 DEF PagesInv
    <3> QED BY <1>7, <2>2, <2>3, <3>1
  <2>5. \A i \in DOMAIN new : PageGot(new[i])'
    BY <1>5, <1>7, <2>4
  <2>6. \A i \in DOMAIN rest : PageAhead(rest[i])'
    BY <1>5, <1>7
  <2>7. Alone(c) /\ call'[c].todo = rest
    BY <1>7 DEF Learns
  <2>8. \A i \in DOMAIN call'[c].got : PageGot(call[c].got[i])'
    BY <2>3, <2>5
  <2>9. \A i \in DOMAIN call'[c].todo : PageAhead(call[c].todo[i])'
    BY <2>6, <2>7
  <2>10. /\ walk.seen \subseteq walk'.seen
         /\ walk.account # None => walk'.account = walk.account
         /\ (walk.account = None => walk.cursor = 0 /\ walk.seen = {})'
         /\ walk'.cursor <= LastNumber(entries) /\ NothingSkipped'
    BY <1>5, <1>7
  <2> QED BY <1>3, <1>7, <2>7, <2>8, <2>9, <2>10
<1>8. ASSUME NEW c \in Callers, call[c].todo # <<>>
      PROVE  /\ \A i \in DOMAIN Tail(call[c].todo) : PageAhead(Tail(call[c].todo)[i])
             /\ PageAhead(Head(call[c].todo))
  <2>1. PICK todo, rest : todo = call[c].todo /\ rest = Tail(call[c].todo)
    OBVIOUS
  <2>2. /\ Head(todo) = todo[1] /\ DOMAIN todo = 1..Len(todo) /\ Len(todo) \in Nat \ {0}
        /\ DOMAIN rest = 1..(Len(todo) - 1) /\ \A i \in 1..(Len(todo) - 1) : rest[i] = todo[i + 1]
    BY <1>1, <1>8, <2>1, TailOfList DEF CallsListed
  <2>3. \A i \in DOMAIN todo : PageAhead(todo[i])
    BY <1>1, <2>1 DEF PagesInv
  <2>4. \A i \in 1..(Len(todo) - 1) : i + 1 \in DOMAIN todo
    BY <2>2
  <2>5. 1 \in DOMAIN todo
    BY <2>2
  <2>6. \A i \in DOMAIN rest : PageAhead(rest[i])
    BY <2>2, <2>3, <2>4
  <2>7. PageAhead(Head(todo))
    BY <2>2, <2>3, <2>5
  <2> QED BY <2>1, <2>6, <2>7
<1>9. ASSUME NEW c \in Callers, Ask(c) PROVE WalkInv'
  <2>1. PICK q, todo, op : q = Head(call[c].todo) /\ todo = Tail(call[c].todo) /\ op = call[c].op
    OBVIOUS
  <2>2. PICK is \in Results(q) : Learns(c, TRUE, is, Following(op, q, is, todo))
    BY <1>1, <1>9, <2>1, AskLearns
  <2>3. PICK rest, ok : rest = Following(op, q, is, todo) /\ ok = TRUE
    OBVIOUS
  <2>4. Learns(c, ok, is, rest) /\ UNCHANGED vars /\ UNCHANGED walk
    BY <1>1, <1>9, <2>2, <2>3, AskLearns
  <2>5. PICK x : x = [q |-> q, ok |-> ok, is |-> is]
    OBVIOUS
  <2>6. (\A i \in DOMAIN todo : PageAhead(todo[i])) /\ PageAhead(q)
    BY <1>8, <2>1, <2>4 DEF Learns
  <2>7. PageGot(x)
    BY <2>2, <2>5, <2>6, PageAsked
  <2>8. \A i \in DOMAIN rest : PageAhead(rest[i])
    BY <2>2, <2>3, <2>6, FollowingKinds DEF PageAhead
  <2> QED BY <1>7, <2>1, <2>4, <2>5, <2>7, <2>8
<1>10. ASSUME NEW c \in Callers, AskFails(c) PROVE WalkInv'
  <2>1. PICK q, todo : q = Head(call[c].todo) /\ todo = Tail(call[c].todo)
    OBVIOUS
  <2>2. PICK is, rest, ok : is = Default(q[1]) /\ rest = FollowingError(q, todo) /\ ok = FALSE
    OBVIOUS
  <2>3. Learns(c, ok, is, rest) /\ UNCHANGED vars /\ UNCHANGED walk
    BY <1>1, <1>10, <2>1, <2>2, FailureLearns
  <2>4. PICK x : x = [q |-> q, ok |-> ok, is |-> is]
    OBVIOUS
  <2>5. PageGot(x)
    BY <2>2, <2>4 DEF PageGot
  <2>6. (\A i \in DOMAIN todo : PageAhead(todo[i])) /\ PageAhead(q)
    BY <1>8, <2>1, <2>3 DEF Learns
  <2>7. \A i \in DOMAIN rest : PageAhead(rest[i])
    <3>1. rest = todo \/ rest = <<>> \/ rest = << <<"balance", q[2], q[3]>> >>
      BY <2>2, FollowingErrorIs
    <3> QED BY <2>6, <3>1 DEF PageAhead
  <2> QED BY <1>7, <2>1, <2>3, <2>4, <2>5, <2>7
<1>11. ASSUME NEW c \in Callers, InsertSnapshot(c) PROVE WalkInv'
  <2>1. Inserts(c) /\ UNCHANGED vars /\ UNCHANGED walk
    BY <1>1, <1>11, InsertInserts
  <2>2. PICK rest : rest = Tail(call[c].todo)
    OBVIOUS
  <2>3. Alone(c) /\ call'[c].got = <<>> /\ call'[c].todo = rest /\ call[c].todo # <<>>
    BY <2>1, <2>2 DEF Inserts
  <2>4. \A i \in DOMAIN rest : PageAhead(rest[i])
    BY <1>8, <2>2, <2>3
  <2>5. \A i \in DOMAIN rest : PageAhead(rest[i])'
    BY <1>5, <2>1, <2>4
  <2>6. \A i \in DOMAIN call'[c].todo : PageAhead(call[c].todo[i])'
    BY <2>3, <2>5
  <2>7. DOMAIN call'[c].got = {}
    BY <2>3
  <2>8. /\ walk.seen \subseteq walk'.seen
        /\ walk.account # None => walk'.account = walk.account
        /\ (walk.account = None => walk.cursor = 0 /\ walk.seen = {})'
        /\ walk'.cursor <= LastNumber(entries) /\ NothingSkipped'
    BY <1>5, <2>1
  <2> QED BY <1>3, <2>1, <2>3, <2>6, <2>7, <2>8
<1>12. ASSUME NEW c \in Callers, Answer(c) PROVE WalkInv'
  <2>1. /\ Alone(c) /\ call'[c].todo = <<>> /\ call'[c].got = <<>> /\ UNCHANGED vars
    BY <1>1, <1>12, AnswerEnds
  <2>2. DOMAIN call'[c].todo = {} /\ DOMAIN call'[c].got = {}
    BY <2>1
  <2>3. CASE UNCHANGED walk
    <3>1. /\ walk.seen \subseteq walk'.seen
          /\ walk.account # None => walk'.account = walk.account
          /\ (walk.account = None => walk.cursor = 0 /\ walk.seen = {})'
          /\ walk'.cursor <= LastNumber(entries) /\ NothingSkipped'
      BY <1>5, <2>1, <2>3
    <3> QED BY <1>3, <2>1, <2>2, <3>1
  <2>4. ASSUME NEW i \in DOMAIN call[c].got, call[c].got[i].q[1] = "page", call[c].got[i].ok,
               NEW rows, rows = call[c].got[i].is,
               walk'.seen = walk.seen \cup ToSet(SubSeq(rows, 1, Min({Limit, Len(rows)}))),
               walk'.cursor = IF Len(rows) > Limit THEN CursorOf(rows) ELSE walk.cursor
        PROVE  WalkInv'
    <3>1. PICK x : x = call[c].got[i]
      OBVIOUS
    <3>2. PageGot(x) /\ ItemTyped(x)
      BY <1>1, <3>1 DEF PagesInv, ItemsTyped
    <3>3. /\ InSequence(rows) /\ walk.account # None
          /\ ToSet(rows) \subseteq AllRows(walk.account) /\ Len(rows) <= Limit + 1
          /\ \A e \in LoneRows(walk.account) \ (walk.seen \cup ToSet(rows)), y \in ToSet(rows) :
                y.sequence_number < e.sequence_number
      BY <2>4, <3>1, <3>2 DEF PageGot, ItemTyped
    <3>4. PICK seen, cursor : seen = walk'.seen /\ cursor = walk'.cursor
      OBVIOUS
    <3>5. /\ walk'.cursor <= LastNumber(entries)
          /\ \A e \in LoneRows(walk.account) \ walk'.seen :
                /\ e.sequence_number > walk'.cursor
                /\ \A y \in walk'.seen : y.sequence_number < e.sequence_number
      BY <2>4, <3>3, PageTakenInOrder
    <3>6. walk'.account = walk.account
      BY <1>12, PageTaken
    <3>7. NothingSkipped'
      <4>1. PICK a : a = walk.account
        OBVIOUS
      <4>2. LoneRows(walk.account)' = LoneRows(a)
        BY <1>2, <2>1, <3>6, <4>1 DEF LoneRows, SharesItsNumber, AllRows, AccountRows, vars, db
      <4> QED BY <3>4, <3>5, <3>6, <4>1, <4>2 DEF NothingSkipped
    <3>8. walk.seen \subseteq walk'.seen
      BY <2>4
    <3> QED BY <1>3, <2>1, <2>2, <3>3, <3>5, <3>6, <3>7, <3>8
  <2> QED BY <1>12, <2>3, <2>4, PageTaken
<1> QED BY <1>4, <1>6, <1>9, <1>10, <1>11, <1>12, StepOfReads

\* A client that follows the cursor sees the entries in order and misses none but those
\* that have their number from two writers at once, whatever is committed meanwhile and by
\* however many, whoever fetches its pages and whichever of them fail
\* (ledger_page_from_db, next_cursor).
THEOREM WalkMissesNoOther == ReadsSpec => []WalkMissesOnlyTies
<1>1. ReadsInit => NumberInv /\ WalkInv
  <2> SUFFICES ASSUME ReadsInit PROVE NumberInv /\ WalkInv
    OBVIOUS
  <2>1. /\ Init /\ call = [c \in Callers |-> Idle] /\ entries = {}
        /\ walk.account = None /\ walk.cursor = 0 /\ walk.seen = {}
    BY DEF ReadsInit, Init
  <2>2. \A c \in Callers : call[c].todo = <<>> /\ call[c].got = <<>>
    BY <2>1 DEF Idle
  <2>3. PagesInv
    BY <2>2 DEF PagesInv
  <2>4. NothingSkipped
    BY <2>1, AllRowsAre, LoneRowsAre DEF NothingSkipped
  <2>5. walk.cursor <= LastNumber(entries)
    BY <2>1 DEF LastNumber
  <2> QED BY <2>1, <2>3, <2>4, <2>5, NumbersAtStart DEF WalkInv
<1>2. StoreSound /\ NumberInv /\ [ReadsNext]_<<store, reading>> => NumberInv'
  <2> SUFFICES ASSUME StoreSound, NumberInv, [ReadsNext]_<<store, reading>> PROVE NumberInv'
    OBVIOUS
  <2>1. [Next]_vars
    BY StepOfStore
  <2> QED BY <2>1, NumbersGoOn
<1>3. /\ StoreSound /\ StoreSound' /\ NumberInv /\ ReadsTypes /\ WalkInv
      /\ [ReadsNext]_<<store, reading>>
      => WalkInv'
  BY WalkStep
<1>4. WalkInv => WalkMissesOnlyTies
  BY Zenon DEF WalkInv, NothingSkipped, AllRows, LoneRows, WalkMissesOnlyTies
<1> QED BY <1>1, <1>2, <1>3, <1>4, ReadsTypesHold, PTL DEF ReadsSpec

-----------------------------------------------------------------------------
(* Moments.  A balance that one query returns is that of the rows there    *)
(* were at a moment, and stays their balance.                              *)

\* The rows of a moment are rows still, and no number is left out among them.
PastInv ==
    /\ entries \in past /\ {} \in past
    /\ \A rows \in past : rows \subseteq entries /\ FillsUp(rows)

LEMMA PastGoesOn ==
    ASSUME PastInv, NumberInv', entries \subseteq entries', [ReadsNext]_<<store, reading>>
    PROVE  PastInv' /\ past \subseteq past'
<1>1. past' = past \cup {entries'}
  <2>1. CASE Serve /\ past' = past \cup {entries'}
    BY <2>1
  <2>2. ASSUME NEW c \in Callers,
               \/ WriteSnapshots(c) \/ BalanceViaSnapshot(c) \/ UserCustodialSum(c)
               \/ GetPosting(c) \/ ListPostings(c) \/ Ledger(c)
        PROVE  UNCHANGED <<entries, past>>
    BY <2>2 DEF WriteSnapshots, BalanceViaSnapshot, UserCustodialSum, GetPosting,
                ListPostings, Ledger, Begin, store, vars, db
  <2>3. ASSUME NEW c \in Callers, Ask(c) \/ AskFails(c) \/ InsertSnapshot(c) \/ Answer(c)
        PROVE  UNCHANGED <<entries, past>>
    BY <2>3 DEF Ask, AskFails, InsertSnapshot, Answer, store, vars, db
  <2>4. CASE UNCHANGED <<store, reading>>
    BY <2>4 DEF PastInv, store, vars, db
  <2>5. ASSUME UNCHANGED <<entries, past>> PROVE past' = past \cup {entries'}
    BY <2>5 DEF PastInv
  <2> QED BY <2>1, <2>2, <2>3, <2>4, <2>5 DEF ReadsNext
<1>2. FillsUp(entries')
  BY DEF NumberInv, FillsUp
<1>3. \A rows \in past' : rows \subseteq entries' /\ FillsUp(rows)
  BY <1>1, <1>2 DEF PastInv
<1>4. entries' \in past' /\ {} \in past'
  BY <1>1 DEF PastInv
<1> QED BY <1>1, <1>3, <1>4 DEF PastInv, FillsUp

LEMMA PastAtStart == ReadsInit => PastInv
BY DEF ReadsInit, Init, PastInv, FillsUp

\* The item is a balance at some moment at which there were already the rows `low'.
BalanceOf(x, low) ==
    x.q[1] = "balance" /\ x.ok =>
        \E rows \in past : low \subseteq rows /\ x.is = compute_balance(rows, x.q[2], x.q[3])

LEMMA BalanceStays ==
    ASSUME past \subseteq past'
    PROVE  \A x, low : BalanceOf(x, low) => BalanceOf(x, low)'
BY DEF BalanceOf

LEMMA BalanceAsked ==
    ASSUME PastInv, NEW x, x.is \in Results(x.q), NEW low, low \subseteq entries
    PROVE  BalanceOf(x, low)
<1>1. ASSUME x.q[1] = "balance" PROVE BalanceOf(x, low)
  <2>1. x.is = compute_balance(entries, x.q[2], x.q[3])
    BY <1>1, ResultsIs, ZenonT(30)
  <2> QED BY <2>1 DEF BalanceOf, PastInv
<1> QED BY <1>1 DEF BalanceOf

\* A page of a statement: the account, the page, and then the balance of all its assets.
OfEveryAsset(q) == q[3] = ""
LedgerQuery(i, q) ==
    /\ i \in 1..3
    /\ q[1] = IF i = 1 THEN "exists" ELSE IF i = 2 THEN "page" ELSE "balance"
    /\ i = 3 => OfEveryAsset(q)

LedgerCall(todo, got) ==
    (\A i \in DOMAIN got : got[i].ok) =>
        /\ \A i \in DOMAIN todo : LedgerQuery(Len(got) + i, todo[i])
        /\ \A i \in DOMAIN got : LedgerQuery(i, got[i].q)
        /\ 3 \in DOMAIN got => BalanceOf(got[3], ToSet(got[2].is))

\* The sum of the users' funds: which accounts there are, and then the balance of each.
UserAccounts == {a \in DOMAIN AccountTable : AccountTable[a] = "user_custodial"}
Users == SetToSeq(UserAccounts)
SumQuery(asset, i, q) ==
    /\ i \in 1..(Len(Users) + 1)
    /\ q = IF i = 1 THEN <<"custodial", asset>> ELSE <<"balance", Users[i - 1], asset>>

SumOver(asset, todo, got) ==
    /\ Len(got) + Len(todo) = IF got = <<>> THEN 1 ELSE Len(Users) + 1
    /\ \A i \in DOMAIN todo : SumQuery(asset, Len(got) + i, todo[i])
    /\ \A i \in DOMAIN got : SumQuery(asset, i, got[i].q)

SumCall(todo, got) ==
    (\A i \in DOMAIN got : got[i].ok) => \E asset : SumOver(asset, todo, got)

\* Neither asks for anything else.
Addition == {"ledger", "user_custodial_sum"}
Additive(todo) ==
    \A i \in DOMAIN todo : todo[i][1] \in {"exists", "page", "custodial", "balance"}

CallSound(op, todo, got, since) ==
    /\ since \subseteq entries
    /\ \A i \in DOMAIN got : BalanceOf(got[i], since)
    /\ op \in Addition => Additive(todo)
    /\ op = "ledger" => LedgerCall(todo, got)
    /\ op = "user_custodial_sum" => SumCall(todo, got)

CallsSound == \A c \in Callers : CallSound(call[c].op, call[c].todo, call[c].got, call[c].since)

LEMMA CallStays ==
    ASSUME past \subseteq past', entries \subseteq entries'
    PROVE  \A op, todo, got, since :
              CallSound(op, todo, got, since) => CallSound(op, todo, got, since)'
<1>1. ASSUME NEW op, NEW todo, NEW got, NEW since, CallSound(op, todo, got, since)
      PROVE  CallSound(op, todo, got, since)'
  <2>1. since \subseteq entries'
    BY <1>1 DEF CallSound
  <2>2. \A i \in DOMAIN got : BalanceOf(got[i], since)'
    BY <1>1, BalanceStays DEF CallSound
  <2>3. ASSUME op = "ledger" PROVE LedgerCall(todo, got)'
    <3>1. LedgerCall(todo, got)
      BY <1>1, <2>3 DEF CallSound
    <3>2. \A low : BalanceOf(got[3], low) => BalanceOf(got[3], low)'
      BY BalanceStays
    <3> QED BY <3>1, <3>2 DEF LedgerCall, LedgerQuery, OfEveryAsset
  <2>4. ASSUME op = "user_custodial_sum" PROVE SumCall(todo, got)'
    BY <1>1, <2>4 DEF CallSound, SumCall, SumOver, SumQuery, Users, UserAccounts
  <2> QED BY <1>1, <2>1, <2>2, <2>3, <2>4 DEF CallSound, Additive
<1> QED BY <1>1

LEMMA CallStarts ==
    ASSUME StoreSound, NEW op, NEW todo, FirstQueries(op, todo), IsList(todo),
           NEW since, since \subseteq entries
    PROVE  CallSound(op, todo, <<>>, since)
<1>1. since \subseteq entries
  OBVIOUS
<1>2. CASE op \notin Addition
  BY <1>1, <1>2 DEF CallSound, Addition
<1>3. CASE op = "ledger"
  <2>1. PICK a, k : todo = PageQueries(a, k)
    BY <1>3 DEF FirstQueries
  <2>2. PICK any : todo = << <<"exists", a>>, <<"page", a, k>>, <<"balance", a, any>> >>
                   /\ OfEveryAsset(<<"balance", a, any>>)
    <3>1. \E any : PageQueries(a, k) = << <<"exists", a>>, <<"page", a, k>>, <<"balance", a, any>> >>
                   /\ any = ""
      BY Zenon DEF PageQueries
    <3> QED BY <2>1, <3>1 DEF OfEveryAsset
  <2>3. DOMAIN todo = 1..3 /\ todo[1][1] = "exists" /\ todo[2][1] = "page"
        /\ todo[3][1] = "balance" /\ OfEveryAsset(todo[3])
    BY <2>2
  <2>4. \A i \in DOMAIN todo : LedgerQuery(0 + i, todo[i])
    BY <2>3 DEF LedgerQuery
  <2>5. Len(<<>>) = 0 /\ DOMAIN <<>> = {}
    OBVIOUS
  <2>6. PICK none : none = <<>>
    OBVIOUS
  <2>7. LedgerCall(todo, none)
    BY <2>4, <2>5, <2>6 DEF LedgerCall
  <2>8. Additive(todo)
    BY <2>3 DEF Additive
  <2> QED BY <1>1, <1>3, <2>6, <2>7, <2>8 DEF CallSound
<1>4. CASE op = "user_custodial_sum"
  <2>1. PICK asset : todo = << <<"custodial", asset>> >>
    BY <1>4 DEF FirstQueries
  <2>2. DOMAIN todo = {1} /\ todo[1] = <<"custodial", asset>> /\ Len(todo) = 1
        /\ todo[1][1] = "custodial"
    BY <2>1
  <2>3. Len(Users) \in Nat
    <3>1. IsFiniteSet(UserAccounts)
      BY TableAssumption, FS_Subset DEF UserAccounts
    <3> QED BY <3>1, SetIsListed DEF Users
  <2>4. SumQuery(asset, 0 + 1, todo[1])
    BY <2>2, <2>3 DEF SumQuery
  <2>5. PICK none : none = <<>>
    OBVIOUS
  <2>6. Len(none) = 0 /\ DOMAIN none = {}
    BY <2>5
  <2>7. SumOver(asset, todo, none)
    BY <2>2, <2>4, <2>5, <2>6 DEF SumOver
  <2>8. Additive(todo)
    BY <2>2 DEF Additive
  <2> QED BY <1>1, <1>4, <2>5, <2>6, <2>7, <2>8 DEF CallSound, SumCall
<1> QED BY <1>2, <1>3, <1>4 DEF Addition

\* What a call has asked before is as it was when it has asked once more.
Learnt(todo, got, new, q, n) ==
    /\ n \in Nat /\ n = Len(got) /\ (got = <<>> <=> n = 0)
    /\ DOMAIN got = 1..n /\ DOMAIN new = 1..(n + 1) /\ Len(new) = n + 1
    /\ \A i \in 1..n : new[i] = got[i] /\ i \in DOMAIN new
    /\ \A i \in 1..(n + 1) : i \in 1..n \/ i = n + 1
    /\ new # <<>> /\ n + 1 \in DOMAIN new /\ new[n + 1].q = q
    /\ 1 \in DOMAIN todo /\ q = todo[1]
    /\ Len(todo) \in Nat \ {0} /\ Len(Tail(todo)) = Len(todo) - 1
    /\ \A i \in DOMAIN Tail(todo) :
          Tail(todo)[i] = todo[i + 1] /\ i + 1 \in DOMAIN todo /\ i \in Nat

LEMMA ListLearnt ==
    ASSUME CallsListed, NEW c \in Callers, NEW ok, NEW is, NEW rest, Learns(c, ok, is, rest)
    PROVE  \E n : /\ Learnt(call[c].todo, call[c].got, call'[c].got, Head(call[c].todo), n)
                  /\ \A i \in 1..n : call'[c].got[i] = call[c].got[i]
                  /\ n + 1 \in DOMAIN call'[c].got
                  /\ call'[c].got[n + 1] = [q |-> Head(call[c].todo), ok |-> ok, is |-> is]
<1>1. PICK todo, got, new, q, n :
          /\ todo = call[c].todo /\ got = call[c].got /\ new = call'[c].got /\ q = Head(todo)
          /\ n = Len(got)
  OBVIOUS
<1>2. /\ n \in Nat /\ DOMAIN got = 1..n /\ DOMAIN new = 1..(n + 1) /\ Len(new) = n + 1
      /\ \A i \in 1..n : new[i] = got[i]
      /\ new[n + 1] = [q |-> q, ok |-> ok, is |-> is]
      /\ \A i \in 1..(n + 1) : i \in 1..n \/ i = n + 1
  <2>1. \A k : k = Len(call[c].got) =>
            /\ k \in Nat /\ DOMAIN call[c].got = 1..k /\ DOMAIN call'[c].got = 1..(k + 1)
            /\ Len(call'[c].got) = k + 1
            /\ \A i \in 1..k : call'[c].got[i] = call[c].got[i]
            /\ call'[c].got[k + 1] = [q |-> Head(call[c].todo), ok |-> ok, is |-> is]
            /\ \A i \in 1..(k + 1) : i \in 1..k \/ i = k + 1
    BY ItemLearnt
  <2> QED BY <1>1, <2>1
<1>3. n + 1 \in 1..(n + 1) /\ \A i \in 1..n : i \in 1..(n + 1)
  BY <1>2
<1>4. new # <<>>
  BY <1>2, <1>3
<1>5. got = <<>> <=> n = 0
  BY <1>1 DEF CallsListed, IsList
<1>6. IsList(todo) /\ todo # <<>> /\ call'[c].todo = rest
  BY <1>1 DEF CallsListed, Learns
<1>7. /\ 1 \in DOMAIN todo /\ q = todo[1]
      /\ Len(todo) \in Nat \ {0} /\ Len(Tail(todo)) = Len(todo) - 1
      /\ \A i \in DOMAIN Tail(todo) :
            Tail(todo)[i] = todo[i + 1] /\ i + 1 \in DOMAIN todo /\ i \in Nat
  BY <1>1, <1>6, TailOfList
<1>8. new[n + 1].q = q
  BY <1>2
<1>9. \A i \in 1..n : new[i] = got[i] /\ i \in DOMAIN new
  BY <1>2, <1>3
<1>10. Learnt(todo, got, new, q, n)
  BY <1>1, <1>2, <1>3, <1>4, <1>5, <1>7, <1>8, <1>9 DEF Learnt
<1> QED BY <1>1, <1>2, <1>3, <1>10

LEMMA LedgerLearns ==
    ASSUME StoreSound, NEW todo, NEW got, NEW new, NEW q, NEW n, NEW rest,
           Learnt(todo, got, new, q, n),
           rest = Tail(todo) \/ rest = <<>>,
           \A i \in DOMAIN got : ItemTyped(got[i]),
           \A low : low \subseteq entries => BalanceOf(new[n + 1], low),
           LedgerCall(todo, got)
    PROVE  LedgerCall(rest, new)
<1> SUFFICES ASSUME \A i \in DOMAIN new : new[i].ok PROVE LedgerCall(rest, new)
  BY DEF LedgerCall
<1> USE DEF Learnt
<1>1. /\ \A i \in DOMAIN todo : LedgerQuery(n + i, todo[i])
      /\ \A i \in DOMAIN got : LedgerQuery(i, got[i].q)
      /\ 3 \in DOMAIN got => BalanceOf(got[3], ToSet(got[2].is))
  BY DEF LedgerCall
<1>2. LedgerQuery(n + 1, q)
  BY <1>1
<1>3. \A i \in DOMAIN new : LedgerQuery(i, new[i].q)
  BY <1>1, <1>2
<1>4. \A i \in DOMAIN rest : LedgerQuery((n + 1) + i, rest[i])
  <2>1. ASSUME NEW i \in DOMAIN Tail(todo) PROVE LedgerQuery((n + 1) + i, Tail(todo)[i])
    <3>1. LedgerQuery(n + (i + 1), todo[i + 1])
      BY <1>1
    <3>2. n + (i + 1) = (n + 1) + i
      OBVIOUS
    <3> QED BY <3>1, <3>2
  <2>2. rest = <<>> => DOMAIN rest = {}
    OBVIOUS
  <2> QED BY <2>1, <2>2
<1>5. ASSUME 3 \in DOMAIN new PROVE BalanceOf(new[3], ToSet(new[2].is))
  <2>1. CASE n = 2
    <3>1. 2 \in DOMAIN new /\ new[2].q[1] = "page" /\ new[2].ok
      BY <1>3, <2>1 DEF LedgerQuery
    <3>2. InSequence(new[2].is)
      <4>1. 2 \in DOMAIN got /\ new[2] = got[2]
        BY <2>1
      <4> QED BY <3>1, <4>1 DEF ItemTyped
    <3>3. ToSet(new[2].is) \subseteq entries
      BY <3>2 DEF InSequence
    <3> QED BY <2>1, <3>3
  <2>2. CASE n # 2
    <3>1. 3 \in 1..n /\ 2 \in 1..n
      BY <1>5, <2>2
    <3> QED BY <1>1, <3>1
  <2> QED BY <2>1, <2>2
<1> QED BY <1>3, <1>4, <1>5 DEF LedgerCall

LEMMA UsersListed ==
    /\ IsFiniteSet(UserAccounts) /\ Len(Users) \in Nat /\ IsList(Users)
    /\ DOMAIN Users = 1..Len(Users)
    /\ ToSet(Users) = UserAccounts
    /\ \A i, j \in DOMAIN Users : Users[i] = Users[j] => i = j
<1>1. IsFiniteSet(UserAccounts)
  BY TableAssumption, FS_Subset DEF UserAccounts
<1> QED BY <1>1, SetIsListed DEF Users

LEMMA SumLearns ==
    ASSUME StoreSound, NEW todo, NEW got, NEW new, NEW q, NEW n, NEW rest,
           Learnt(todo, got, new, q, n),
           q[1] = "balance" => rest = Tail(todo),
           q[1] = "custodial" => rest = [i \in DOMAIN Users |-> <<"balance", Users[i], q[2]>>],
           SumCall(todo, got)
    PROVE  SumCall(rest, new)
<1> SUFFICES ASSUME \A i \in DOMAIN new : new[i].ok PROVE \E asset : SumOver(asset, rest, new)
  BY DEF SumCall
<1> USE DEF Learnt
<1>1. PICK asset : SumOver(asset, todo, got)
  BY DEF SumCall
<1>2. /\ n + Len(todo) = IF n = 0 THEN 1 ELSE Len(Users) + 1
      /\ \A i \in DOMAIN todo : SumQuery(asset, n + i, todo[i])
      /\ \A i \in DOMAIN got : SumQuery(asset, i, got[i].q)
  BY <1>1 DEF SumOver
<1>3. SumQuery(asset, n + 1, q)
  BY <1>2
<1>4. \A i \in DOMAIN new : SumQuery(asset, i, new[i].q)
  BY <1>2, <1>3
<1>5. CASE n = 0
  <2>1. q = <<"custodial", asset>>
    BY <1>3, <1>5 DEF SumQuery
  <2>2. rest = [i \in DOMAIN Users |-> <<"balance", Users[i], asset>>]
    BY <2>1
  <2>3. PICK m \in Nat : m = Len(Users) /\ DOMAIN Users = 1..m
    BY UsersListed
  <2>4. DOMAIN rest = 1..m
    BY <2>2, <2>3
  <2>5. Len(rest) = m
    <3>1. rest = [i \in 1..m |-> rest[i]]
      BY <2>2, <2>3
    <3> QED BY <2>3, <3>1, FunctionIsList
  <2>6. ASSUME NEW i \in DOMAIN rest PROVE SumQuery(asset, 1 + i, rest[i])
    <3>1. i \in 1..m /\ 1 + i # 1 /\ (1 + i) - 1 = i /\ 1 + i \in 1..(m + 1)
      <4>1. i \in 1..m
        BY <2>4
      <4> HIDE DEF Learnt
      <4> QED BY ONLY <4>1, m \in Nat
    <3>2. rest[i] = <<"balance", Users[i], asset>>
      BY <2>2, <2>3, <3>1
    <3> QED BY <2>3, <3>1, <3>2 DEF SumQuery
  <2>7. SumOver(asset, rest, new)
    BY <1>4, <1>5, <2>3, <2>5, <2>6 DEF SumOver
  <2> QED BY <2>7
<1>6. CASE n # 0
  <2>1. q = <<"balance", Users[(n + 1) - 1], asset>>
    BY <1>3, <1>6 DEF SumQuery
  <2>2. rest = Tail(todo)
    BY <2>1
  <2>3. ASSUME NEW i \in DOMAIN rest PROVE SumQuery(asset, (n + 1) + i, rest[i])
    <3>1. SumQuery(asset, n + (i + 1), todo[i + 1]) /\ i \in Nat
      BY <1>2, <2>2
    <3>2. n + (i + 1) = (n + 1) + i
      BY <3>1
    <3> QED BY <2>2, <3>1, <3>2
  <2>4. (n + 1) + Len(rest) = Len(Users) + 1
    <3>1. PICK k, m : k = Len(todo) /\ m = Len(Users)
      OBVIOUS
    <3>2. k \in Nat /\ m \in Nat /\ n \in Nat /\ n + k = m + 1 /\ Len(rest) = k - 1
      BY <1>2, <1>6, <2>2, <3>1, UsersListed
    <3>3. (n + 1) + (k - 1) = m + 1
      BY <3>2
    <3> QED BY <3>1, <3>2, <3>3
  <2>5. SumOver(asset, rest, new)
    BY <1>4, <2>3, <2>4 DEF SumOver
  <2> QED BY <2>5
<1> QED BY <1>5, <1>6

\* What is added to the balances of a call was read after it began.
LEMMA BalancesLearnt ==
    ASSUME NEW todo, NEW got, NEW new, NEW q, NEW n, Learnt(todo, got, new, q, n), NEW since,
           \A i \in DOMAIN got : BalanceOf(got[i], since), BalanceOf(new[n + 1], since)
    PROVE  \A i \in DOMAIN new : BalanceOf(new[i], since)
BY DEF Learnt

\* Nothing but these queries follows in a call that adds up.
LEMMA AdditiveGoesOn ==
    ASSUME StoreSound, NEW todo, NEW got, NEW new, NEW q, NEW n, Learnt(todo, got, new, q, n),
           Additive(todo), NEW op, NEW is \in Results(q), NEW rest,
           rest = Following(op, q, is, Tail(todo))
    PROVE  /\ q[1] \in {"exists", "page", "custodial", "balance"}
           /\ Additive(rest) /\ Additive(Tail(todo)) /\ Additive(<<>>)
           /\ q[1] # "custodial" => rest = Tail(todo) \/ rest = <<>>
           /\ q[1] = "balance" => rest = Tail(todo)
           /\ q[1] = "custodial" => rest = [i \in DOMAIN Users |-> <<"balance", Users[i], q[2]>>]
<1>1. q[1] \in {"exists", "page", "custodial", "balance"}
  BY DEF Additive, Learnt
<1>2. Additive(Tail(todo))
  BY DEF Additive, Learnt
<1>3. Additive(<<>>)
  BY DEF Additive
<1>4. PICK left : left = Tail(todo)
  OBVIOUS
<1>5. rest = Following(op, q, is, left)
  BY <1>4
<1>6. CASE q[1] = "exists"
  <2>1. rest = left \/ rest = <<>>
    BY ONLY <1>6, <1>5, FollowingIs
  <2> QED BY <1>1, <1>2, <1>3, <1>6, <1>4, <2>1
<1>7. CASE q[1] \in {"page", "balance"}
  <2>1. rest = left
    BY ONLY <1>7, <1>5, FollowingIs
  <2> QED BY <1>1, <1>2, <1>3, <1>7, <1>4, <2>1
<1>8. CASE q[1] = "custodial"
  <2>1. is = Users
    <3>1. is \in CustodialQuery(q[2])
      BY <1>8, ResultsIs
    <3>2. CustodialQuery(q[2]) = {Users}
      BY Zenon DEF CustodialQuery, Users, UserAccounts
    <3> QED BY <3>1, <3>2
  <2>2. rest = [i \in DOMAIN Users |-> <<"balance", Users[i], q[2]>>]
    <3>1. rest = [i \in DOMAIN is |-> <<"balance", is[i], q[2]>>]
      BY <1>8, FollowingIs
    <3> QED BY <2>1, <3>1
  <2>3. Additive(rest)
    BY <2>2 DEF Additive
  <2> QED BY <1>1, <1>2, <1>3, <1>8, <2>2, <2>3
<1> QED BY <1>1, <1>6, <1>7, <1>8

LEMMA CallAsks ==
    ASSUME StoreSound, PastInv, ReadsTypes, CallsSound, NEW c \in Callers, Ask(c)
    PROVE  CallSound(call'[c].op, call'[c].todo, call'[c].got, call'[c].since)
<1>1. CallsListed /\ \A i \in DOMAIN call[c].got : ItemTyped(call[c].got[i])
  BY DEF ReadsTypes, ItemsTyped
<1>2. PICK q, todo, got, op, since :
          /\ todo = call[c].todo /\ got = call[c].got /\ op = call[c].op
          /\ since = call[c].since /\ q = Head(todo)
  OBVIOUS
<1>3. PICK is \in Results(q) : Learns(c, TRUE, is, Following(op, q, is, Tail(todo)))
  BY <1>1, <1>2, AskLearns
<1>4. PICK rest, new, ok : /\ rest = Following(op, q, is, Tail(todo))
                           /\ new = call'[c].got /\ ok = TRUE
  OBVIOUS
<1>5. Learns(c, ok, is, rest)
  BY <1>3, <1>4
<1>6. PICK n : /\ Learnt(call[c].todo, call[c].got, call'[c].got, Head(call[c].todo), n)
               /\ n + 1 \in DOMAIN call'[c].got
               /\ call'[c].got[n + 1] = [q |-> Head(call[c].todo), ok |-> ok, is |-> is]
  BY <1>1, <1>5, ListLearnt
<1>7. /\ Learnt(todo, got, new, q, n)
      /\ new[n + 1].q = q /\ new[n + 1].ok = ok /\ new[n + 1].is = is
  BY <1>2, <1>4, <1>6
<1>8. CallSound(op, todo, got, since)
  BY <1>2 DEF CallsSound
<1>9. \A low : low \subseteq entries => BalanceOf(new[n + 1], low)
  BY <1>7, BalanceAsked
<1>10. /\ since \subseteq entries
       /\ \A i \in DOMAIN new : BalanceOf(new[i], since)
  BY <1>7, <1>8, <1>9, BalancesLearnt DEF CallSound
<1>11. ASSUME op \in Addition
       PROVE  /\ q[1] \in {"exists", "page", "custodial", "balance"} /\ Additive(rest)
              /\ q[1] # "custodial" => rest = Tail(todo) \/ rest = <<>>
              /\ q[1] = "balance" => rest = Tail(todo)
              /\ q[1] = "custodial" => rest = [i \in DOMAIN Users |-> <<"balance", Users[i], q[2]>>]
  <2>1. Additive(todo)
    BY <1>8, <1>11 DEF CallSound
  <2> QED BY <1>4, <1>7, <2>1, AdditiveGoesOn
<1>12. ASSUME op = "ledger" PROVE LedgerCall(rest, new)
  <2>1. LedgerCall(todo, got)
    BY <1>8, <1>12 DEF CallSound
  <2>2. CASE q[1] # "custodial"
    <3>1. rest = Tail(todo) \/ rest = <<>>
      BY <1>11, <1>12, <2>2 DEF Addition
    <3>2. \A i \in DOMAIN got : ItemTyped(got[i])
      BY <1>1, <1>2
    <3> QED BY ONLY StoreSound, <1>7, <1>9, <2>1, <3>1, <3>2, LedgerLearns
  <2>3. CASE q[1] = "custodial"
    <3>1. ~\A i \in DOMAIN got : got[i].ok
      BY <1>7, <2>1, <2>3 DEF LedgerCall, Learnt, LedgerQuery
    <3>2. ~\A i \in DOMAIN new : new[i].ok
      BY <1>7, <3>1 DEF Learnt
    <3> QED BY <3>2 DEF LedgerCall
  <2> QED BY <2>2, <2>3
<1>13. ASSUME op = "user_custodial_sum" PROVE SumCall(rest, new)
  <2>1. SumCall(todo, got)
    BY <1>8, <1>13 DEF CallSound
  <2>2. /\ q[1] = "balance" => rest = Tail(todo)
        /\ q[1] = "custodial" => rest = [i \in DOMAIN Users |-> <<"balance", Users[i], q[2]>>]
    BY <1>11, <1>13 DEF Addition
  <2> QED BY ONLY StoreSound, <1>7, <2>1, <2>2, SumLearns
<1>14. CallSound(op, rest, new, since)
  BY <1>10, <1>11, <1>12, <1>13 DEF CallSound
<1>15. call'[c].op = op /\ call'[c].since = since /\ call'[c].todo = rest
  BY <1>2, <1>5 DEF Learns
<1> QED BY <1>4, <1>14, <1>15

LEMMA CallFails ==
    ASSUME StoreSound, ReadsTypes, CallsSound, NEW c \in Callers, AskFails(c)
    PROVE  CallSound(call'[c].op, call'[c].todo, call'[c].got, call'[c].since)
<1>1. CallsListed
  BY DEF ReadsTypes
<1>2. PICK q, todo, got, op, since :
          /\ todo = call[c].todo /\ got = call[c].got /\ op = call[c].op
          /\ since = call[c].since /\ q = Head(todo)
  OBVIOUS
<1>3. PICK is, rest, new, ok : /\ is = Default(q[1]) /\ rest = FollowingError(q, Tail(todo))
                               /\ new = call'[c].got /\ ok = FALSE
  OBVIOUS
<1>4. Learns(c, ok, is, rest)
  BY <1>1, <1>2, <1>3, FailureLearns
<1>5. PICK n : /\ Learnt(call[c].todo, call[c].got, call'[c].got, Head(call[c].todo), n)
               /\ n + 1 \in DOMAIN call'[c].got
               /\ call'[c].got[n + 1] = [q |-> Head(call[c].todo), ok |-> ok, is |-> is]
  BY <1>1, <1>4, ListLearnt
<1>6. Learnt(todo, got, new, q, n) /\ n + 1 \in DOMAIN new /\ ~new[n + 1].ok
  BY <1>2, <1>3, <1>5
<1>7. CallSound(op, todo, got, since)
  BY <1>2 DEF CallsSound
<1>8. BalanceOf(new[n + 1], since)
  BY <1>6 DEF BalanceOf
<1>9. /\ since \subseteq entries
      /\ \A i \in DOMAIN new : BalanceOf(new[i], since)
  BY <1>6, <1>7, <1>8, BalancesLearnt DEF CallSound
<1>10. ASSUME op \in Addition PROVE Additive(rest)
  <2>1. Additive(todo)
    BY <1>7, <1>10 DEF CallSound
  <2>2. Additive(Tail(todo)) /\ Additive(<<>>) /\ q[1] \in {"exists", "page", "custodial", "balance"}
    BY <1>6, <2>1 DEF Additive, Learnt
  <2>3. rest = Tail(todo) \/ rest = <<>>
    BY <1>3, <2>2, FollowingErrorIs
  <2> QED BY <2>2, <2>3
<1>11. LedgerCall(rest, new) /\ SumCall(rest, new)
  BY <1>6 DEF LedgerCall, SumCall
<1>12. CallSound(op, rest, new, since)
  BY <1>9, <1>10, <1>11 DEF CallSound
<1>13. call'[c].op = op /\ call'[c].since = since /\ call'[c].todo = rest
  BY <1>2, <1>4 DEF Learns
<1> QED BY <1>3, <1>12, <1>13

LEMMA CallsStep ==
    ASSUME StoreSound, NumberInv, PastInv, ReadsTypes, CallsSound,
           [ReadsNext]_<<store, reading>>
    PROVE  CallsSound'
<1>1. CallsListed /\ WalkTyped /\ DbInv
  BY DEF ReadsTypes, StoreSound
<1>2. ASSUME UNCHANGED <<vars, past>>
      PROVE  \A op, todo, got, since :
                CallSound(op, todo, got, since)' = CallSound(op, todo, got, since)
  BY <1>2 DEF CallSound, BalanceOf, Additive, LedgerCall, LedgerQuery, OfEveryAsset, SumCall,
              SumOver, SumQuery, Users, UserAccounts, vars, db
<1>3. ASSUME NEW c \in Callers, Alone(c), UNCHANGED <<vars, past>>,
             CallSound(call'[c].op, call'[c].todo, call'[c].got, call'[c].since)
      PROVE  CallsSound'
  <2>1. ASSUME NEW d \in Callers
        PROVE  CallSound(call'[d].op, call'[d].todo, call'[d].got, call'[d].since)
    BY <1>3 DEF Alone, CallsSound
  <2>2. ASSUME NEW d \in Callers
        PROVE  CallSound(call[d].op, call[d].todo, call[d].got, call[d].since)'
    <3>1. PICK op, todo, got, since : /\ op = call'[d].op /\ todo = call'[d].todo
                                      /\ got = call'[d].got /\ since = call'[d].since
      OBVIOUS
    <3>2. CallSound(op, todo, got, since)'
      BY <1>2, <1>3, <2>1, <3>1
    <3> QED BY <3>1, <3>2
  <2> QED BY <2>2 DEF CallsSound
<1>4. CASE [Next]_vars /\ UNCHANGED reading
  <2>1. NumberInv' /\ entries \subseteq entries'
    BY <1>4, NumbersGoOn
  <2>2. past \subseteq past'
    BY <2>1, PastGoesOn
  <2>3. \A op, todo, got, since :
            CallSound(op, todo, got, since) => CallSound(op, todo, got, since)'
    BY <2>1, <2>2, CallStays
  <2>4. call' = call
    BY <1>4 DEF reading
  <2> QED BY <2>3, <2>4 DEF CallsSound
<1>5. ASSUME NEW c \in Callers, Begins(c) PROVE CallsSound'
  <2>1. PICK op, todo : FirstQueries(op, todo) /\ IsList(todo) /\ Starts(c, op, todo)
    BY <1>1, <1>5, BeginsStarts
  <2>2. UNCHANGED <<vars, past>>
    BY <1>1, <1>5, BeginsStarts
  <2>3. PICK since : since = call'[c].since
    OBVIOUS
  <2>4. since \subseteq entries
    BY <2>1, <2>3 DEF Starts
  <2>5. CallSound(op, todo, <<>>, since)
    BY <2>1, <2>4, CallStarts
  <2>6. /\ call'[c].op = op /\ call'[c].todo = todo /\ call'[c].got = <<>> /\ Alone(c)
    BY <2>1 DEF Starts
  <2> QED BY <1>3, <2>2, <2>3, <2>5, <2>6
<1>6. ASSUME NEW c \in Callers, Ask(c) PROVE CallsSound'
  <2>1. Alone(c) /\ UNCHANGED <<vars, past>>
    BY <1>1, <1>6, AskLearns DEF Learns
  <2> QED BY <1>3, <1>6, <2>1, CallAsks
<1>7. ASSUME NEW c \in Callers, AskFails(c) PROVE CallsSound'
  <2>1. Alone(c) /\ UNCHANGED <<vars, past>>
    BY <1>1, <1>7, FailureLearns DEF Learns
  <2> QED BY <1>3, <1>7, <2>1, CallFails
<1>8. ASSUME NEW c \in Callers, InsertSnapshot(c) PROVE CallsSound'
  <2>1. Inserts(c) /\ Head(call[c].todo)[1] = "insert" /\ UNCHANGED <<vars, past>>
    BY <1>1, <1>8, InsertInserts
  <2>2. /\ Alone(c) /\ call'[c].op = call[c].op /\ call[c].todo # <<>>
        /\ call'[c].since = call[c].since /\ call'[c].got = <<>>
    BY <2>1 DEF Inserts
  <2>3. call[c].op \notin Addition
    <3>1. 1 \in DOMAIN call[c].todo /\ call[c].todo[1][1] = "insert"
      BY <1>1, <2>1, <2>2, TailOfList DEF CallsListed
    <3> QED BY <3>1 DEF CallsSound, CallSound, Additive
  <2>4. CallSound(call'[c].op, call'[c].todo, call'[c].got, call'[c].since)
    BY <2>2, <2>3 DEF CallsSound, CallSound, Addition
  <2> QED BY <1>3, <2>1, <2>2, <2>4
<1>9. ASSUME NEW c \in Callers, Answer(c) PROVE CallsSound'
  <2>1. /\ Alone(c) /\ call'[c].op = "none" /\ UNCHANGED <<vars, past>> /\ call'[c].todo = <<>>
        /\ call'[c].got = <<>>
    BY <1>1, <1>9, AnswerEnds
  <2>2. call'[c].since = {}
    BY <1>1, <1>9 DEF Answer, Idle, CallsListed
  <2>3. {} \subseteq entries
    OBVIOUS
  <2>4. CallSound(call'[c].op, call'[c].todo, call'[c].got, call'[c].since)
    BY <2>1, <2>2, <2>3 DEF CallSound, Addition
  <2> QED BY <1>3, <2>1, <2>4
<1> QED BY <1>4, <1>5, <1>6, <1>7, <1>8, <1>9, StepOfReads

\* What the pasts and the numbers are known for holds in every step.
LEMMA PastHolds == ReadsSpec => [](StoreSound /\ NumberInv /\ PastInv /\ ReadsTypes)
<1>1. ReadsInit => NumberInv /\ PastInv
  BY NumbersAtStart, PastAtStart DEF ReadsInit
<1>2. StoreSound /\ NumberInv /\ PastInv /\ [ReadsNext]_<<store, reading>> => NumberInv' /\ PastInv'
  <2> SUFFICES ASSUME StoreSound, NumberInv, PastInv, [ReadsNext]_<<store, reading>>
               PROVE  NumberInv' /\ PastInv'
    OBVIOUS
  <2>1. [Next]_vars
    BY StepOfStore
  <2>2. NumberInv' /\ entries \subseteq entries'
    BY <2>1, NumbersGoOn
  <2> QED BY <2>2, PastGoesOn
<1> QED BY <1>1, <1>2, ReadsTypesHold, PTL DEF ReadsSpec

LEMMA CallsSoundHold == ReadsSpec => [](StoreSound /\ PastInv /\ ReadsTypes /\ CallsSound)
<1>1. ReadsInit => CallsSound
  <2> SUFFICES ASSUME ReadsInit PROVE CallsSound
    OBVIOUS
  <2>1. call = [c \in Callers |-> Idle]
    BY DEF ReadsInit
  <2>2. \A c \in Callers : /\ call[c].op = "none" /\ call[c].todo = <<>> /\ call[c].got = <<>>
                           /\ call[c].since = {}
    BY <2>1 DEF Idle
  <2> QED BY <2>2 DEF CallsSound, CallSound, Addition
<1>2. StoreSound /\ NumberInv /\ PastInv /\ ReadsTypes /\ CallsSound /\ [ReadsNext]_<<store, reading>>
      => CallsSound'
  BY CallsStep
<1> QED BY <1>1, <1>2, PastHolds, PTL DEF ReadsSpec

WholeBalance(rows, account_id) == compute_balance(rows, account_id, "")

LEMMA BalanceOfAll ==
    ASSUME NEW q, OfEveryAsset(q), NEW rows
    PROVE  compute_balance(rows, q[2], q[3]) = WholeBalance(rows, q[2])
BY Zenon DEF OfEveryAsset, WholeBalance

\* The balance under a page of a statement is that of one moment and covers all the page
\* shows, though others commit postings between the query for the page and the one for
\* the balance (ledger_page_from_db).
THEOREM PageBalanceIsLater == ReadsSpec => []PageBalanceCoversPage
<1>1. StoreSound /\ ReadsTypes /\ CallsSound => PageBalanceCoversPage
  <2> SUFFICES ASSUME StoreSound, ReadsTypes, CallsSound, NEW c \in Callers,
                      Answering(c, "ledger"), NothingFailed(c), Got(c, "balance") # {}
               PROVE  \E rows \in past :
                         /\ ToSet(LastGot(c, "page").is) \subseteq rows
                         /\ LastGot(c, "balance").is
                              = WholeBalance(rows, LastGot(c, "balance").q[2])
    BY Zenon DEF PageBalanceCoversPage, WholeBalance
  <2>1. PICK got, n : got = call[c].got /\ n = Len(got)
    OBVIOUS
  <2>2. DOMAIN got = 1..n /\ n \in Nat
    BY <2>1 DEF ReadsTypes, CallsListed, IsList
  <2>3. LedgerCall(call[c].todo, got) /\ \A i \in DOMAIN got : got[i].ok
    BY <2>1 DEF CallsSound, CallSound, Answering, NothingFailed
  <2>4. /\ \A i \in DOMAIN got : LedgerQuery(i, got[i].q)
        /\ 3 \in DOMAIN got => BalanceOf(got[3], ToSet(got[2].is))
    BY <2>3 DEF LedgerCall
  <2>5. PICK i \in DOMAIN got : got[i].q[1] = "balance"
    BY <2>1 DEF Got
  <2>6. i = 3
    BY <2>4, <2>5 DEF LedgerQuery
  <2>7. 2 \in DOMAIN got /\ 3 \in DOMAIN got
    BY <2>2, <2>5, <2>6
  <2>8. LastGot(c, "balance") = got[3]
    <3>1. 3 \in Got(c, "balance")
      BY <2>1, <2>5, <2>6 DEF Got
    <3>2. \A k \in Got(c, "balance") : k \in Int /\ k <= 3
      BY <2>1, <2>4 DEF Got, LedgerQuery
    <3> QED BY <2>1, <3>1, <3>2, LastOfKind
  <2>9. LastGot(c, "page") = got[2]
    <3>1. got[2].q[1] = "page"
      BY <2>4, <2>7 DEF LedgerQuery
    <3>2. 2 \in Got(c, "page")
      BY <2>1, <2>7, <3>1 DEF Got
    <3>3. \A k \in Got(c, "page") : k \in Int /\ k <= 2
      BY <2>1, <2>4 DEF Got, LedgerQuery
    <3> QED BY <2>1, <3>2, <3>3, LastOfKind
  <2>10. BalanceOf(got[3], ToSet(got[2].is)) /\ OfEveryAsset(got[3].q) /\ got[3].ok
         /\ got[3].q[1] = "balance"
    BY <2>3, <2>4, <2>5, <2>6, <2>7 DEF LedgerQuery
  <2>11. PICK rows \in past : /\ ToSet(got[2].is) \subseteq rows
                              /\ got[3].is = compute_balance(rows, got[3].q[2], got[3].q[3])
    BY <2>10 DEF BalanceOf
  <2>12. got[3].is = WholeBalance(rows, got[3].q[2])
    BY <2>10, <2>11, BalanceOfAll
  <2> QED BY <2>8, <2>9, <2>11, <2>12
<1> QED BY <1>1, CallsSoundHold, PTL

\* What a call got, added up; the balances of some accounts at a moment each, added up.
ItemsSum(got, S) == MapThenSumSet(LAMBDA i : got[i].is, S)
MomentsSum(n, asset, S) == MapThenSumSet(LAMBDA a : compute_balance(n[a], a, asset), S)

LEMMA ItemSum ==
    ASSUME NEW got, NEW f, NEW S, IsFiniteSet(S), \A x \in S : f[x] \in Int /\ f[x] = got[x].is
    PROVE  ItemsSum(got, S) = Sum(f, S)
<1> DEFINE cell(g, s) == IF s = {} THEN 0
                         ELSE got[CHOOSE x \in s : TRUE].is + g[s \ {CHOOSE x \in s : TRUE}]
           same(g, s) == IF s = {} THEN 0
                         ELSE f[CHOOSE x \in s : TRUE] + g[s \ {CHOOSE x \in s : TRUE}]
           P(g) == g = [s \in SUBSET S |-> cell(g, s)]
<1>1. ItemsSum(got, S) = (CHOOSE g : P(g))[S]
  BY DEF ItemsSum, MapThenSumSet, MapThenFoldSet
<1>2. ASSUME NEW g PROVE P(g) <=> IsTable(g, f, S)
  <2>1. \A s \in SUBSET S : cell(g, s) = same(g, s)
    OBVIOUS
  <2>2. IsTable(g, f, S) <=> g = [s \in SUBSET S |-> same(g, s)]
    BY DEF IsTable
  <2> HIDE DEF cell, same
  <2> QED BY <2>1, <2>2
<1> HIDE DEF P
<1>3. PICK g : IsTable(g, f, S) /\ ItemsSum(got, S) = g[S]
  BY <1>1, <1>2, TableExists
<1> QED BY <1>3, SumOfTable

LEMMA MomentSum ==
    ASSUME NEW n, NEW asset, NEW f, NEW S, IsFiniteSet(S),
           \A x \in S : f[x] \in Int /\ f[x] = compute_balance(n[x], x, asset)
    PROVE  MomentsSum(n, asset, S) = Sum(f, S)
<1> DEFINE cell(g, s) == IF s = {} THEN 0
                         ELSE compute_balance(n[CHOOSE x \in s : TRUE],
                                              CHOOSE x \in s : TRUE, asset)
                              + g[s \ {CHOOSE x \in s : TRUE}]
           same(g, s) == IF s = {} THEN 0
                         ELSE f[CHOOSE x \in s : TRUE] + g[s \ {CHOOSE x \in s : TRUE}]
           P(g) == g = [s \in SUBSET S |-> cell(g, s)]
<1>1. MomentsSum(n, asset, S) = (CHOOSE g : P(g))[S]
  BY DEF MomentsSum, MapThenSumSet, MapThenFoldSet
<1>2. ASSUME NEW g PROVE P(g) <=> IsTable(g, f, S)
  <2>1. \A s \in SUBSET S : cell(g, s) = same(g, s)
    OBVIOUS
  <2>2. IsTable(g, f, S) <=> g = [s \in SUBSET S |-> same(g, s)]
    BY DEF IsTable
  <2> HIDE DEF cell, same
  <2> QED BY <2>1, <2>2
<1> HIDE DEF P
<1>3. PICK g : IsTable(g, f, S) /\ MomentsSum(n, asset, S) = g[S]
  BY <1>1, <1>2, TableExists
<1> QED BY <1>3, SumOfTable

LEMMA BalanceOfMoment ==
    ASSUME StoreSound, PastInv
    PROVE  \A n \in past : \A a, asset : compute_balance(n, a, asset) \in Int
<1>1. ASSUME NEW n \in past, NEW a, NEW asset PROVE compute_balance(n, a, asset) \in Int
  <2>1. n \in SUBSET entries
    BY DEF PastInv
  <2>2. IsFiniteSet(n) /\ \A e \in n : e.amount \in Nat
    BY <2>1, FS_Subset DEF StoreSound, DbInv, DbTypes, EntryRecords
  <2> QED BY ONLY <2>2, BalanceType
<1> QED BY <1>1

AllAnswered(got, since) == \A i \in DOMAIN got : got[i].ok /\ BalanceOf(got[i], since)

\* Which accounts there are, and then the balance of each at some moment.
BalancesGot(asset, got, since, m) ==
    /\ DOMAIN got = 1..(m + 1)
    /\ got[1].q = <<"custodial", asset>>
    /\ \A i \in 1..m :
          /\ got[i + 1].q[1] = "balance"
          /\ \E n \in past :
                since \subseteq n /\ got[i + 1].is = compute_balance(n, Users[i], asset)

\* What answers the call that has asked for all: the balances of the users, one each.
LEMMA BalancesOfUsers ==
    ASSUME StoreSound, NEW todo, todo = <<>>, NEW got, NEW since, NEW asset,
           SumOver(asset, todo, got), IsList(got), AllAnswered(got, since),
           NEW m \in Nat, m = Len(Users)
    PROVE  BalancesGot(asset, got, since, m)
<1>1. Len(got) \in Nat /\ DOMAIN got = 1..Len(got)
  BY DEF IsList
<1>2. Len(got) = m + 1
  <2>1. Len(todo) = 0
    OBVIOUS
  <2>2. got # <<>>
    <3>1. ASSUME got = <<>> PROVE FALSE
      <4>1. Len(got) = 0
        BY <3>1
      <4> QED BY <2>1, <3>1, <4>1 DEF SumOver
    <3> QED BY <3>1
  <2> QED BY <1>1, <2>1, <2>2 DEF SumOver
<1>3. \A i \in DOMAIN got : SumQuery(asset, i, got[i].q)
  BY DEF SumOver
<1>4. DOMAIN got = 1..(m + 1)
  BY <1>1, <1>2
<1>5. got[1].q = <<"custodial", asset>>
  <2>1. 1 \in DOMAIN got
    BY <1>4
  <2> QED BY <1>3, <2>1 DEF SumQuery
<1>6. ASSUME NEW i \in 1..m
      PROVE  /\ got[i + 1].q[1] = "balance"
             /\ \E n \in past :
                   /\ since \subseteq n
                   /\ got[i + 1].is = compute_balance(n, Users[i], asset)
  <2>1. PICK k : k = i + 1
    OBVIOUS
  <2>2. k \in 1..(m + 1) /\ k # 1 /\ k - 1 = i
    BY <2>1
  <2>3. got[k].q = <<"balance", Users[i], asset>>
    BY <1>3, <1>4, <2>2 DEF SumQuery
  <2>4. got[k].ok /\ BalanceOf(got[k], since)
    BY <1>4, <2>2 DEF AllAnswered
  <2>5. PICK n \in past : /\ since \subseteq n
                             /\ got[k].is = compute_balance(n, got[k].q[2], got[k].q[3])
    BY <2>3, <2>4 DEF BalanceOf
  <2>6. got[k].q[2] = Users[i] /\ got[k].q[3] = asset /\ got[k].q[1] = "balance"
    BY <2>3
  <2> QED BY <2>1, <2>5, <2>6
<1> QED BY <1>4, <1>5, <1>6 DEF BalancesGot

\* Each account has its place among them, and is summed as at its moment.
Summed(got, asset, place, n, m) ==
    /\ place \in [UserAccounts -> 1..m] /\ n \in [UserAccounts -> past]
    /\ \A a \in UserAccounts :
          /\ Users[place[a]] = a
          /\ got[place[a] + 1].is = compute_balance(n[a], a, asset)

\* So each is summed once.
LEMMA SumsAgree ==
    ASSUME StoreSound, PastInv, NEW got, NEW asset, NEW n, NEW place, NEW m \in Nat, m = Len(Users),
           Summed(got, asset, place, n, m)
    PROVE  ItemsSum(got, 2..(m + 1)) = MomentsSum(n, asset, UserAccounts)
<1> DEFINE c == [a \in UserAccounts |-> compute_balance(n[a], a, asset)]
           row == [a \in UserAccounts |-> place[a] + 1]
           f == [i \in 2..(m + 1) |-> got[i].is]
           K == {row[a] : a \in UserAccounts}
<1> USE DEF Summed
<1>1. IsFiniteSet(UserAccounts) /\ IsFiniteSet(2..(m + 1))
  BY UsersListed, FS_Interval
<1>2. ASSUME NEW a \in UserAccounts
      PROVE  /\ c[a] \in Int /\ c[a] = compute_balance(n[a], a, asset)
             /\ row[a] \in 2..(m + 1) /\ row[a] = place[a] + 1
  <2>1. c[a] \in Int /\ c[a] = compute_balance(n[a], a, asset)
    BY BalanceOfMoment
  <2>2. place[a] \in 1..m
    OBVIOUS
  <2>3. row[a] = place[a] + 1
    OBVIOUS
  <2> HIDE DEF row, c
  <2> QED BY <2>1, <2>2, <2>3
<1>3. ASSUME NEW i \in 2..(m + 1) PROVE \E a \in UserAccounts : row[a] = i
  <2>1. PICK j : j = i - 1
    OBVIOUS
  <2>2. j \in 1..m /\ j + 1 = i
    BY <2>1
  <2>3. Users[j] \in UserAccounts /\ j \in DOMAIN Users /\ DOMAIN Users = 1..m
    BY <2>2, UsersListed DEF ToSet
  <2>4. PICK a \in UserAccounts : a = Users[j]
    BY <2>3
  <2>5. Users[place[a]] = Users[j] /\ place[a] \in DOMAIN Users
    BY <2>3, <2>4
  <2>6. place[a] = j
    BY <2>3, <2>5, UsersListed
  <2>7. row[a] = place[a] + 1
    BY <1>2
  <2> HIDE DEF row
  <2> QED BY <2>2, <2>6, <2>7
<1>4. K = 2..(m + 1)
  <2>1. \A a \in UserAccounts : row[a] \in 2..(m + 1)
    BY <1>2
  <2> HIDE DEF row
  <2> QED BY <1>3, <2>1, SMTT(30)
<1>5. \A a, b \in UserAccounts : row[a] = row[b] => a = b
  <2>1. ASSUME NEW a \in UserAccounts, NEW b \in UserAccounts, row[a] = row[b] PROVE a = b
    <3>1. place[a] + 1 = place[b] + 1 /\ place[a] \in 1..m /\ place[b] \in 1..m
      BY <1>2, <2>1
    <3>2. place[a] = place[b]
      BY <3>1
    <3>3. Users[place[a]] = a /\ Users[place[b]] = b
      OBVIOUS
    <3> QED BY <3>2, <3>3
  <2> QED BY <2>1
<1>6. \A a \in UserAccounts : c[a] = f[row[a]]
  <2>1. \A i \in 2..(m + 1) : f[i] = got[i].is
    OBVIOUS
  <2>2. ASSUME NEW a \in UserAccounts PROVE c[a] = f[row[a]]
    <3>1. f[row[a]] = got[row[a]].is
      BY <1>2, <2>1
    <3>2. got[place[a] + 1].is = compute_balance(n[a], a, asset)
      OBVIOUS
    <3> QED BY <1>2, <3>1, <3>2
  <2> QED BY <2>2
<1>7. \A i \in 2..(m + 1) : f[i] \in Int /\ f[i] = got[i].is
  <2>1. ASSUME NEW i \in 2..(m + 1) PROVE f[i] \in Int
    <3>1. PICK a \in UserAccounts : row[a] = i
      BY <1>3
    <3> QED BY <1>2, <1>6, <3>1
  <2> QED BY <2>1
<1> HIDE DEF c, row, f
<1>8. Sum(f, K) = Sum(c, UserAccounts)
  <2>1. \A a \in UserAccounts : c[a] \in Int /\ c[a] = f[row[a]]
    BY <1>2, <1>6
  <2> QED BY ONLY <1>1, <1>5, <2>1, SumByName
<1>9. ItemsSum(got, 2..(m + 1)) = Sum(f, 2..(m + 1))
  <2>1. PICK S : S = 2..(m + 1)
    OBVIOUS
  <2>2. IsFiniteSet(S) /\ \A i \in S : f[i] \in Int /\ f[i] = got[i].is
    BY <1>1, <1>7, <2>1
  <2>3. ItemsSum(got, S) = Sum(f, S)
    BY ONLY <2>2, ItemSum
  <2> QED BY <2>1, <2>3
<1>10. MomentsSum(n, asset, UserAccounts) = Sum(c, UserAccounts)
  <2>1. \A a \in UserAccounts : /\ c[a] \in Int
                                /\ c[a] = compute_balance(n[a], a, asset)
    BY <1>2
  <2> QED BY ONLY <1>1, <2>1, MomentSum
<1> HIDE DEF K
<1> QED BY <1>4, <1>8, <1>9, <1>10

\* The sum of the users' funds counts each account once, as it was at some moment after
\* the call began, whoever commits meanwhile (user_custodial_sum).
THEOREM CustodialSumIsOfMoments == ReadsSpec => []CustodialSumInWindow
<1>1. StoreSound /\ PastInv /\ ReadsTypes /\ CallsSound => CustodialSumInWindow
  <2> SUFFICES ASSUME StoreSound, PastInv, ReadsTypes, CallsSound, NEW c \in Callers,
                      Answering(c, "user_custodial_sum"), NothingFailed(c)
               PROVE  \E n \in [UserAccounts -> {k \in past : call[c].since \subseteq k}] :
                         ItemsSum(call[c].got, Got(c, "balance"))
                            = MomentsSum(n, LastGot(c, "custodial").q[2], UserAccounts)
    BY DEF CustodialSumInWindow, ItemsSum, MomentsSum, UserAccounts
  <2>1. PICK got, since, m : got = call[c].got /\ since = call[c].since /\ m = Len(Users)
    OBVIOUS
  <2>2. m \in Nat /\ DOMAIN Users = 1..m /\ ToSet(Users) = UserAccounts
    BY <2>1, UsersListed
  <2>3. IsList(got) /\ \A i \in DOMAIN got : got[i].ok /\ BalanceOf(got[i], since)
    BY <2>1 DEF ReadsTypes, CallsListed, CallsSound, CallSound, NothingFailed
  <2>4. PICK todo, asset : todo = <<>> /\ SumOver(asset, todo, got)
    <3>1. SumCall(call[c].todo, got) /\ call[c].todo = <<>>
      BY <2>1 DEF CallsSound, CallSound, Answering
    <3> QED BY <2>3, <3>1 DEF SumCall
  <2>5. BalancesGot(asset, got, since, m)
    <3>1. AllAnswered(got, since)
      BY <2>3 DEF AllAnswered
    <3> QED BY ONLY StoreSound, <2>1, <2>2, <2>3, <2>4, <3>1, BalancesOfUsers
  <2>6. /\ DOMAIN got = 1..(m + 1)
        /\ got[1].q = <<"custodial", asset>>
        /\ \A i \in 1..m :
              /\ got[i + 1].q[1] = "balance"
              /\ \E n \in past :
                    since \subseteq n /\ got[i + 1].is = compute_balance(n, Users[i], asset)
    BY <2>5 DEF BalancesGot
  <2>7. ASSUME NEW i \in 1..(m + 1) PROVE i = 1 \/ got[i].q[1] = "balance"
    <3>1. PICK j : j = i - 1
      OBVIOUS
    <3>2. i = 1 \/ (j \in 1..m /\ j + 1 = i)
      BY <2>2, <3>1
    <3> QED BY <2>6, <3>2
  <2>8. got[1].q[1] = "custodial" /\ got[1].q[2] = asset /\ 1 \in DOMAIN got
    BY <2>2, <2>6
  <2>9. Got(c, "balance") = 2..(m + 1)
    <3>1. Got(c, "balance") = {i \in 1..(m + 1) : got[i].q[1] = "balance"}
      BY <2>1, <2>6 DEF Got
    <3>2. \A i \in 1..(m + 1) : i # 1 <=> i \in 2..(m + 1)
      BY <2>2
    <3>3. \A i \in 2..(m + 1) : i \in 1..(m + 1)
      BY <2>2
    <3> QED BY <2>7, <2>8, <3>1, <3>2, <3>3
  <2>10. LastGot(c, "custodial") = got[1]
    <3>1. 1 \in Got(c, "custodial")
      BY <2>1, <2>8 DEF Got
    <3>2. \A k \in Got(c, "custodial") : k \in Int /\ k <= 1
      <4>1. ASSUME NEW k \in Got(c, "custodial") PROVE k = 1
        BY <2>1, <2>6, <2>7 DEF Got
      <4> QED BY <4>1
    <3> QED BY <2>1, <3>1, <3>2, LastOfKind
  <2> DEFINE Fits(a, i, k) == /\ i \in 1..m /\ Users[i] = a /\ k \in past /\ since \subseteq k
                              /\ got[i + 1].is = compute_balance(k, a, asset)
             Place(a) == CHOOSE i : \E k : Fits(a, i, k)
             Moment(a) == CHOOSE k : Fits(a, Place(a), k)
  <2>11. ASSUME NEW a \in UserAccounts PROVE \E i : \E k : Fits(a, i, k)
    <3>1. PICK i \in 1..m : Users[i] = a
      BY <2>2 DEF ToSet
    <3>2. PICK k \in past : /\ since \subseteq k
                               /\ got[i + 1].is = compute_balance(k, Users[i], asset)
      BY <2>6
    <3> QED BY <3>1, <3>2
  <2>12. ASSUME NEW a \in UserAccounts PROVE Fits(a, Place(a), Moment(a))
    <3> HIDE DEF Fits
    <3>1. \E k : Fits(a, Place(a), k)
      BY <2>11
    <3> QED BY <3>1
  <2>13. \A a \in UserAccounts :
            /\ Place(a) \in 1..m /\ Users[Place(a)] = a
            /\ Moment(a) \in {k \in past : since \subseteq k}
            /\ got[Place(a) + 1].is = compute_balance(Moment(a), a, asset)
    <3> HIDE DEF Place, Moment
    <3> QED BY <2>12
  <2> HIDE DEF Place, Moment, Fits
  <2>14. PICK place, n : /\ place = [a \in UserAccounts |-> Place(a)]
                         /\ n = [a \in UserAccounts |-> Moment(a)]
    OBVIOUS
  <2>15. n \in [UserAccounts -> {k \in past : since \subseteq k}]
    BY <2>13, <2>14
  <2>16. Summed(got, asset, place, n, m)
    BY <2>13, <2>14, <2>15 DEF Summed
  <2>17. ItemsSum(got, 2..(m + 1)) = MomentsSum(n, asset, UserAccounts)
    BY ONLY StoreSound, PastInv, <2>1, <2>2, <2>16, SumsAgree
  <2> QED BY <2>1, <2>8, <2>9, <2>10, <2>15, <2>17
<1> QED BY <1>1, CallsSoundHold, PTL

-----------------------------------------------------------------------------
(* Snapshots.  What write_snapshots puts together is the balance of one    *)
(* moment and the last entry of a later one; the delta goes on from there. *)

\* The request that made an entry is in its id, and so no two have the same.
LEMMA EntryIdsDiffer ==
    ASSUME StoreSound
    PROVE  /\ \A e, x \in entries : e.entry_id = x.entry_id => e = x
           /\ \A e \in entries : e.entry_id # NoEntryId
<1>1. ASSUME NEW e \in entries
      PROVE  \E r \in Requests, k \in Nat : e = Created(r)[k] /\ e.entry_id = <<r, k>>
  BY RowOfWriter DEF StoreSound
<1>2. ASSUME NEW e \in entries, NEW x \in entries, e.entry_id = x.entry_id PROVE e = x
  <2>1. PICK r \in Requests, k \in Nat : e = Created(r)[k] /\ e.entry_id = <<r, k>>
    BY <1>1
  <2>2. PICK q \in Requests, j \in Nat : x = Created(q)[j] /\ x.entry_id = <<q, j>>
    BY <1>1
  <2>3. r = q /\ k = j
    BY <1>2, <2>1, <2>2
  <2> QED BY <2>1, <2>2, <2>3
<1>3. \A e \in entries : e.entry_id # NoEntryId
  BY <1>1, RequestsAssumption DEF NoEntryId
<1> QED BY <1>2, <1>3

\* The entry is one of the account and asset, "" being every asset.
Mine(e, account_id, asset) == e.account_id = account_id /\ (asset = "" \/ e.asset = asset)
MineOf(rows, account_id, asset) == {e \in rows : Mine(e, account_id, asset)}
EffectsOf(rows) == MapThenSumSet(Effect, rows)

LEMMA AccountRowsAre == \A a, s : AccountRows(a, s) = {e \in entries : Mine(e, a, s)}
BY Zenon DEF AccountRows, Mine

\* Other rows do not change the balance.
LEMMA BalanceOfMine ==
    ASSUME NEW A, NEW B, NEW a, NEW s, \A e : Mine(e, a, s) => (e \in A <=> e \in B)
    PROVE  compute_balance(A, a, s) = compute_balance(B, a, s)
<1>1. \A S : compute_balance(S, a, s) = EffectsOf(MineOf(S, a, s))
  BY Zenon DEF compute_balance, EffectsOf, MineOf, Mine
<1>2. MineOf(A, a, s) = MineOf(B, a, s)
  BY DEF MineOf
<1> QED BY <1>1, <1>2

\* The last entry of an account that a snapshot names: none was later at that moment.
LastTrue(id, rows, a, s) ==
    \E e \in rows : /\ e.entry_id = id
                    /\ \A x \in rows : Mine(x, a, s) => x.sequence_number <= e.sequence_number

\* A snapshot: the balance of a moment, the last entry of one that was not before.
SnapshotTrue(balance, id, a, s) ==
    \E before, last \in past : /\ before \subseteq last
                               /\ balance = compute_balance(before, a, s)
                               /\ LastTrue(id, last, a, s)

\* The number of that last entry, and what there is after it.
AllUpTo(n, rows, a, s) ==
    /\ \E e \in rows : e.sequence_number = n
    /\ \A x \in rows : Mine(x, a, s) => x.sequence_number <= n
NumberTrue(balance, n, a, s) ==
    \E before, last \in past : /\ before \subseteq last
                               /\ balance = compute_balance(before, a, s)
                               /\ AllUpTo(n, last, a, s)

\* The answer: what there was before, and what came since, ties apart.
AnswerTrue(answer, a, s, low) ==
    \E before, last, end \in past :
        /\ before \subseteq last /\ last \subseteq end /\ low \subseteq end
        /\ \E since \in SUBSET (end \ last) :
              /\ \A e \in (end \ last) \ since : SharesItsNumber(e)
              /\ answer = compute_balance(before \cup since, a, s)

\* All that stays true.
LEMMA SnapshotsStayTrue ==
    ASSUME past \subseteq past', entries \subseteq entries'
    PROVE  /\ \A b, id, a, s : SnapshotTrue(b, id, a, s) => SnapshotTrue(b, id, a, s)'
           /\ \A b, n, a, s : NumberTrue(b, n, a, s) => NumberTrue(b, n, a, s)'
           /\ \A b, a, s, low : AnswerTrue(b, a, s, low) => AnswerTrue(b, a, s, low)'
<1>1. \A b, id, a, s : SnapshotTrue(b, id, a, s) => SnapshotTrue(b, id, a, s)'
  BY DEF SnapshotTrue
<1>2. \A b, n, a, s : NumberTrue(b, n, a, s) => NumberTrue(b, n, a, s)'
  BY DEF NumberTrue
<1>3. \A e : SharesItsNumber(e) => SharesItsNumber(e)'
  BY DEF SharesItsNumber
<1>4. ASSUME NEW b, NEW a, NEW s, NEW low, AnswerTrue(b, a, s, low)
      PROVE  AnswerTrue(b, a, s, low)'
  <2>1. PICK before \in past, last \in past, end \in past :
            /\ before \subseteq last /\ last \subseteq end /\ low \subseteq end
            /\ \E since \in SUBSET (end \ last) :
                  /\ \A e \in (end \ last) \ since : SharesItsNumber(e)
                  /\ b = compute_balance(before \cup since, a, s)
    BY <1>4 DEF AnswerTrue
  <2>2. before \in past' /\ last \in past' /\ end \in past'
    OBVIOUS
  <2>3. \E since \in SUBSET (end \ last) :
            /\ \A e \in (end \ last) \ since : SharesItsNumber(e)'
            /\ b = compute_balance(before \cup since, a, s)
    BY <1>3, <2>1
  <2> QED BY <2>1, <2>2, <2>3 DEF AnswerTrue
<1> QED BY <1>1, <1>2, <1>4

\* An entry is named: that is so unless the query for it found none, or failed.
NamesOne(id) == id # NoEntryId

\* The last entry, asked for after the balance.
LEMMA LastAsked ==
    ASSUME StoreSound, PastInv, NEW q, q[1] = "last", NEW is \in Results(q), NamesOne(is),
           NEW b, NEW before \in past, b = compute_balance(before, q[2], q[3])
    PROVE  SnapshotTrue(b, is, q[2], q[3])
<1>1. PICK a, s : a = q[2] /\ s = q[3]
  OBVIOUS
<1>2. entries \in past /\ before \subseteq entries
  BY DEF PastInv
<1>3. LastTrue(is, entries, a, s)
  <2>1. is \in LastEntryQuery(a, s)
    BY <1>1, ResultsIs
  <2>2. PICK rows : rows = AccountRows(a, s)
    OBVIOUS
  <2>3. rows \in SUBSET entries /\ \A e \in entries : Mine(e, a, s) <=> e \in rows
    BY <2>2, AccountRowsAre
  <2>4. rows # {}
    BY <2>1, <2>2 DEF LastEntryQuery, NamesOne
  <2>5. PICK e \in rows : is = e.entry_id /\ e.sequence_number = LastNumber(rows)
    BY <2>1, <2>2, <2>4 DEF LastEntryQuery
  <2>6. \A y \in rows : y.sequence_number <= LastNumber(rows)
    BY <2>3, LastNumberIs
  <2> QED BY <2>3, <2>5, <2>6 DEF LastTrue
<1> QED BY <1>1, <1>2, <1>3 DEF SnapshotTrue

\* Its number, as sequence_of says.
LEMMA NumberAsked ==
    ASSUME StoreSound, PastInv, NEW b, NEW id, NEW a, NEW s, SnapshotTrue(b, id, a, s)
    PROVE  NumberTrue(b, SequenceOf(id), a, s)
<1>1. PICK before \in past, last \in past :
          /\ before \subseteq last /\ b = compute_balance(before, a, s)
          /\ LastTrue(id, last, a, s)
  BY DEF SnapshotTrue
<1>2. PICK e \in last : /\ e.entry_id = id
                        /\ \A x \in last : Mine(x, a, s) => x.sequence_number <= e.sequence_number
  BY <1>1 DEF LastTrue
<1>3. PICK S : S = {x \in entries : x.entry_id = id}
  OBVIOUS
<1>4. SequenceOf(id) = LastNumber(S) /\ S \in SUBSET entries
  BY <1>3 DEF SequenceOf
<1>5. e \in entries
  BY DEF PastInv
<1>6. S = {e}
  BY <1>2, <1>3, <1>5, EntryIdsDiffer
<1>7. LastNumber(S) = e.sequence_number
  BY <1>4, <1>6, LastNumberIs
<1>8. AllUpTo(LastNumber(S), last, a, s)
  BY <1>2, <1>7 DEF AllUpTo
<1> QED BY <1>1, <1>4, <1>8 DEF NumberTrue

\* The delta after that number misses, of what came since, only entries with a number
\* that was taken before.
LEMMA DeltaAsked ==
    ASSUME StoreSound, NumberInv, PastInv, NEW b, NEW n, NEW a, NEW s, NumberTrue(b, n, a, s),
           NEW is \in DeltaQuery(a, s, n), NEW low, low \subseteq entries
    PROVE  AnswerTrue(b + is, a, s, low)
<1>1. PICK before \in past, last \in past :
          /\ before \subseteq last /\ b = compute_balance(before, a, s)
          /\ AllUpTo(n, last, a, s)
  BY DEF NumberTrue
<1>2. PICK e0 \in last : e0.sequence_number = n
  BY <1>1 DEF AllUpTo
<1>3. \A x \in last : Mine(x, a, s) => x.sequence_number <= n
  BY <1>1 DEF AllUpTo
<1>4. entries \in past /\ last \subseteq entries /\ before \subseteq entries /\ FillsUp(last)
  BY DEF PastInv
<1>5. \A e \in entries : /\ e.sequence_number \in Nat /\ e.amount \in Nat
                         /\ e.sequence_number >= 1
  BY DEF StoreSound, DbInv, DbTypes, EntryRecords, NumberInv
<1>6. n \in Nat
  BY <1>2, <1>4, <1>5
<1>7. PICK D, since : /\ D = {e \in entries : e.sequence_number > n}
                      /\ since = {e \in entries \ last : e.sequence_number > n \/ ~Mine(e, a, s)}
  OBVIOUS
<1>8. is = compute_balance(D, a, s)
  BY <1>7 DEF DeltaQuery
<1>9. \A e : Mine(e, a, s) => (e \in D <=> e \in since)
  BY <1>3, <1>4, <1>5, <1>6, <1>7
<1>10. is = compute_balance(since, a, s)
  BY <1>8, <1>9, BalanceOfMine
<1>11. /\ IsFiniteSet(before) /\ IsFiniteSet(since) /\ before \cap since = {}
       /\ \A e \in before \cup since : e.amount \in Nat
  <2>1. before \in SUBSET entries /\ since \in SUBSET entries
    BY <1>4, <1>7
  <2>2. IsFiniteSet(before) /\ IsFiniteSet(since)
    BY <2>1, FS_Subset DEF StoreSound
  <2>3. before \cap since = {}
    BY <1>1, <1>7
  <2> QED BY <1>5, <2>1, <2>2, <2>3
<1>12. compute_balance(before \cup since, a, s)
          = compute_balance(before, a, s) + compute_balance(since, a, s)
  BY ONLY <1>11, BalanceParts, Z3
<1>13. b + is = compute_balance(before \cup since, a, s)
  BY <1>1, <1>10, <1>12
<1>14. ASSUME NEW e \in (entries \ last) \ since PROVE SharesItsNumber(e)
  <2>1. e \in entries /\ e \notin last /\ ~(e.sequence_number > n)
    BY <1>7
  <2>2. e.sequence_number \in 1..e0.sequence_number
    BY <1>2, <1>5, <1>6, <2>1
  <2>3. PICK x \in last : x.sequence_number = e.sequence_number
    BY <1>4, <2>2 DEF FillsUp
  <2> QED BY <1>4, <2>1, <2>3 DEF SharesItsNumber
<1>15. since \in SUBSET (entries \ last)
  BY <1>7
<1> QED BY <1>1, <1>4, <1>13, <1>14, <1>15 DEF AnswerTrue

\* A balance without a snapshot is one of the kind, too.
LEMMA BalanceAnswers ==
    ASSUME NEW x, x.ok, NEW a, NEW s, x.q = <<"balance", a, s>>, NEW low, BalanceOf(x, low)
    PROVE  AnswerTrue(x.is, a, s, low)
<1>1. PICK rows \in past : low \subseteq rows /\ x.is = compute_balance(rows, a, s)
  <2>1. x.q[1] = "balance" /\ x.q[2] = a /\ x.q[3] = s
    OBVIOUS
  <2> QED BY <2>1 DEF BalanceOf
<1>2. rows \cup {} = rows
  OBVIOUS
<1>3. x.is = compute_balance(rows \cup {}, a, s)
  BY <1>1, <1>2
<1>4. {} \in SUBSET (rows \ rows) /\ (rows \ rows) \ {} = {}
  OBVIOUS
<1> QED BY <1>1, <1>3, <1>4 DEF AnswerTrue
OfOneAsset(asset) == asset # ""

SnapshotsTrue ==
    \A key \in DOMAIN balance_snapshots :
        NamesOne(balance_snapshots[key].last_entry_id) =>
            SnapshotTrue(balance_snapshots[key].balance, balance_snapshots[key].last_entry_id,
                         key[1], key[2])

\* A snapshot in the making; a balance that failed is written as 0.
PairsTrue(got) ==
    \A i \in DOMAIN got :
        /\ got[i].q[1] = "balance" => got[i].ok \/ got[i].is = 0
        /\ got[i].q[1] = "last" =>
              /\ i - 1 \in DOMAIN got
              /\ NamesOne(got[i].is) =>
                    SnapshotTrue(got[i - 1].is, got[i].is, got[i].q[2], got[i].q[3])

\* The snapshot that balance_via_snapshot goes on from is of its account, and of its asset
\* if it has one.
KeyTrue(key, a, s) ==
    key \in DOMAIN balance_snapshots /\ key[1] = a /\ (OfOneAsset(s) => key[2] = s)
Reliable(key, s) == OfOneAsset(s) /\ NamesOne(balance_snapshots[key].last_entry_id)

\* How far it has come, n queries on.
ViaAt(a, s, todo, got, n, low) ==
    /\ n \in 0..4
    /\ n >= 1 => got[1].q[1] = "exists"
    /\ n >= 2 => /\ got[2].q = <<"latest", a, s>>
                 /\ got[2].is # NoKey => KeyTrue(got[2].is, a, s)
    /\ n >= 3 => IF got[2].is = NoKey THEN got[3].q = <<"balance", a, s>>
                 ELSE /\ got[3].q[1] = "sequence"
                      /\ Reliable(got[2].is, s) =>
                            NumberTrue(balance_snapshots[got[2].is].balance, got[3].is, a, s)
    /\ n = 4 => /\ got[2].is # NoKey /\ got[4].q[1] = "delta"
                /\ Reliable(got[2].is, s) =>
                      AnswerTrue(balance_snapshots[got[2].is].balance + got[4].is, a, s, low)
    /\ n = 0 => todo = << <<"exists", a>>, <<"latest", a, s>> >>
    /\ n = 1 => todo = <<>> \/ todo = << <<"latest", a, s>> >>
    /\ n = 2 => todo = IF got[2].is = NoKey THEN << <<"balance", a, s>> >>
                       ELSE << <<"sequence", a, s, balance_snapshots[got[2].is].last_entry_id>> >>
    /\ n = 3 => todo = IF got[2].is = NoKey THEN <<>>
                       ELSE << <<"delta", a, s, got[3].is>> >>
    /\ n = 4 => todo = <<>>

ViaCall(todo, got, low) ==
    (\A i \in DOMAIN got : got[i].ok) => \E a, s : ViaAt(a, s, todo, got, Len(got), low)

ViaKinds(todo) ==
    \A i \in DOMAIN todo : todo[i][1] \in {"exists", "latest", "sequence", "delta", "balance"}

CallTrue(op, todo, got, low) ==
    /\ PairsTrue(got)
    /\ op = "balance_via_snapshot" => ViaKinds(todo) /\ ViaCall(todo, got, low)

SnapshotInv ==
    /\ SnapshotsTrue
    /\ \A c \in Callers : CallTrue(call[c].op, call[c].todo, call[c].got, call[c].since)

\* A snapshot that was inserted stays as it is (ON CONFLICT DO NOTHING).
SnapshotsKept ==
    \A key \in DOMAIN balance_snapshots :
        key \in DOMAIN balance_snapshots' /\ balance_snapshots'[key] = balance_snapshots[key]

LEMMA CallStaysTrue ==
    ASSUME past \subseteq past', entries \subseteq entries', SnapshotsKept
    PROVE  \A op, todo, got, low : CallTrue(op, todo, got, low) => CallTrue(op, todo, got, low)'
<1>1. /\ \A b, id, a, s : SnapshotTrue(b, id, a, s) => SnapshotTrue(b, id, a, s)'
      /\ \A b, n, a, s : NumberTrue(b, n, a, s) => NumberTrue(b, n, a, s)'
      /\ \A b, a, s, low : AnswerTrue(b, a, s, low) => AnswerTrue(b, a, s, low)'
  BY SnapshotsStayTrue
<1>2. ASSUME NEW got, PairsTrue(got) PROVE PairsTrue(got)'
  BY <1>1, <1>2 DEF PairsTrue, NamesOne
<1>3. ASSUME NEW key, NEW a, NEW s, KeyTrue(key, a, s)
      PROVE  /\ KeyTrue(key, a, s)' /\ balance_snapshots'[key] = balance_snapshots[key]
             /\ Reliable(key, s)' = Reliable(key, s)
  <2>1. key \in DOMAIN balance_snapshots' /\ balance_snapshots'[key] = balance_snapshots[key]
    BY <1>3 DEF KeyTrue, SnapshotsKept
  <2>2. KeyTrue(key, a, s)'
    BY <1>3, <2>1, Zenon DEF KeyTrue, OfOneAsset
  <2>3. Reliable(key, s)' = Reliable(key, s)
    BY <2>1, Zenon DEF Reliable, NamesOne, OfOneAsset
  <2> QED BY <2>1, <2>2, <2>3
<1>4. ASSUME NEW a, NEW s, NEW todo, NEW got, NEW n, NEW low, ViaAt(a, s, todo, got, n, low)
      PROVE  ViaAt(a, s, todo, got, n, low)'
  <2>1. CASE n \in 0..1
    BY <1>4, <2>1 DEF ViaAt
  <2>2. CASE n \in 2..4 /\ got[2].is = NoKey
    BY <1>4, <2>2 DEF ViaAt
  <2>3. CASE n \in 2..4 /\ got[2].is # NoKey
    <3>1. PICK key, b, b1 : /\ key = got[2].is /\ b = balance_snapshots[key]
                            /\ b1 = balance_snapshots'[key]
      OBVIOUS
    <3>2. KeyTrue(key, a, s)
      BY <1>4, <2>3, <3>1 DEF ViaAt
    <3>3. KeyTrue(key, a, s)' /\ b1 = b /\ Reliable(key, s)' = Reliable(key, s)
      BY <1>3, <3>1, <3>2
    <3>4. n >= 3 => /\ got[3].q[1] = "sequence"
                    /\ Reliable(key, s) => NumberTrue(b.balance, got[3].is, a, s)
      BY <1>4, <2>3, <3>1 DEF ViaAt
    <3>5. n >= 3 /\ Reliable(key, s)' => NumberTrue(b.balance, got[3].is, a, s)'
      BY <1>1, <3>3, <3>4
    <3>6. n = 4 /\ Reliable(key, s) => AnswerTrue(b.balance + got[4].is, a, s, low)
      BY <1>4, <2>3, <3>1 DEF ViaAt
    <3>7. n = 4 /\ Reliable(key, s)' => AnswerTrue(b.balance + got[4].is, a, s, low)'
      BY <1>1, <3>3, <3>6
    <3> QED BY <1>4, <2>3, <3>1, <3>3, <3>4, <3>5, <3>7 DEF ViaAt
  <2>4. n \in 0..1 \/ n \in 2..4
    BY <1>4 DEF ViaAt
  <2> QED BY <2>1, <2>2, <2>3, <2>4
<1>5. ASSUME NEW todo, NEW got, NEW low, ViaCall(todo, got, low) PROVE ViaCall(todo, got, low)'
  BY <1>4, <1>5 DEF ViaCall
<1> QED BY <1>2, <1>5 DEF CallTrue, ViaKinds

LEMMA LatestIs ==
    ASSUME NEW a, NEW s, NEW is \in LatestQuery(a, s)
    PROVE  is = NoKey \/ KeyTrue(is, a, s)
<1> DEFINE keys == {k \in DOMAIN balance_snapshots : k[1] = a /\ (s = "" \/ k[2] = s)}
<1>1. LatestQuery(a, s) = IF keys = {} THEN {NoKey} ELSE {k \in keys : \A x \in keys : x[3] <= k[3]}
  BY DEF LatestQuery
<1>2. \A k \in keys : KeyTrue(k, a, s)
  BY Zenon DEF KeyTrue, OfOneAsset
<1> HIDE DEF keys
<1> QED BY <1>1, <1>2

LEMMA TailsAre == /\ \A x : Tail(<<x>>) = <<>>
                  /\ \A x, y : Tail(<<x, y>>) = <<y>>
OBVIOUS

LEMMA ViaLearns ==
    ASSUME StoreSound, NumberInv, PastInv, SnapshotsTrue, NEW todo, NEW got, NEW new, NEW q, NEW n,
           Learnt(todo, got, new, q, n), NEW is \in Results(q), new[n + 1].is = is,
           NEW op, NEW rest, rest = Following(op, q, is, Tail(todo)),
           NEW a, NEW s, NEW low, low \subseteq entries, ViaAt(a, s, todo, got, n, low)
    PROVE  ViaAt(a, s, rest, new, n + 1, low)
<1>1. /\ n \in 0..4 /\ new[n + 1].q = q /\ todo # <<>> /\ q = todo[1]
      /\ \A i \in 1..n : new[i] = got[i]
  <2>1. n \in 0..4
    BY DEF ViaAt
  <2>2. new[n + 1].q = q /\ 1 \in DOMAIN todo /\ q = todo[1] /\ \A i \in 1..n : new[i] = got[i]
    BY DEF Learnt
  <2>3. todo # <<>>
    BY <2>2
  <2> QED BY <2>1, <2>2, <2>3
<1>2. PICK left : left = Tail(todo)
  OBVIOUS
<1>3. rest = Following(op, q, is, left)
  BY <1>2
<1>4. CASE n = 0
  <2>1. todo = << <<"exists", a>>, <<"latest", a, s>> >>
    BY <1>4 DEF ViaAt
  <2>2. left = << <<"latest", a, s>> >> /\ q[1] = "exists"
    BY <1>1, <1>2, <2>1, TailsAre
  <2>3. rest = left \/ rest = <<>>
    BY ONLY <1>3, <2>2, FollowingIs
  <2> QED BY <1>1, <1>4, <2>2, <2>3 DEF ViaAt
<1>5. CASE n = 1
  <2>1. todo = << <<"latest", a, s>> >> /\ got[1].q[1] = "exists"
    BY <1>1, <1>5 DEF ViaAt
  <2>2. q = <<"latest", a, s>>
    BY <1>1, <2>1
  <2>3. is \in LatestQuery(a, s)
    BY <2>2, ResultsIs
  <2>4. is = NoKey \/ KeyTrue(is, a, s)
    BY <2>3, LatestIs
  <2>5. rest = IF is = NoKey THEN << <<"balance", a, s>> >>
               ELSE << <<"sequence", a, s, balance_snapshots[is].last_entry_id>> >>
    BY ONLY <1>3, <2>2, FollowingIs
  <2>6. new[1] = got[1] /\ new[2].q = q /\ new[2].is = is
    BY <1>1, <1>5
  <2> QED BY <1>5, <2>1, <2>2, <2>4, <2>5, <2>6 DEF ViaAt
<1>6. CASE n = 2
  <2>1. /\ got[1].q[1] = "exists" /\ got[2].q = <<"latest", a, s>>
        /\ got[2].is # NoKey => KeyTrue(got[2].is, a, s)
        /\ todo = IF got[2].is = NoKey THEN << <<"balance", a, s>> >>
                  ELSE << <<"sequence", a, s, balance_snapshots[got[2].is].last_entry_id>> >>
    BY <1>6 DEF ViaAt
  <2>2. new[1] = got[1] /\ new[2] = got[2] /\ new[3].q = q /\ new[3].is = is
    BY <1>1, <1>6
  <2>3. CASE got[2].is = NoKey
    <3>1. q = <<"balance", a, s>> /\ left = <<>>
      BY <1>1, <1>2, <2>1, <2>3, TailsAre
    <3>2. rest = <<>>
      BY ONLY <1>3, <3>1, FollowingIs
    <3> QED BY <1>6, <2>1, <2>2, <2>3, <3>1, <3>2 DEF ViaAt
  <2>4. CASE got[2].is # NoKey
    <3>1. PICK key, b : key = got[2].is /\ b = balance_snapshots[key]
      OBVIOUS
    <3>2. q = <<"sequence", a, s, b.last_entry_id>>
      BY <1>1, <2>1, <2>4, <3>1
    <3>3. is = SequenceOf(b.last_entry_id)
      <4>1. PICK id : id = b.last_entry_id
        OBVIOUS
      <4>2. q[1] = "sequence" /\ q[4] = id
        BY <3>2, <4>1
      <4>3. is \in {SequenceOf(q[4])}
        BY ONLY <4>2, is \in Results(q), ResultsIs
      <4> QED BY <4>1, <4>2, <4>3
    <3>4. ASSUME Reliable(key, s) PROVE SnapshotTrue(b.balance, b.last_entry_id, a, s)
      BY <2>1, <2>4, <3>1, <3>4 DEF KeyTrue, SnapshotsTrue, Reliable
    <3>5. Reliable(key, s) => NumberTrue(b.balance, is, a, s)
      BY <3>3, <3>4, NumberAsked
    <3>6. rest = << <<"delta", a, s, is>> >>
      BY ONLY <1>3, <3>2, FollowingIs
    <3> QED BY <1>6, <2>1, <2>2, <2>4, <3>1, <3>2, <3>5, <3>6, SMTT(30) DEF ViaAt
  <2> QED BY <2>3, <2>4
<1>7. CASE n = 3
  <2>1. got[2].is # NoKey
    BY <1>1, <1>7 DEF ViaAt
  <2>2. PICK key, b, last : key = got[2].is /\ b = balance_snapshots[key] /\ last = got[3].is
    OBVIOUS
  <2>3. /\ got[1].q[1] = "exists" /\ got[2].q = <<"latest", a, s>> /\ KeyTrue(key, a, s)
        /\ got[3].q[1] = "sequence"
        /\ Reliable(key, s) => NumberTrue(b.balance, last, a, s)
        /\ todo = << <<"delta", a, s, last>> >>
    BY <1>7, <2>1, <2>2 DEF ViaAt
  <2>4. q = <<"delta", a, s, last>> /\ left = <<>>
    BY <1>1, <1>2, <2>3, TailsAre
  <2>5. is \in DeltaQuery(a, s, last)
    BY <2>4, ResultsIs
  <2>6. Reliable(key, s) => AnswerTrue(b.balance + is, a, s, low)
    BY <2>3, <2>5, DeltaAsked
  <2>7. rest = <<>>
    BY ONLY <1>3, <2>4, FollowingIs
  <2>8. new[1] = got[1] /\ new[2] = got[2] /\ new[3] = got[3] /\ new[4].q = q /\ new[4].is = is
    BY <1>1, <1>7
  <2> QED BY <1>7, <2>1, <2>2, <2>3, <2>4, <2>6, <2>7, <2>8 DEF ViaAt
<1>8. n # 4
  BY <1>1 DEF ViaAt
<1> QED BY <1>1, <1>4, <1>5, <1>6, <1>7, <1>8

\* A last entry that was asked for belongs to the balance before it.
LEMMA PairsLearn ==
    ASSUME StoreSound, PastInv, NEW todo, NEW got, NEW new, NEW q, NEW n,
           Learnt(todo, got, new, q, n),
           PairsTrue(got), InTurn(todo, got), NEW low, \A i \in DOMAIN got : BalanceOf(got[i], low),
           IF new[n + 1].ok THEN new[n + 1].is \in Results(q) ELSE new[n + 1].is = Default(q[1])
    PROVE  PairsTrue(new)
<1>1. /\ n \in Nat /\ DOMAIN got = 1..n /\ DOMAIN new = 1..(n + 1)
      /\ \A i \in 1..n : new[i] = got[i]
      /\ new[n + 1].q = q /\ 1 \in DOMAIN todo /\ q = todo[1] /\ (got = <<>> <=> n = 0)
      /\ n = Len(got) /\ \A i \in 1..(n + 1) : i \in 1..n \/ i = n + 1
  BY DEF Learnt
<1>2. ASSUME NEW i \in 1..n
      PROVE  /\ new[i].q[1] = "balance" => new[i].ok \/ new[i].is = 0
             /\ new[i].q[1] = "last" =>
                   /\ i - 1 \in DOMAIN new
                   /\ NamesOne(new[i].is) =>
                         SnapshotTrue(new[i - 1].is, new[i].is, new[i].q[2], new[i].q[3])
  <2>1. /\ got[i].q[1] = "balance" => got[i].ok \/ got[i].is = 0
        /\ got[i].q[1] = "last" =>
              /\ i - 1 \in 1..n
              /\ NamesOne(got[i].is) =>
                    SnapshotTrue(got[i - 1].is, got[i].is, got[i].q[2], got[i].q[3])
    BY <1>1 DEF PairsTrue
  <2>2. \A k \in 1..n : k \in 1..(n + 1)
    BY <1>1
  <2> QED BY <1>1, <2>1, <2>2
<1>3. ASSUME q[1] = "last"
      PROVE  /\ n \in 1..n
             /\ NamesOne(new[n + 1].is) => SnapshotTrue(new[n].is, new[n + 1].is, q[2], q[3])
  <2>1. PICK x, is, ok : x = got[n] /\ is = new[n + 1].is /\ ok = new[n + 1].ok
    OBVIOUS
  <2>2. got # <<>> /\ x.q = <<"balance", q[2], q[3]>>
    BY <1>1, <1>3, <2>1 DEF InTurn
  <2>3. n \in 1..n /\ x.q[1] = "balance" /\ x.q[2] = q[2] /\ x.q[3] = q[3]
    BY <1>1, <2>2
  <2>4. BalanceOf(x, low) /\ (x.ok \/ x.is = 0)
    BY <1>1, <2>1, <2>3 DEF PairsTrue
  <2>5. \E before \in past : x.is = compute_balance(before, q[2], q[3])
    <3>1. CASE x.ok
      BY <2>3, <2>4, <3>1 DEF BalanceOf
    <3>2. CASE x.is = 0
      <4>1. PICK none : none = {}
        OBVIOUS
      <4>2. IsFiniteSet(none) /\ \A e \in none : e.amount \in Nat
        BY <4>1, FS_EmptySet
      <4>3. compute_balance({}, q[2], q[3]) = 0
        BY ONLY <4>2, BalanceType
      <4> QED BY <3>2, <4>3 DEF PastInv
    <3> QED BY <2>4, <3>1, <3>2
  <2>6. ASSUME NamesOne(is) PROVE is \in Results(q)
    <3>1. Default(q[1]) = NoEntryId
      BY <1>3 DEF Default
    <3> QED BY <2>1, <2>6, <3>1 DEF NamesOne
  <2>7. ASSUME NamesOne(is) PROVE SnapshotTrue(x.is, is, q[2], q[3])
    <3>1. PICK b : b = x.is
      OBVIOUS
    <3>2. PICK before \in past : b = compute_balance(before, q[2], q[3])
      BY <2>5, <3>1
    <3>3. is \in Results(q)
      BY <2>6, <2>7
    <3>4. SnapshotTrue(b, is, q[2], q[3])
      BY ONLY StoreSound, PastInv, <1>3, <2>7, <3>2, <3>3, LastAsked
    <3> QED BY <3>1, <3>4
  <2>8. new[n] = x
    BY <1>1, <2>1, <2>3
  <2> QED BY <2>1, <2>3, <2>7, <2>8
<1>4. /\ n \in 1..n => n \in 1..(n + 1)
      /\ (n + 1) - 1 = n
  BY <1>1
<1>5. q[1] = "balance" => new[n + 1].ok \/ new[n + 1].is = 0
  BY DEF Default
<1>6. /\ q[1] = "balance" => new[n + 1].ok \/ new[n + 1].is = 0
      /\ q[1] = "last" =>
            /\ (n + 1) - 1 \in DOMAIN new
            /\ NamesOne(new[n + 1].is) =>
                  SnapshotTrue(new[(n + 1) - 1].is, new[n + 1].is, q[2], q[3])
  BY <1>1, <1>3, <1>4, <1>5
<1> HIDE DEF Learnt
<1> QED BY <1>1, <1>2, <1>6 DEF PairsTrue

\* The queries of a balance from a snapshot insert nothing, whatever comes next.
LEMMA ViaKindsGoOn ==
    ASSUME NEW todo, NEW got, NEW new, NEW q, NEW n, Learnt(todo, got, new, q, n), ViaKinds(todo)
    PROVE  /\ \A op, is : ViaKinds(Following(op, q, is, Tail(todo)))
           /\ ViaKinds(FollowingError(q, Tail(todo)))
<1>1. q[1] \in {"exists", "latest", "sequence", "delta", "balance"}
  BY DEF Learnt, ViaKinds
<1>2. PICK left : left = Tail(todo)
  OBVIOUS
<1>3. ViaKinds(left)
  BY <1>2 DEF Learnt, ViaKinds
<1>4. ViaKinds(<<>>) /\ \A x : x[1] \in {"sequence", "delta", "balance"} => ViaKinds(<<x>>)
  BY DEF ViaKinds
<1>5. ASSUME NEW op, NEW is PROVE ViaKinds(Following(op, q, is, left))
  <2>1. PICK rest : rest = Following(op, q, is, left)
    OBVIOUS
  <2>2. CASE q[1] = "exists"
    <3>1. rest = left \/ rest = <<>>
      BY ONLY <2>1, <2>2, FollowingIs
    <3> QED BY <1>3, <1>4, <2>1, <3>1
  <2>3. CASE q[1] \in {"latest", "sequence"}
    <3>1. \E x : rest = <<x>> /\ x[1] \in {"sequence", "delta", "balance"}
      <4>1. CASE q[1] = "latest" /\ is = NoKey
        BY ONLY <2>1, <4>1, FollowingIs
      <4>2. CASE q[1] = "latest" /\ is # NoKey
        BY ONLY <2>1, <4>2, FollowingIs
      <4>3. CASE q[1] = "sequence"
        BY ONLY <2>1, <4>3, FollowingIs
      <4> QED BY <2>3, <4>1, <4>2, <4>3
    <3> QED BY <1>4, <2>1, <3>1
  <2>4. CASE q[1] \in {"delta", "balance"}
    <3>1. rest = left
      BY ONLY <2>1, <2>4, FollowingIs
    <3> QED BY <1>3, <2>1, <3>1
  <2> QED BY <1>1, <2>2, <2>3, <2>4
<1>6. ViaKinds(FollowingError(q, left))
  <2>1. PICK rest : rest = FollowingError(q, left)
    OBVIOUS
  <2>2. rest = left \/ rest = <<>> \/ rest = << <<"balance", q[2], q[3]>> >>
    BY ONLY <2>1, FollowingErrorIs
  <2>3. ViaKinds(<< <<"balance", q[2], q[3]>> >>)
    <3>1. PICK x : x = <<"balance", q[2], q[3]>>
      OBVIOUS
    <3> QED BY <1>4, <3>1
  <2> QED BY <1>3, <1>4, <2>1, <2>2, <2>3
<1> QED BY <1>2, <1>5, <1>6
\* A call begins with no query answered.
LEMMA CallTrueAtStart ==
    ASSUME NEW op, NEW todo, FirstQueries(op, todo), NEW low
    PROVE  CallTrue(op, todo, <<>>, low)
<1>1. PICK none : none = <<>>
  OBVIOUS
<1>2. DOMAIN none = {} /\ Len(none) = 0
  BY <1>1
<1>3. PairsTrue(none)
  BY <1>2 DEF PairsTrue
<1>4. ASSUME op = "balance_via_snapshot" PROVE ViaKinds(todo) /\ ViaCall(todo, none, low)
  <2>1. PICK pair \in Asked : todo = ViaQueries(pair)
    BY <1>4 DEF FirstQueries
  <2>2. PICK a, s : a = pair[1] /\ s = pair[2]
    OBVIOUS
  <2>3. todo = << <<"exists", a>>, <<"latest", a, s>> >>
    BY <2>1, <2>2 DEF ViaQueries
  <2>4. ViaKinds(todo)
    <3>1. PICK x, y : x = <<"exists", a>> /\ y = <<"latest", a, s>>
      OBVIOUS
    <3>2. todo = <<x, y>> /\ x[1] = "exists" /\ y[1] = "latest"
      BY <2>3, <3>1
    <3> QED BY <3>2 DEF ViaKinds
  <2>5. ViaAt(a, s, todo, none, 0, low)
    BY <2>3 DEF ViaAt
  <2>6. ViaCall(todo, none, low)
    BY <1>2, <2>3, <2>5 DEF ViaCall
  <2> QED BY <2>4, <2>6
<1> QED BY <1>1, <1>3, <1>4 DEF CallTrue

LEMMA TrueCallAsks ==
    ASSUME StoreSound, NumberInv, PastInv, ReadsTypes, CallsSound, SnapshotInv,
           NEW c \in Callers, Ask(c)
    PROVE  CallTrue(call'[c].op, call'[c].todo, call'[c].got, call'[c].since)
<1>1. CallsListed /\ InTurn(call[c].todo, call[c].got)
  BY DEF ReadsTypes
<1>2. PICK q, todo, got, op, since :
          /\ todo = call[c].todo /\ got = call[c].got /\ op = call[c].op
          /\ since = call[c].since /\ q = Head(todo)
  OBVIOUS
<1>3. PICK is \in Results(q) : Learns(c, TRUE, is, Following(op, q, is, Tail(todo)))
  BY <1>1, <1>2, AskLearns
<1>4. PICK rest, new, ok : /\ rest = Following(op, q, is, Tail(todo))
                           /\ new = call'[c].got /\ ok = TRUE
  OBVIOUS
<1>5. Learns(c, ok, is, rest)
  BY <1>3, <1>4
<1>6. PICK n : /\ Learnt(call[c].todo, call[c].got, call'[c].got, Head(call[c].todo), n)
               /\ n + 1 \in DOMAIN call'[c].got
               /\ call'[c].got[n + 1] = [q |-> Head(call[c].todo), ok |-> ok, is |-> is]
  BY <1>1, <1>5, ListLearnt
<1>7. /\ Learnt(todo, got, new, q, n)
      /\ new[n + 1].ok = ok /\ new[n + 1].is = is /\ new[n + 1].ok
  BY <1>2, <1>4, <1>6
<1>8. CallTrue(op, todo, got, since) /\ CallSound(op, todo, got, since) /\ InTurn(todo, got)
  BY <1>1, <1>2 DEF SnapshotInv, CallsSound
<1>9. PairsTrue(got) /\ \A i \in DOMAIN got : BalanceOf(got[i], since)
  BY <1>8 DEF CallTrue, CallSound
<1>10. PairsTrue(new)
  <2>1. IF new[n + 1].ok THEN new[n + 1].is \in Results(q) ELSE new[n + 1].is = Default(q[1])
    BY <1>3, <1>7
  <2> QED BY ONLY StoreSound, PastInv, <1>7, <1>8, <1>9, <2>1, PairsLearn
<1>11. ASSUME op = "balance_via_snapshot" PROVE ViaKinds(rest) /\ ViaCall(rest, new, since)
  <2>1. ViaKinds(todo) /\ ViaCall(todo, got, since)
    BY <1>8, <1>11 DEF CallTrue
  <2>2. ViaKinds(rest)
    BY <1>4, <1>7, <2>1, ViaKindsGoOn
  <2>3. ASSUME \A i \in DOMAIN new : new[i].ok
        PROVE  \E a, s : ViaAt(a, s, rest, new, Len(new), since)
    <3>1. \A i \in DOMAIN got : got[i].ok
      BY <1>7, <2>3 DEF Learnt
    <3>2. n = Len(got) /\ n + 1 = Len(new)
      BY <1>7 DEF Learnt
    <3>3. PICK a, s : ViaAt(a, s, todo, got, n, since)
      BY <2>1, <3>1, <3>2 DEF ViaCall
    <3>4. SnapshotsTrue /\ since \subseteq entries
      BY <1>8 DEF SnapshotInv, CallSound
    <3>5. ViaAt(a, s, rest, new, n + 1, since)
      BY ONLY StoreSound, NumberInv, PastInv, <3>4, <1>7, <1>3, <1>4, <3>3, ViaLearns
    <3> QED BY <3>2, <3>3, <3>5
  <2> QED BY <2>2, <2>3 DEF ViaCall
<1>12. CallTrue(op, rest, new, since)
  BY <1>10, <1>11 DEF CallTrue
<1>13. call'[c].op = op /\ call'[c].todo = rest /\ call'[c].since = since
  BY <1>2, <1>5 DEF Learns
<1> QED BY <1>4, <1>12, <1>13

LEMMA TrueCallFails ==
    ASSUME StoreSound, PastInv, ReadsTypes, CallsSound, SnapshotInv, NEW c \in Callers,
           AskFails(c)
    PROVE  CallTrue(call'[c].op, call'[c].todo, call'[c].got, call'[c].since)
<1>1. CallsListed /\ InTurn(call[c].todo, call[c].got)
  BY DEF ReadsTypes
<1>2. PICK q, todo, got, op, since :
          /\ todo = call[c].todo /\ got = call[c].got /\ op = call[c].op
          /\ since = call[c].since /\ q = Head(todo)
  OBVIOUS
<1>3. PICK is, rest, new, ok : /\ is = Default(q[1]) /\ rest = FollowingError(q, Tail(todo))
                               /\ new = call'[c].got /\ ok = FALSE
  OBVIOUS
<1>4. Learns(c, ok, is, rest)
  BY <1>1, <1>2, <1>3, FailureLearns
<1>5. PICK n : /\ Learnt(call[c].todo, call[c].got, call'[c].got, Head(call[c].todo), n)
               /\ n + 1 \in DOMAIN call'[c].got
               /\ call'[c].got[n + 1] = [q |-> Head(call[c].todo), ok |-> ok, is |-> is]
  BY <1>1, <1>4, ListLearnt
<1>6. Learnt(todo, got, new, q, n) /\ n + 1 \in DOMAIN new /\ ~new[n + 1].ok
      /\ new[n + 1].is = is
  BY <1>2, <1>3, <1>5
<1>7. CallTrue(op, todo, got, since) /\ CallSound(op, todo, got, since) /\ InTurn(todo, got)
  BY <1>1, <1>2 DEF SnapshotInv, CallsSound
<1>8. PairsTrue(got) /\ \A i \in DOMAIN got : BalanceOf(got[i], since)
  BY <1>7 DEF CallTrue, CallSound
<1>9. PairsTrue(new)
  <2>1. IF new[n + 1].ok THEN new[n + 1].is \in Results(q) ELSE new[n + 1].is = Default(q[1])
    BY <1>3, <1>6
  <2> QED BY ONLY StoreSound, PastInv, <1>6, <1>7, <1>8, <2>1, PairsLearn
<1>10. ASSUME op = "balance_via_snapshot" PROVE ViaKinds(rest) /\ ViaCall(rest, new, since)
  <2>1. ViaKinds(todo)
    BY <1>7, <1>10 DEF CallTrue
  <2>2. ViaKinds(rest)
    BY <1>3, <1>6, <2>1, ViaKindsGoOn
  <2> QED BY <1>6, <2>2 DEF ViaCall
<1>11. CallTrue(op, rest, new, since)
  BY <1>9, <1>10 DEF CallTrue
<1>12. call'[c].op = op /\ call'[c].todo = rest /\ call'[c].since = since
  BY <1>2, <1>4 DEF Learns
<1> QED BY <1>3, <1>11, <1>12

SnapshotRow(row, key) ==
    NamesOne(row.last_entry_id) => SnapshotTrue(row.balance, row.last_entry_id, key[1], key[2])

\* The row that is inserted, beside those there are.
LEMMA SnapshotAdded ==
    ASSUME StoreSound, ReadsTypes, SnapshotInv, NEW c \in Callers, InsertSnapshot(c)
    PROVE  /\ SnapshotsKept
           /\ \A key \in DOMAIN balance_snapshots' : SnapshotRow(balance_snapshots'[key], key)
<1>1. CallsListed /\ CallTrue(call[c].op, call[c].todo, call[c].got, call[c].since) /\ SnapshotsTrue
  BY DEF ReadsTypes, SnapshotInv
<1>2. PICK q : q = Head(call[c].todo)
  OBVIOUS
<1>3. q[1] = "insert" /\ call[c].todo # <<>>
  BY <1>1, <1>2, InsertInserts DEF Inserts
<1>4. PICK row, key :
          /\ row = [balance |-> LastGot(c, "balance").is, last_entry_id |-> LastGot(c, "last").is]
          /\ key = <<q[2], q[3], now'>>
  OBVIOUS
<1>5. PICK got : got = call[c].got
  OBVIOUS
<1>6. PICK n \in DOMAIN got : /\ got[n].q = <<"last", q[2], q[3]>>
                              /\ LastGot(c, "last") = got[n]
                              /\ LastGot(c, "balance") = got[n - 1]
  BY <1>2, <1>3, <1>5, RowInserted
<1>7. got[n].q[1] = "last" /\ got[n].q[2] = q[2] /\ got[n].q[3] = q[3]
  BY <1>6
<1>8. NamesOne(got[n].is) => SnapshotTrue(got[n - 1].is, got[n].is, q[2], q[3])
  BY <1>1, <1>5, <1>7 DEF CallTrue, PairsTrue
<1>9. SnapshotRow(row, <<q[2], q[3], now'>>)
  BY <1>4, <1>6, <1>8 DEF SnapshotRow
<1>10. balance_snapshots' = IF key \in DOMAIN balance_snapshots THEN balance_snapshots
                            ELSE Insert(balance_snapshots, key, row)
  BY <1>2, <1>4 DEF InsertSnapshot
<1>11. /\ \A k \in DOMAIN balance_snapshots :
             k \in DOMAIN balance_snapshots' /\ balance_snapshots'[k] = balance_snapshots[k]
       /\ \A k \in DOMAIN balance_snapshots' :
             k \in DOMAIN balance_snapshots \/ (k = key /\ balance_snapshots'[k] = row)
  BY <1>10 DEF Insert
<1>12. ASSUME NEW k \in DOMAIN balance_snapshots'
       PROVE  SnapshotRow(balance_snapshots'[k], k)
  <2>1. CASE k \in DOMAIN balance_snapshots
    BY <1>1, <1>11, <2>1 DEF SnapshotsTrue, SnapshotRow
  <2>2. CASE k = key /\ balance_snapshots'[k] = row
    BY <1>4, <1>9, <2>2
  <2> QED BY <1>11, <2>1, <2>2
<1> QED BY <1>11, <1>12 DEF SnapshotsKept

LEMMA SnapshotInvStep ==
    ASSUME StoreSound, NumberInv, PastInv, ReadsTypes, CallsSound, SnapshotInv,
           [ReadsNext]_<<store, reading>>
    PROVE  SnapshotInv'
<1>1. CallsListed /\ WalkTyped /\ DbInv /\ SnapshotsTrue
      /\ \A d \in Callers : CallTrue(call[d].op, call[d].todo, call[d].got, call[d].since)
  BY DEF ReadsTypes, StoreSound, SnapshotInv
<1>2. ASSUME UNCHANGED <<vars, past>> PROVE past \subseteq past' /\ entries \subseteq entries'
  BY <1>2 DEF vars, db
<1>3. ASSUME past \subseteq past', entries \subseteq entries', SnapshotsKept,
             \A key \in DOMAIN balance_snapshots' : SnapshotRow(balance_snapshots'[key], key),
             \A d \in Callers : CallTrue(call'[d].op, call'[d].todo, call'[d].got, call'[d].since)
      PROVE  SnapshotInv'
  <2>1. \A b, id, a, s : SnapshotTrue(b, id, a, s) => SnapshotTrue(b, id, a, s)'
    BY <1>3, SnapshotsStayTrue
  <2>2. SnapshotsTrue'
    BY <1>3, <2>1 DEF SnapshotsTrue, SnapshotRow, NamesOne
  <2>3. \A op, todo, got, low : CallTrue(op, todo, got, low) => CallTrue(op, todo, got, low)'
    BY <1>3, CallStaysTrue
  <2>4. ASSUME NEW d \in Callers PROVE CallTrue(call[d].op, call[d].todo, call[d].got, call[d].since)'
    <3>1. PICK op, todo, got, low : /\ op = call'[d].op /\ todo = call'[d].todo
                                    /\ got = call'[d].got /\ low = call'[d].since
      OBVIOUS
    <3>2. CallTrue(op, todo, got, low)'
      BY <1>3, <2>3, <3>1
    <3> QED BY <3>1, <3>2
  <2> QED BY <2>2, <2>4 DEF SnapshotInv
<1>4. ASSUME UNCHANGED balance_snapshots
      PROVE  /\ SnapshotsKept
             /\ \A key \in DOMAIN balance_snapshots' : SnapshotRow(balance_snapshots'[key], key)
  BY <1>1, <1>4 DEF SnapshotsKept, SnapshotsTrue, SnapshotRow
<1>5. ASSUME NEW c \in Callers, Alone(c), CallTrue(call'[c].op, call'[c].todo, call'[c].got, call'[c].since)
      PROVE  \A d \in Callers : CallTrue(call'[d].op, call'[d].todo, call'[d].got, call'[d].since)
  BY <1>1, <1>5 DEF Alone
<1>6. CASE [Next]_vars /\ UNCHANGED reading
  <2>1. NumberInv' /\ entries \subseteq entries'
    BY <1>6, NumbersGoOn
  <2>2. past \subseteq past'
    BY <2>1, PastGoesOn
  <2>3. call' = call /\ balance_snapshots' = balance_snapshots
    BY <1>6 DEF reading
  <2> QED BY <1>1, <1>3, <1>4, <2>1, <2>2, <2>3
<1>7. ASSUME NEW c \in Callers, Begins(c) PROVE SnapshotInv'
  <2>1. PICK op, todo : FirstQueries(op, todo) /\ Starts(c, op, todo)
    BY <1>1, <1>7, BeginsStarts
  <2>2. UNCHANGED <<vars, past>> /\ UNCHANGED balance_snapshots
    BY <1>1, <1>7, BeginsStarts
  <2>3. \A low : CallTrue(op, todo, <<>>, low)
    BY <2>1, CallTrueAtStart
  <2>4. call'[c].op = op /\ call'[c].todo = todo /\ call'[c].got = <<>> /\ Alone(c)
    BY <2>1 DEF Starts
  <2>5. CallTrue(call'[c].op, call'[c].todo, call'[c].got, call'[c].since)
    BY <2>3, <2>4
  <2> QED BY <1>2, <1>3, <1>4, <1>5, <2>2, <2>4, <2>5
<1>8. ASSUME NEW c \in Callers, Ask(c) PROVE SnapshotInv'
  <2>1. Alone(c) /\ UNCHANGED <<vars, past>> /\ UNCHANGED balance_snapshots
    BY <1>1, <1>8, AskLearns DEF Learns
  <2>2. CallTrue(call'[c].op, call'[c].todo, call'[c].got, call'[c].since)
    BY <1>8, TrueCallAsks
  <2> QED BY <1>2, <1>3, <1>4, <1>5, <2>1, <2>2
<1>9. ASSUME NEW c \in Callers, AskFails(c) PROVE SnapshotInv'
  <2>1. Alone(c) /\ UNCHANGED <<vars, past>> /\ UNCHANGED balance_snapshots
    BY <1>1, <1>9, FailureLearns DEF Learns
  <2>2. CallTrue(call'[c].op, call'[c].todo, call'[c].got, call'[c].since)
    BY <1>9, TrueCallFails
  <2> QED BY <1>2, <1>3, <1>4, <1>5, <2>1, <2>2
<1>10. ASSUME NEW c \in Callers, InsertSnapshot(c) PROVE SnapshotInv'
  <2>1. Inserts(c) /\ Head(call[c].todo)[1] = "insert" /\ UNCHANGED <<vars, past>>
    BY <1>1, <1>10, InsertInserts
  <2>2. Alone(c) /\ call'[c].op = call[c].op /\ call[c].todo # <<>> /\ call'[c].got = <<>>
    BY <2>1 DEF Inserts
  <2>3. call[c].op # "balance_via_snapshot"
    <3>1. PICK todo : todo = call[c].todo
      OBVIOUS
    <3>2. 1 \in DOMAIN todo /\ todo[1][1] = "insert"
      BY <1>1, <2>1, <2>2, <3>1, TailOfList DEF CallsListed
    <3> QED BY <1>1, <3>1, <3>2 DEF CallTrue, ViaKinds
  <2>4. PICK op, todo, got, low : /\ op = call'[c].op /\ todo = call'[c].todo
                                  /\ got = call'[c].got /\ low = call'[c].since
    OBVIOUS
  <2>5. CallTrue(op, todo, got, low)
    BY <2>2, <2>3, <2>4 DEF CallTrue, PairsTrue
  <2>6. \A d \in Callers : CallTrue(call'[d].op, call'[d].todo, call'[d].got, call'[d].since)
    BY <1>5, <2>2, <2>4, <2>5
  <2> QED BY <1>2, <1>3, <1>10, <2>1, <2>6, SnapshotAdded
<1>11. ASSUME NEW c \in Callers, Answer(c) PROVE SnapshotInv'
  <2>1. /\ Alone(c) /\ call'[c].op = "none" /\ UNCHANGED <<vars, past>> /\ UNCHANGED balance_snapshots
        /\ call'[c].got = <<>>
    BY <1>1, <1>11, AnswerEnds
  <2>2. PICK op, todo, got, low : /\ op = call'[c].op /\ todo = call'[c].todo
                                  /\ got = call'[c].got /\ low = call'[c].since
    OBVIOUS
  <2>3. CallTrue(op, todo, got, low)
    BY <2>1, <2>2 DEF CallTrue, PairsTrue
  <2> QED BY <1>2, <1>3, <1>4, <1>5, <2>1, <2>2, <2>3
<1> QED BY <1>6, <1>7, <1>8, <1>9, <1>10, <1>11, StepOfReads

LEMMA SnapshotInvHolds == ReadsSpec => [](ReadsTypes /\ CallsSound /\ SnapshotInv)
<1>1. ReadsInit => SnapshotInv
  <2> SUFFICES ASSUME ReadsInit PROVE SnapshotInv
    OBVIOUS
  <2>1. call = [c \in Callers |-> Idle] /\ DOMAIN balance_snapshots = {}
    BY DEF ReadsInit
  <2>2. \A c \in Callers : call[c].op = "none" /\ call[c].got = <<>>
    BY <2>1 DEF Idle
  <2> QED BY <2>1, <2>2 DEF SnapshotInv, SnapshotsTrue, CallTrue, PairsTrue
<1>2. /\ StoreSound /\ NumberInv /\ PastInv /\ ReadsTypes /\ CallsSound /\ SnapshotInv
      /\ [ReadsNext]_<<store, reading>>
      => SnapshotInv'
  BY SnapshotInvStep
<1> QED BY <1>1, <1>2, PastHolds, CallsSoundHold, PTL DEF ReadsSpec

\* The answer of a call that came to its end.
ViaAnswered(got, n, a, s, low) ==
    /\ got[1].q[1] = "exists" /\ got[2].q = <<"latest", a, s>>
    /\ \/ n = 3 /\ got[3].q = <<"balance", a, s>> /\ AnswerTrue(got[3].is, a, s, low)
       \/ /\ n = 4 /\ got[3].q[1] = "sequence" /\ got[4].q[1] = "delta"
          /\ got[2].is # NoKey
          /\ Reliable(got[2].is, s) =>
                AnswerTrue(balance_snapshots[got[2].is].balance + got[4].is, a, s, low)

LEMMA ViaEnds ==
    ASSUME NEW got, NEW n \in Nat, DOMAIN got = 1..n, n >= 2, NEW a, NEW s, NEW low,
           ViaAt(a, s, <<>>, got, n, low),
           \A i \in DOMAIN got : got[i].ok /\ BalanceOf(got[i], low)
    PROVE  ViaAnswered(got, n, a, s, low)
<1>1. /\ n \in 2..4 /\ got[1].q[1] = "exists" /\ got[2].q = <<"latest", a, s>>
  BY DEF ViaAt
<1>2. n # 2
  BY DEF ViaAt
<1>3. CASE n = 3
  <2>1. got[2].is = NoKey
    BY <1>3 DEF ViaAt
  <2>2. got[3].q = <<"balance", a, s>>
    BY <1>3, <2>1 DEF ViaAt
  <2>3. PICK x : x = got[3]
    OBVIOUS
  <2>4. x.ok /\ BalanceOf(x, low) /\ x.q = <<"balance", a, s>>
    BY <1>3, <2>2, <2>3
  <2>5. AnswerTrue(x.is, a, s, low)
    BY ONLY <2>4, BalanceAnswers
  <2> QED BY <1>1, <1>3, <2>2, <2>3, <2>5 DEF ViaAnswered
<1>4. CASE n = 4
  BY <1>1, <1>4 DEF ViaAt, ViaAnswered
<1> QED BY <1>1, <1>2, <1>3, <1>4

LEMMA AnswersCountOnce ==
    ASSUME ReadsTypes, CallsSound, SnapshotInv
    PROVE  ViaCountsOnce
<1> SUFFICES ASSUME ReadsTypes, CallsSound, SnapshotInv, NEW c \in Callers, AnswersVia(c),
                    OfOneAsset(Latest(c).q[3]),
                    Latest(c).is # NoKey => NamesOne(balance_snapshots[Latest(c).is].last_entry_id)
             PROVE  AnswerTrue(ViaAnswer(c), Latest(c).q[2], Latest(c).q[3], call[c].since)
  BY ZenonT(30) DEF ViaCountsOnce, AnswerTrue, OfOneAsset, NamesOne
<1>1. PICK got, n, low : got = call[c].got /\ n = Len(got) /\ low = call[c].since
  OBVIOUS
<1>2. DOMAIN got = 1..n /\ n \in Nat
  BY <1>1 DEF ReadsTypes, CallsListed, IsList
<1>3. /\ CallTrue("balance_via_snapshot", <<>>, got, low)
      /\ \A i \in DOMAIN got : got[i].ok /\ BalanceOf(got[i], low)
  BY <1>1 DEF SnapshotInv, CallsSound, CallSound, AnswersVia, Answering, NothingFailed
<1>4. PICK a, s : ViaAt(a, s, <<>>, got, n, low)
  BY <1>1, <1>3 DEF CallTrue, ViaCall
<1>5. n >= 2
  <2>1. PICK i \in DOMAIN got : got[i].q[1] = "latest"
    BY <1>1 DEF AnswersVia, Got
  <2>2. n >= 1 => got[1].q[1] = "exists"
    BY <1>4 DEF ViaAt
  <2> QED BY <1>2, <2>1, <2>2
<1>6. ViaAnswered(got, n, a, s, low)
  BY ONLY <1>2, <1>3, <1>4, <1>5, ViaEnds
<1>7. got[1].q[1] = "exists" /\ got[2].q = <<"latest", a, s>> /\ got[2].q[1] = "latest"
  BY <1>6 DEF ViaAnswered
<1>8. ASSUME NEW k \in 2..n, NEW kind, got[k].q[1] = kind,
             \A i \in 1..n : got[i].q[1] = kind => i <= k
      PROVE  LastGot(c, kind) = call[c].got[k]
  <2>1. k \in Got(c, kind) /\ k \in Int
    BY <1>1, <1>2, <1>8 DEF Got
  <2>2. \A i \in Got(c, kind) : i \in Int /\ i <= k
    BY <1>1, <1>2, <1>8 DEF Got
  <2> QED BY <2>1, <2>2, LastOfKind
<1>9. CASE n = 3
  <2>1. got[3].q = <<"balance", a, s>> /\ AnswerTrue(got[3].is, a, s, low) /\ got[3].q[1] = "balance"
    BY <1>6, <1>9 DEF ViaAnswered
  <2>2. Got(c, "delta") = {}
    BY <1>1, <1>2, <1>7, <1>9, <2>1 DEF Got
  <2>3. LastGot(c, "balance") = got[3]
    BY <1>1, <1>2, <1>8, <1>9, <2>1
  <2>4. Latest(c) = got[2]
    BY <1>1, <1>2, <1>7, <1>8, <1>9, <2>1 DEF Latest
  <2>5. ViaAnswer(c) = got[3].is
    BY <2>2, <2>3 DEF ViaAnswer
  <2>6. Latest(c).q[2] = a /\ Latest(c).q[3] = s
    BY <1>7, <2>4
  <2> QED BY <1>1, <2>1, <2>5, <2>6
<1>10. CASE n = 4
  <2>1. /\ got[3].q[1] = "sequence" /\ got[4].q[1] = "delta"
        /\ got[2].is # NoKey
        /\ Reliable(got[2].is, s) =>
              AnswerTrue(balance_snapshots[got[2].is].balance + got[4].is, a, s, low)
    BY <1>6, <1>10 DEF ViaAnswered
  <2>2. 4 \in Got(c, "delta")
    BY <1>1, <1>2, <1>10, <2>1 DEF Got
  <2>3. LastGot(c, "delta") = got[4]
    <3>1. 4 \in 2..n /\ \A i \in 1..n : i <= 4
      BY <1>10
    <3> QED BY <1>1, <1>8, <2>1, <3>1
  <2>4. Latest(c) = got[2]
    <3>1. 2 \in 2..n /\ \A i \in 1..n : i <= 2 \/ i = 3 \/ i = 4
      BY <1>10
    <3>2. \A i \in 1..n : got[i].q[1] = "latest" => i <= 2
      BY <2>1, <3>1
    <3> QED BY <1>1, <1>7, <1>8, <3>1, <3>2 DEF Latest
  <2>5. ViaAnswer(c) = balance_snapshots[got[2].is].balance + got[4].is
    BY <2>2, <2>3, <2>4 DEF ViaAnswer
  <2>6. Latest(c).q[2] = a /\ Latest(c).q[3] = s
    BY <1>7, <2>4
  <2>7. Reliable(got[2].is, s)
    BY <2>1, <2>4, <2>6 DEF Reliable
  <2> QED BY <1>1, <2>1, <2>5, <2>6, <2>7
<1> QED BY <1>6, <1>9, <1>10 DEF ViaAnswered

\* With any number of writers, and whatever is committed between the queries of
\* write_snapshots and those of balance_via_snapshot: a balance from a snapshot counts no
\* entry twice, and of what came after the snapshot it leaves out only entries that share
\* their number.  (The snapshot's query for its last entry did not fail, and the balance
\* is in one asset.)
THEOREM SnapshotsCountOnce == ReadsSpec => []ViaCountsOnce
<1> QED BY AnswersCountOnce, SnapshotInvHolds, PTL
=============================================================================
