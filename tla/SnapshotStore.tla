---------------------------- MODULE SnapshotStore ----------------------------
(***************************************************************************)
(* The balance snapshots of the in-memory store.  A background task calls  *)
(* write_snapshots now and then, under the mutex; balance_via_snapshot     *)
(* answers from the snapshots it left and the entries since.               *)
(***************************************************************************)
EXTENDS MemStore

VARIABLE snapshots  \* the list written last

-----------------------------------------------------------------------------
\* The entries of an account in an asset, "" being all assets.
Of(rows, account_id, asset) ==
    {i \in DOMAIN rows : /\ rows[i].account_id = account_id
                         /\ asset = "" \/ rows[i].asset = asset}

\* The fold of build_snapshot keeps the number of the last entry; a slip would be
\* to keep that of the first.
FirstSequence(rows, mine) == IF mine = {} THEN 0 ELSE rows[Min(mine)].sequence_number
LastSequence(rows, mine) == IF mine = {} THEN 0 ELSE rows[Max(mine)].sequence_number

build_snapshot(rows, account_id, asset) ==
    [account_id    |-> account_id,
     asset         |-> IF asset = "" THEN "all" ELSE asset,
     balance       |-> compute_balance(ToSet(rows), account_id, asset),
     last_sequence |-> LastSequence(rows, Of(rows, account_id, asset))]

\* One snapshot per account and asset, in the order of their first entries.
snapshot_all(rows) ==
    LET first == {e \in ToSet(rows) :
                     \A x \in ToSet(rows) :
                        x.account_id = e.account_id /\ x.asset = e.asset
                        => x.sequence_number >= e.sequence_number}
        order == BySequence(first)
    IN  [n \in DOMAIN order |-> build_snapshot(rows, order[n].account_id, order[n].asset)]

write_snapshots ==
    /\ snapshots' = snapshot_all(entries)
    /\ UNCHANGED vars

\* The entries the snapshot does not contain.
IncludingLast(s) == {e \in ToSet(entries) : e.sequence_number >= s.last_sequence}
Since(s) == {e \in ToSet(entries) : e.sequence_number > s.last_sequence}

\* The last snapshot that fits (rfind), plus what came after it.
balance_via_snapshot(account_id, asset) ==
    LET fits == {n \in DOMAIN snapshots :
                    /\ snapshots[n].account_id = account_id
                    /\ asset = "" \/ snapshots[n].asset = asset}
        s == snapshots[Max(fits)]
    IN  IF fits = {} THEN compute_balance(ToSet(entries), account_id, asset)
        ELSE s.balance + compute_balance(Since(s), account_id, asset)

-----------------------------------------------------------------------------
\* Computed from the snapshots and the entries since, a balance is what it is
\* computed from all entries, whenever the snapshots were written
\* (PROJECT_PLAN.md:228-229; balance_via_snapshot).
SnapshotPlusDelta ==
    \A a \in DOMAIN accounts, asset \in DOMAIN ASSET_REGISTRY :
        balance_via_snapshot(a, asset) = compute_balance(ToSet(entries), a, asset)

\* A snapshot stays reconcilable for ever: it is the balance of the entries up to
\* its last one, which is an entry of that account and asset, and no two snapshots
\* are of the same account and asset (build_snapshot, snapshot_all).
SnapshotsReconcile ==
    \A n \in DOMAIN snapshots :
        LET s == snapshots[n]
            upto == {e \in ToSet(entries) : e.sequence_number <= s.last_sequence}
        IN  /\ s.balance = compute_balance(upto, s.account_id, s.asset)
            /\ \E e \in upto : /\ e.sequence_number = s.last_sequence
                               /\ e.account_id = s.account_id /\ e.asset = s.asset
            /\ \A m \in DOMAIN snapshots :
                  /\ snapshots[m].account_id = s.account_id
                  /\ snapshots[m].asset = s.asset
                  => m = n

=============================================================================
