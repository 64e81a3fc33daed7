----------------------------- MODULE MemService ------------------------------
(***************************************************************************)
(* The in-memory service as a whole: postings and account creation, the    *)
(* background task that writes snapshots, and a client that reads a         *)
(* statement, all taking the one mutex in turn.                            *)
(***************************************************************************)
EXTENDS SnapshotStore, Statement

service == <<vars, snapshots, reader>>

ServiceInit ==
    /\ Init
    /\ snapshots = <<>>
    /\ asked = None /\ cursor = None /\ more = FALSE /\ read = <<>>

ServiceNext ==
    \/ Next /\ UNCHANGED <<snapshots, reader>>
    \/ write_snapshots /\ UNCHANGED reader
    \/ /\ \/ \E a \in DOMAIN accounts : Ask(a)
          \/ \E limit \in Limits : ReadPage(limit)
       /\ UNCHANGED snapshots

ServiceSpec == ServiceInit /\ [][ServiceNext]_service
=============================================================================
