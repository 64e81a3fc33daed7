------------------------------- MODULE Startup -------------------------------
(***************************************************************************)
(* How processes of the service start on one database (main): the check of *)
(* the configuration, the pool's first session, the three migrations, the  *)
(* hydration of the cache, the two servers, the shared secret; any of them *)
(* in any interleaving, with processes that die or give up and are         *)
(* restarted at any step.                                                  *)
(*                                                                         *)
(* The level a session runs at is the database's default when it was       *)
(* opened: a later ALTER DATABASE does not reach it.  The model follows    *)
(* the session a pool opens first; those it opens under load, or in its    *)
(* place when it is old, are left out.                                     *)
(***************************************************************************)
EXTENDS Naturals

CONSTANTS
    Processes,
    Env,         \* process -> [isolation, brokers, dev_mode, secret], its environment
    MaxFailures  \* bound: deaths of processes, other than those they choose themselves

ASSUME MaxFailuresAssumption == MaxFailures \in Nat

VARIABLES
    schema,             \* whether the tables of migration 1 exist
    default_isolation,  \* what a new session of the database runs at
    triggers,           \* whether the triggers of migration 3 exist
    phase,              \* process -> the step of main it does next
    session,            \* process -> the level its pool's first session runs at
    doors,              \* process -> the servers that accept requests
    failures            \* how many deaths there have been

boot == <<schema, default_isolation, triggers, phase, session, doors, failures>>

Levels == {"read committed", "serializable"}

Init == /\ schema = FALSE
        /\ default_isolation = "read committed"
        /\ triggers = FALSE
        /\ phase = [p \in Processes |-> "down"]
        /\ session = [p \in Processes |-> "none"]
        /\ doors = [p \in Processes |-> {}]
        /\ failures = 0

-----------------------------------------------------------------------------
\* The process goes on to another step of main.
Proceed(p, step) == phase' = [phase EXCEPT ![p] = step]

\* process::exit, or the end of the process; its supervisor starts it anew.
Exit(p) == /\ phase' = [phase EXCEPT ![p] = "down"]
           /\ session' = [session EXCEPT ![p] = "none"]
           /\ doors' = [doors EXCEPT ![p] = {}]

\* assert_isolation compares a configured word, not the database's level; then
\* PgPoolOptions::connect opens a first session.  A process that is refused exits as
\* it began.
Connect(p) ==
    /\ phase[p] = "down"
    /\ Env[p].isolation = "serializable"
    /\ Proceed(p, "migrate")
    /\ session' = [session EXCEPT ![p] = default_isolation]
    /\ UNCHANGED <<schema, default_isolation, triggers, doors, failures>>

\* is_already_applied: what run_migrations does when migration 1 meets its own
\* constraint, which is to leave out the others as well.  (Or go on with them, or
\* fail.)
RunTheOthers == "isolate"
Fail == "down"
AlreadyApplied == "hydrate"

\* Migration 1 is sent: with the tables there, ADD CONSTRAINT fails (42710).
InitSchema(p) ==
    /\ phase[p] = "migrate"
    /\ IF ~schema THEN Proceed(p, "migrating") /\ UNCHANGED <<session, doors>>
       ELSE IF AlreadyApplied = "down" THEN Exit(p)
       ELSE Proceed(p, AlreadyApplied) /\ UNCHANGED <<session, doors>>
    /\ UNCHANGED <<schema, default_isolation, triggers, failures>>

\* Its statements are one transaction: of those that run at a time the first to end
\* has created the tables.  Another fails, on its constraint or on a table's name
\* (42710, 42P07) or on a key of the catalogue, which is not taken for a migration
\* that has been applied.
InitSchemaEnds(p) ==
    /\ phase[p] = "migrating"
    /\ schema' = TRUE
    /\ \/ ~schema /\ Proceed(p, "isolate") /\ UNCHANGED <<session, doors>>
       \/ schema /\ Proceed(p, "hydrate") /\ UNCHANGED <<session, doors>>
       \/ schema /\ Exit(p)
    /\ UNCHANGED <<default_isolation, triggers, failures>>

\* Migration 2: ALTER DATABASE ... SET default_transaction_isolation.
SetSerializable(p) ==
    /\ phase[p] = "isolate"
    /\ default_isolation' = "serializable"
    /\ Proceed(p, "immutable")
    /\ UNCHANGED <<schema, triggers, session, doors, failures>>

\* Migration 3: the triggers that reject an UPDATE or a DELETE of entries.
ImmutableEntries(p) ==
    /\ phase[p] = "immutable"
    /\ triggers' = TRUE
    /\ Proceed(p, "hydrate")
    /\ UNCHANGED <<schema, default_isolation, session, doors, failures>>

\* hydrate fills the cache.
Hydrate(p) ==
    /\ phase[p] = "hydrate"
    /\ Proceed(p, "audit")
    /\ UNCHANGED <<schema, default_isolation, triggers, session, doors, failures>>

\* AuditSink::from_env wants brokers, or one of the words for a development mode.
AuditStarts(p) == Env[p].brokers \/ Env[p].dev_mode \in {"1", "true", "yes", "on"}

\* The audit sink; verify_chain_at_startup, on a chain that verifies; the gRPC server
\* and the snapshot task are spawned.
AuditAndSpawn(p) ==
    /\ phase[p] = "audit"
    /\ IF AuditStarts(p) THEN Proceed(p, "bind") /\ UNCHANGED <<session, doors>> ELSE Exit(p)
    /\ UNCHANGED <<schema, default_isolation, triggers, failures>>

\* The spawned server gets its first turn and listens.
OpenGrpc(p) ==
    /\ phase[p] \in {"bind", "up"}
    /\ "grpc" \notin doors[p]
    /\ doors' = [doors EXCEPT ![p] = @ \cup {"grpc"}]
    /\ UNCHANGED <<schema, default_isolation, triggers, phase, session, failures>>

\* secret_from_env wants a secret, or the one word it takes for a development mode.
SecretAccepted(p) == Env[p].secret \/ Env[p].dev_mode = "1"

\* The REST address is bound, the secret looked up, REST served; gRPC may be served
\* before that.
ServeRest(p) ==
    /\ phase[p] = "bind"
    /\ IF SecretAccepted(p)
       THEN /\ Proceed(p, "up")
            /\ doors' = [doors EXCEPT ![p] = @ \cup {"rest"}]
            /\ UNCHANGED session
       ELSE Exit(p)
    /\ UNCHANGED <<schema, default_isolation, triggers, failures>>

\* The process dies, or a step that needs the database fails.
Die(p) ==
    /\ failures < MaxFailures
    /\ phase[p] # "down"
    /\ Exit(p)
    /\ failures' = failures + 1
    /\ UNCHANGED <<schema, default_isolation, triggers>>

-----------------------------------------------------------------------------
Main(p) == \/ Connect(p) \/ InitSchema(p) \/ InitSchemaEnds(p) \/ SetSerializable(p)
           \/ ImmutableEntries(p) \/ Hydrate(p) \/ AuditAndSpawn(p)
           \/ ServeRest(p)

Next == \E p \in Processes : Main(p) \/ OpenGrpc(p) \/ Die(p)

Spec == Init /\ [][Next]_boot

-----------------------------------------------------------------------------
Phases == {"down", "migrate", "migrating", "isolate", "immutable", "hydrate", "audit",
           "bind", "up"}

StartupTypeOK ==
    /\ schema \in BOOLEAN /\ triggers \in BOOLEAN
    /\ default_isolation \in Levels
    /\ phase \in [Processes -> Phases]
    /\ session \in [Processes -> Levels \cup {"none"}]
    /\ doors \in [Processes -> SUBSET {"grpc", "rest"}]
    /\ failures \in Nat

\* Migrations 2 and 3 are run by one boot of one process and never again: whoever is
\* about to run them is alone with that, and finds nothing of theirs done.  Another
\* process may serve meanwhile, one that met the error of migration 1 and left them out,
\* and write entries that no trigger protects.  But that ends, the triggers are on their
\* way, unless the process that should have created them has died: then they never come
\* (run_migrations, is_already_applied).
MigrationsRunOnce ==
    /\ \A p, q \in Processes :
          phase[p] \in {"isolate", "immutable"} /\ phase[q] \in {"isolate", "immutable"}
             => p = q
    /\ \A p \in Processes :
          /\ phase[p] \in {"isolate", "immutable"} => schema /\ ~triggers
          /\ phase[p] = "isolate" => default_isolation = "read committed"
    /\ \A p \in Processes : doors[p] # {} /\ ~triggers =>
          failures > 0 \/ \E q \in Processes : phase[q] \in {"isolate", "immutable"}

\* migrations/20240101000002_set_serializable.sql:1-3: the service asserts the
\* database's level at startup and refuses to boot if it is weaker.
ServesSerializable ==
    \A p \in Processes : doors[p] # {} => session[p] = "serializable"
=============================================================================
