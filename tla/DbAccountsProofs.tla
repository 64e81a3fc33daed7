-------------------------- MODULE DbAccountsProofs --------------------------
(***************************************************************************)
(* Proofs about the start of the service and the creation of accounts, for *)
(* every set of processes, environments and calls.                         *)
(***************************************************************************)
EXTENDS DbAccounts, TLAPS

-----------------------------------------------------------------------------
(* The processes.                                                          *)

\* Migrations 2 and 3 are run by one boot at a time, which finds nothing of theirs done.
MigrationsAlone ==
    /\ \A p, q \in Processes :
          phase[p] \in {"isolate", "immutable"} /\ phase[q] \in {"isolate", "immutable"}
             => p = q
    /\ \A p \in Processes :
          /\ phase[p] \in {"isolate", "immutable"} => schema /\ ~triggers
          /\ phase[p] = "isolate" => default_isolation = "read committed"

\* Without the tables nothing that comes after them has been done; only a process
\* that has come through main has its servers open.
StartupInv ==
    /\ StartupTypeOK
    /\ MigrationsAlone
    /\ ~schema => /\ default_isolation = "read committed" /\ ~triggers
                  /\ \A p \in Processes : phase[p] \notin {"isolate", "immutable"}
    /\ \A p \in Processes : doors[p] # {} => phase[p] \in {"bind", "up"}

LEMMA StartupInitially == Init => StartupInv
<1> SUFFICES ASSUME Init PROVE StartupInv
  OBVIOUS
<1>1. \A p \in Processes : doors[p] = {} /\ phase[p] = "down"
  BY DEF Init
<1>2. doors \in [Processes -> SUBSET {"grpc", "rest"}]
  BY DEF Init
<1>3. StartupTypeOK
  BY <1>2 DEF Init, StartupTypeOK, Levels, Phases
<1> QED
  BY <1>1, <1>3 DEF Init, StartupInv, MigrationsAlone

\* A process that ends, at whatever step, leaves the others and the database in order.
LEMMA ExitPreserves ==
    ASSUME StartupInv, NEW p \in Processes, Exit(p), failures' \in Nat,
           UNCHANGED <<schema, default_isolation, triggers>>
    PROVE  StartupInv'
<1> USE DEF StartupInv, StartupTypeOK, Exit
<1>1. doors' \in [Processes -> SUBSET {"grpc", "rest"}]
  <2>1. {} \in SUBSET {"grpc", "rest"}
    OBVIOUS
  <2> QED
    BY <2>1
<1>2. StartupTypeOK'
  BY <1>1 DEF Levels, Phases
<1>3. \A q \in Processes : doors'[q] # {} => phase'[q] \in {"bind", "up"}
  <2>1. doors'[p] = {} /\ \A q \in Processes \ {p} : doors'[q] = doors[q] /\ phase'[q] = phase[q]
    OBVIOUS
  <2> QED
    BY <2>1
<1>4. MigrationsAlone'
  BY DEF MigrationsAlone
<1> QED
  BY <1>2, <1>3, <1>4

\* A step of main keeps the migrations to one boot.
LEMMA MainPreserves ==
    ASSUME StartupInv, NEW p \in Processes, Main(p)
    PROVE  StartupInv'
<1> USE DEF StartupInv, StartupTypeOK, MigrationsAlone, Levels, Phases, Proceed, Exit
<1>1. CASE Connect(p)
  BY <1>1, ZenonT(60) DEF Connect
<1>2. CASE InitSchema(p)
  BY <1>2, ZenonT(60) DEF InitSchema, AlreadyApplied
<1>3. CASE InitSchemaEnds(p)
  BY <1>3, ZenonT(60) DEF InitSchemaEnds
<1>4. CASE SetSerializable(p)
  BY <1>4, ZenonT(60) DEF SetSerializable
<1>5. CASE ImmutableEntries(p)
  BY <1>5, ZenonT(60) DEF ImmutableEntries
<1>6. CASE Hydrate(p)
  BY <1>6, ZenonT(60) DEF Hydrate
<1>7. CASE AuditAndSpawn(p)
  <2>1. CASE AuditStarts(p)
    BY <1>7, <2>1, ZenonT(60) DEF AuditAndSpawn
  <2>2. CASE ~AuditStarts(p)
    <3>1. Exit(p) /\ failures' \in Nat /\ UNCHANGED <<schema, default_isolation, triggers>>
      BY <1>7, <2>2 DEF AuditAndSpawn
    <3> QED
      BY <3>1, ExitPreserves
  <2> QED
    BY <2>1, <2>2
<1>8. CASE ServeRest(p)
  <2>1. CASE SecretAccepted(p)
    <3> DEFINE open == doors[p] \cup {"rest"}
    <3>1. open \in SUBSET {"grpc", "rest"} /\ doors' = [doors EXCEPT ![p] = open]
      BY <1>8, <2>1 DEF ServeRest
    <3> HIDE DEF open
    <3>2. doors' \in [Processes -> SUBSET {"grpc", "rest"}]
      BY <3>1
    <3> QED
      BY <1>8, <2>1, <3>2, ZenonT(60) DEF ServeRest
  <2>2. CASE ~SecretAccepted(p)
    <3>1. Exit(p) /\ failures' \in Nat /\ UNCHANGED <<schema, default_isolation, triggers>>
      BY <1>8, <2>2 DEF ServeRest
    <3> QED
      BY <3>1, ExitPreserves
  <2> QED
    BY <2>1, <2>2
<1> QED
  BY <1>1, <1>2, <1>3, <1>4, <1>5, <1>6, <1>7, <1>8 DEF Main

LEMMA StartupPreserved ==
    ASSUME StartupInv, NEW p \in Processes, Main(p) \/ OpenGrpc(p) \/ Die(p)
    PROVE  StartupInv'
<1>1. CASE Main(p)
  BY <1>1, MainPreserves
<1>2. CASE OpenGrpc(p)
  BY <1>2 DEF OpenGrpc, StartupInv, StartupTypeOK, MigrationsAlone, Levels, Phases
<1>3. CASE Die(p)
  <2>1. failures' \in Nat
    <3>1. failures \in Nat
      BY DEF StartupInv, StartupTypeOK
    <3>2. failures' = failures + 1
      BY <1>3 DEF Die
    <3> QED
      BY <3>1, <3>2
  <2> QED
    BY <1>3, <2>1, ExitPreserves DEF Die
<1> QED
  BY <1>1, <1>2, <1>3

\* Once there are tables the triggers are there too, or about to be created, unless a
\* process has died; and nobody gets past the migrations before there are tables.
OnTheWay ==
    /\ schema /\ ~triggers =>
          failures > 0 \/ \E q \in Processes : phase[q] \in {"isolate", "immutable"}
    /\ \A p \in Processes : phase[p] \in {"hydrate", "audit", "bind", "up"} => schema

\* Only a process that has died leaves the migrations it has begun undone.
LEMMA WayGoesOn ==
    ASSUME StartupInv, OnTheWay, NEW p \in Processes, Main(p) \/ OpenGrpc(p) \/ Die(p)
    PROVE  OnTheWay'
<1>1. phase \in [Processes -> Phases] /\ failures \in Nat
  BY DEF StartupInv, StartupTypeOK
<1>2. ASSUME NEW to, phase' = [phase EXCEPT ![p] = to], UNCHANGED <<schema, failures>>,
             triggers' = triggers,
             phase[p] \in {"isolate", "immutable"} => to \in {"isolate", "immutable"},
             to \in {"hydrate", "audit", "bind", "up"} => schema
      PROVE  OnTheWay'
  <2>1. /\ phase'[p] = to /\ \A q \in Processes \ {p} : phase'[q] = phase[q]
    BY <1>1, <1>2
  <2>2. ASSUME schema', ~triggers'
        PROVE  failures' > 0 \/ \E q \in Processes : phase'[q] \in {"isolate", "immutable"}
    <3>1. CASE failures > 0
      BY <1>2, <3>1
    <3>2. CASE \E q \in Processes : phase[q] \in {"isolate", "immutable"}
      BY <1>2, <2>1, <3>2
    <3> QED BY <1>2, <2>2, <3>1, <3>2 DEF OnTheWay
  <2>3. ASSUME NEW q \in Processes, phase'[q] \in {"hydrate", "audit", "bind", "up"}
        PROVE  schema'
    BY <1>2, <2>1, <2>3 DEF OnTheWay
  <2> QED BY <2>2, <2>3 DEF OnTheWay
<1>3. CASE Connect(p)
  BY <1>2, <1>3 DEF Connect, Proceed
<1>4. CASE InitSchema(p)
  <2>1. CASE ~schema
    BY <1>2, <1>4, <2>1 DEF InitSchema, Proceed
  <2>2. CASE schema
    BY <1>2, <1>4, <2>2 DEF InitSchema, Proceed, AlreadyApplied
  <2> QED BY <2>1, <2>2
<1>5. CASE InitSchemaEnds(p)
  <2>1. CASE ~schema /\ Proceed(p, "isolate")
    <3>1. phase'[p] = "isolate" /\ schema'
      BY <1>1, <1>5, <2>1 DEF InitSchemaEnds, Proceed
    <3> QED BY <3>1 DEF OnTheWay
  <2>2. ASSUME schema, NEW to \in {"hydrate", "down"}, phase' = [phase EXCEPT ![p] = to]
        PROVE  OnTheWay'
    <3>1. phase[p] = "migrating" /\ schema' = schema /\ triggers' = triggers
          /\ failures' = failures
      BY <1>5, <2>2 DEF InitSchemaEnds
    <3> QED BY <1>2, <2>2, <3>1
  <2> QED BY <1>5, <2>1, <2>2 DEF InitSchemaEnds, Proceed, Exit
<1>6. CASE SetSerializable(p)
  BY <1>2, <1>6 DEF SetSerializable, Proceed
<1>7. CASE ImmutableEntries(p)
  <2>1. /\ phase[p] = "immutable" /\ schema' = schema /\ triggers'
        /\ phase' = [phase EXCEPT ![p] = "hydrate"]
    BY <1>7 DEF ImmutableEntries, Proceed
  <2>2. schema
    BY <2>1 DEF StartupInv, MigrationsAlone
  <2> QED BY <2>1, <2>2 DEF OnTheWay
<1>8. CASE Hydrate(p) \/ AuditAndSpawn(p) \/ ServeRest(p)
  <2>1. schema
    BY <1>8 DEF Hydrate, AuditAndSpawn, ServeRest, OnTheWay
  <2>2. /\ phase[p] \in {"hydrate", "audit", "bind"}
        /\ UNCHANGED <<schema, failures, triggers>>
    BY <1>8 DEF Hydrate, AuditAndSpawn, ServeRest
  <2>3. \E to : phase' = [phase EXCEPT ![p] = to]
    BY <1>8 DEF Hydrate, AuditAndSpawn, ServeRest, Proceed, Exit
  <2> QED BY <1>2, <2>1, <2>2, <2>3
<1>9. CASE OpenGrpc(p)
  BY <1>9 DEF OpenGrpc, OnTheWay
<1>10. CASE Die(p)
  <2>1. failures' > 0
    BY <1>1, <1>10 DEF Die
  <2>2. schema' = schema /\ phase' = [phase EXCEPT ![p] = "down"]
    BY <1>10 DEF Die, Exit
  <2> QED BY <1>1, <2>1, <2>2 DEF OnTheWay
<1> QED BY <1>3, <1>4, <1>5, <1>6, <1>7, <1>8, <1>9, <1>10 DEF Main

\* A process that serves goes on serving or ends, and the others stay where they are.
LEMMA ServingOrDown ==
    ASSUME StartupInv, NEW p \in Processes, Main(p) \/ OpenGrpc(p) \/ Die(p)
    PROVE  /\ \A q \in Processes \ {p} : phase'[q] = phase[q]
           /\ phase[p] \in {"bind", "up"} => phase'[p] \in {"bind", "up", "down"}
<1> USE DEF StartupInv, StartupTypeOK, Proceed, Exit
<1>1. CASE Main(p)
  BY <1>1 DEF Main, Connect, InitSchema, AlreadyApplied, InitSchemaEnds, SetSerializable,
              ImmutableEntries, Hydrate, AuditAndSpawn, ServeRest
<1>2. CASE OpenGrpc(p)
  BY <1>2 DEF OpenGrpc
<1>3. CASE Die(p)
  BY <1>3 DEF Die
<1> QED
  BY <1>1, <1>2, <1>3

-----------------------------------------------------------------------------
(* The calls.                                                              *)

\* Where a call in progress stands: its process serves; one that is about to commit
\* has its id for itself and its parent committed; one that has committed is the owner
\* of its row and its process's map does not have it.
CallInv(c) ==
    /\ pc[c] \in {"insert", "commit", "cache"} =>
          at[c] \in Processes /\ phase[at[c]] \in {"bind", "up"}
    /\ pc[c] = "commit" =>
          /\ AccountId(c) \notin DOMAIN accounts
          /\ \A d \in Calls : pc[d] = "commit" /\ AccountId(d) = AccountId(c) => d = c
          /\ ParentExists(c)
    /\ pc[c] = "cache" =>
          /\ AccountId(c) \in DOMAIN accounts /\ accounts[AccountId(c)] = c
          /\ AccountId(c) \notin cache[at[c]]

\* A map has only what is committed.
MapsAreCommitted == \A p \in Processes : cache[p] \subseteq DOMAIN accounts

DeploymentInv ==
    /\ StartupInv
    /\ DeploymentTypeOK
    /\ \A c \in Calls : CallInv(c)
    /\ MapsAreCommitted
    /\ CreatedOnce
    /\ ParentsFormATree

LEMMA DeploymentInitially == DeploymentInit => DeploymentInv
<1> SUFFICES ASSUME DeploymentInit PROVE DeploymentInv
  OBVIOUS
<1>1. StartupInv
  BY StartupInitially DEF DeploymentInit
<1>2. DOMAIN accounts = {}
  BY DEF DeploymentInit
<1>3. DeploymentTypeOK
  BY <1>1, <1>2 DEF DeploymentInit, DeploymentTypeOK, StartupInv
<1>4. (\A c \in Calls : CallInv(c)) /\ MapsAreCommitted /\ CreatedOnce
  BY DEF DeploymentInit, CallInv, MapsAreCommitted, CreatedOnce
<1>5. ParentsFormATree
  BY <1>2 DEF ParentsFormATree
<1> QED
  BY <1>1, <1>3, <1>4, <1>5 DEF DeploymentInv

\* A step of a process takes nothing from the database and leaves its calls in order.
LEMMA ProcessPreserves ==
    ASSUME DeploymentInv, NEW p \in Processes, ProcessStep(p)
    PROVE  DeploymentInv'
<1>1. (Main(p) \/ OpenGrpc(p) \/ Die(p)) /\ WithItsCalls(p)
  BY DEF ProcessStep, Run
<1>2. StartupInv' /\ \A q \in Processes \ {p} : phase'[q] = phase[q]
  BY <1>1, StartupPreserved, ServingOrDown DEF DeploymentInv
<1>3. accounts' = accounts /\ answer' = answer
  BY <1>1 DEF WithItsCalls
<1>4. DeploymentTypeOK'
  BY <1>1, <1>2, <1>3 DEF WithItsCalls, DeploymentInv, DeploymentTypeOK, StartupInv
<1>5. ASSUME NEW c \in Calls PROVE CallInv(c)'
  <2>1. pc'[c] # "lost" => pc'[c] = pc[c] /\ at'[c] = at[c]
    BY <1>1 DEF WithItsCalls
  <2>2. \A d \in Calls : pc'[d] = "commit" => pc[d] = "commit"
    BY <1>1 DEF WithItsCalls
  <2>3. phase[p] \in {"bind", "up"} => phase'[p] \in {"bind", "up", "down"}
    BY <1>1, ServingOrDown DEF DeploymentInv
  <2>4. ASSUME pc'[c] \in {"insert", "commit", "cache"}
        PROVE  /\ at'[c] = at[c] /\ at[c] \in Processes
               /\ phase[at[c]] \in {"bind", "up"} /\ phase'[at[c]] \in {"bind", "up"}
    <3>1. pc'[c] = pc[c] /\ at'[c] = at[c]
      BY <2>1, <2>4
    <3>2. at[c] \in Processes /\ phase[at[c]] \in {"bind", "up"}
      BY <2>4, <3>1 DEF DeploymentInv, CallInv
    <3>3. at[c] = p => phase'[p] # "down"
      BY <1>1, <2>4 DEF WithItsCalls
    <3> QED
      BY <1>2, <2>3, <3>1, <3>2, <3>3
  <2>5. pc'[c] = "cache" => cache'[at[c]] = cache[at[c]]
    BY <1>1, <2>4 DEF WithItsCalls, HydrateStep, DeploymentInv, DeploymentTypeOK
  <2> QED
    BY <1>3, <2>1, <2>2, <2>4, <2>5 DEF DeploymentInv, CallInv, ParentExists
<1>6. MapsAreCommitted'
  BY <1>1, <1>3 DEF WithItsCalls, MapsAreCommitted, DeploymentInv, DeploymentTypeOK
<1>7. CreatedOnce' /\ ParentsFormATree'
  BY <1>3 DEF DeploymentInv, CreatedOnce, ParentsFormATree
<1> QED
  BY <1>2, <1>4, <1>5, <1>6, <1>7 DEF DeploymentInv

-----------------------------------------------------------------------------
\* A call that begins is served by a process whose servers are open.
LEMMA BeginPreserves ==
    ASSUME DeploymentInv, NEW c \in Calls, NEW p \in Processes,
           CreateByRest(c, p) \/ CreateByGrpc(c, p)
    PROVE  DeploymentInv'
<1> USE DEF DeploymentInv
<1>1. /\ phase[p] \in {"bind", "up"}
      /\ pc[c] = "new"
      /\ UNCHANGED <<boot, accounts, cache>>
  BY DEF CreateByRest, CreateByGrpc, Begin, StartupInv
<1>2. \/ /\ pc' = [pc EXCEPT ![c] = "insert"]
         /\ at' = [at EXCEPT ![c] = p]
         /\ answer' = answer
      \/ Return(c, "error") \/ Return(c, "unauthenticated")
  BY DEF CreateByRest, CreateByGrpc, Begin
<1>3. StartupInv'
  BY <1>1 DEF boot, StartupInv, StartupTypeOK, MigrationsAlone
<1>4. DeploymentTypeOK'
  BY <1>1, <1>2, <1>3 DEF DeploymentTypeOK, StartupInv, Return
<1>5. ASSUME NEW d \in Calls PROVE CallInv(d)'
  BY <1>1, <1>2 DEF CallInv, ParentExists, Return, boot, DeploymentTypeOK
<1>6. MapsAreCommitted' /\ CreatedOnce' /\ ParentsFormATree'
  BY <1>1, <1>2 DEF MapsAreCommitted, CreatedOnce, ParentsFormATree, Return, DeploymentTypeOK
<1> QED
  BY <1>3, <1>4, <1>5, <1>6

\* The insert takes an id nobody has, or gives up; a failure gives up as well.
LEMMA InsertPreserves ==
    ASSUME DeploymentInv, NEW c \in Calls, InsertAccount(c) \/ CallFails(c)
    PROVE  DeploymentInv'
<1> USE DEF DeploymentInv
<1>1. UNCHANGED <<boot, accounts, cache>> /\ pc[c] \in {"insert", "commit"}
  BY DEF InsertAccount, CallFails
<1>2. \/ /\ pc' = [pc EXCEPT ![c] = "commit"] /\ UNCHANGED <<at, answer>>
         /\ pc[c] = "insert" /\ Holders(c) = {}
         /\ ~Conflicts(c) /\ ParentExists(c)
      \/ Return(c, "error")
  BY DEF InsertAccount, CallFails
<1>3. StartupInv'
  BY <1>1 DEF boot, StartupInv, StartupTypeOK, MigrationsAlone
<1>4. DeploymentTypeOK'
  BY <1>1, <1>2, <1>3 DEF DeploymentTypeOK, StartupInv, Return
<1>5. ASSUME NEW d \in Calls PROVE CallInv(d)'
  BY <1>1, <1>2 DEF CallInv, ParentExists, Conflicts, Holders, Return, boot, DeploymentTypeOK
<1>6. MapsAreCommitted' /\ CreatedOnce' /\ ParentsFormATree'
  BY <1>1, <1>2 DEF MapsAreCommitted, CreatedOnce, ParentsFormATree, Return, DeploymentTypeOK
<1> QED
  BY <1>3, <1>4, <1>5, <1>6

\* The commit adds one row, under a parent that was there before it or is itself.
LEMMA CommitPreserves ==
    ASSUME DeploymentInv, NEW c \in Calls, CommitAccount(c)
    PROVE  DeploymentInv'
<1> DEFINE id == AccountId(c)
<1> USE DEF DeploymentInv
<1>1. /\ pc[c] = "commit" /\ UNCHANGED <<boot, cache>>
      /\ id \notin DOMAIN accounts
      /\ accounts' = [x \in DOMAIN accounts \cup {id} |->
                        IF x \in DOMAIN accounts THEN accounts[x] ELSE c]
  BY DEF CommitAccount, Committed, CallInv
<1>2. \/ pc' = [pc EXCEPT ![c] = "cache"] /\ UNCHANGED <<at, answer>>
      \/ Return(c, "error")
  BY DEF CommitAccount
<1>3. StartupInv'
  BY <1>1 DEF boot, StartupInv, StartupTypeOK, MigrationsAlone
<1>4. DeploymentTypeOK'
  BY <1>1, <1>2, <1>3, ZenonT(60) DEF DeploymentTypeOK, StartupInv, Return
<1>5. ASSUME NEW d \in Calls PROVE CallInv(d)'
  <2>1. CASE d = c
    BY <1>1, <1>2, <2>1 DEF CallInv, Return, boot, DeploymentTypeOK, MapsAreCommitted
  <2>2. CASE d # c
    <3>1. pc'[d] = pc[d] /\ at'[d] = at[d]
      BY <1>2, <2>2 DEF Return, DeploymentTypeOK
    <3>2. pc[d] = "commit" => AccountId(d) # id
      BY <1>1, <2>2 DEF CallInv
    <3>3. \A e \in Calls : pc'[e] = "commit" => pc[e] = "commit"
      BY <1>2 DEF Return, DeploymentTypeOK
    <3> QED
      BY <1>1, <3>1, <3>2, <3>3 DEF CallInv, ParentExists, boot
  <2> QED
    BY <2>1, <2>2
<1>6. MapsAreCommitted'
  BY <1>1 DEF MapsAreCommitted
<1>7. CreatedOnce'
  BY <1>1, <1>2 DEF CreatedOnce, Return, DeploymentTypeOK
<1>8. ParentsFormATree'
  <2> DEFINE parent(x) == Parent(accounts'[x])
  <2>1. \A x \in DOMAIN accounts : accounts'[x] = accounts[x]
    BY <1>1
  <2>2. accounts'[id] = c /\ Parent(c) \in DOMAIN accounts \cup {id, None}
    BY <1>1 DEF CallInv, ParentExists
  <2>3. \A x \in DOMAIN accounts' : parent(x) \in DOMAIN accounts' \cup {None}
    BY <1>1, <2>1, <2>2 DEF ParentsFormATree
  <2>4. ASSUME NEW S \in SUBSET DOMAIN accounts', S # {}
        PROVE  \E x \in S : parent(x) = x \/ parent(x) \notin S
    <3>1. CASE S \ {id} = {}
      BY <2>4, <3>1
    <3>2. CASE S \ {id} # {}
      <4>1. S \ {id} \in SUBSET DOMAIN accounts
        BY <1>1
      <4>2. PICK x \in S \ {id} : \/ Parent(accounts[x]) = x
                                  \/ Parent(accounts[x]) \notin S \ {id}
        BY <3>2, <4>1 DEF ParentsFormATree
      <4>3. x \in DOMAIN accounts /\ Parent(accounts[x]) \in DOMAIN accounts \cup {None}
        BY <4>1 DEF ParentsFormATree
      <4>4. CASE Parent(accounts[x]) # id
        BY <2>1, <4>2, <4>3, <4>4
      <4>5. CASE Parent(accounts[x]) = id
        BY <1>1, <4>3, <4>5, NoneAssumption
      <4> QED
        BY <4>4, <4>5
    <3> QED
      BY <3>1, <3>2
  <2> QED
    BY <2>3, <2>4 DEF ParentsFormATree
<1> QED
  BY <1>3, <1>4, <1>5, <1>6, <1>7, <1>8
-----------------------------------------------------------------------------
\* The map takes the account in, and the caller is told what is in the table.
LEMMA CachePreserves ==
    ASSUME DeploymentInv, NEW c \in Calls, CacheAccount(c)
    PROVE  DeploymentInv'
<1> DEFINE id == AccountId(c)
           p == at[c]
<1> USE DEF DeploymentInv
<1>1. /\ pc[c] = "cache" /\ UNCHANGED <<boot, accounts>>
      /\ cache' = [cache EXCEPT ![p] = @ \cup {id}]
      /\ Return(c, "created")
      /\ id \in DOMAIN accounts /\ accounts[id] = c /\ p \in Processes
  BY DEF CacheAccount, CallInv
<1>2. StartupInv'
  BY <1>1 DEF boot, StartupInv, StartupTypeOK, MigrationsAlone
<1>3. DeploymentTypeOK'
  BY <1>1, <1>2 DEF DeploymentTypeOK, StartupInv, Return
<1>4. ASSUME NEW d \in Calls PROVE CallInv(d)'
  <2>1. CASE d = c
    BY <1>1, <2>1 DEF CallInv, Return, DeploymentTypeOK
  <2>2. CASE d # c
    <3>1. pc'[d] = pc[d] /\ at'[d] = at[d]
      BY <1>1, <2>2 DEF Return, DeploymentTypeOK
    <3>2. \A e \in Calls : pc'[e] = "commit" => pc[e] = "commit"
      BY <1>1 DEF Return, DeploymentTypeOK
    <3>3. pc[d] = "cache" => AccountId(d) # id
      BY <1>1, <2>2 DEF CallInv
    <3>4. pc[d] = "cache" => AccountId(d) \notin cache'[at[d]]
      BY <1>1, <3>3 DEF CallInv, DeploymentTypeOK
    <3> QED
      BY <1>1, <3>1, <3>2, <3>4 DEF CallInv, ParentExists, boot
  <2> QED
    BY <2>1, <2>2
<1>5. MapsAreCommitted'
  BY <1>1 DEF MapsAreCommitted, DeploymentTypeOK
<1>6. CreatedOnce'
  BY <1>1 DEF CreatedOnce, Return, DeploymentTypeOK
<1>7. ParentsFormATree'
  BY <1>1 DEF ParentsFormATree
<1> QED
  BY <1>2, <1>3, <1>4, <1>5, <1>6, <1>7

LEMMA DeploymentPreserved ==
    DeploymentInv /\ [DeploymentNext]_<<boot, creation>> => DeploymentInv'
<1> SUFFICES ASSUME DeploymentInv, [DeploymentNext]_<<boot, creation>> PROVE DeploymentInv'
  OBVIOUS
<1>1. ASSUME NEW c \in Calls, CallStep(c) PROVE DeploymentInv'
  <2>1. ASSUME NEW p \in Processes, CreateByRest(c, p) \/ CreateByGrpc(c, p)
        PROVE  DeploymentInv'
    BY <2>1, BeginPreserves
  <2>2. CASE InsertAccount(c) \/ CallFails(c)
    BY <2>2, InsertPreserves
  <2>3. CASE CommitAccount(c)
    BY <2>3, CommitPreserves
  <2>4. CASE CacheAccount(c)
    BY <2>4, CachePreserves
  <2> QED
    BY <1>1, <2>1, <2>2, <2>3, <2>4 DEF CallStep, Create
<1>2. ASSUME NEW p \in Processes, ProcessStep(p) PROVE DeploymentInv'
  BY <1>2, ProcessPreserves
<1>3. CASE UNCHANGED <<boot, creation>>
  <2> USE <1>3 DEF boot, creation, DeploymentInv
  <2>1. StartupInv'
    BY DEF StartupInv, StartupTypeOK, MigrationsAlone
  <2>2. DeploymentTypeOK'
    BY <2>1 DEF DeploymentTypeOK, StartupInv
  <2>3. \A c \in Calls : CallInv(c)'
    BY DEF CallInv, ParentExists
  <2> QED
    BY <2>1, <2>2, <2>3 DEF MapsAreCommitted, CreatedOnce, ParentsFormATree
<1> QED
  BY <1>1, <1>2, <1>3 DEF DeploymentNext

-----------------------------------------------------------------------------
LEMMA DeploymentInvariant == DeploymentSpec => []DeploymentInv
BY DeploymentInitially, DeploymentPreserved, PTL DEF DeploymentSpec

\* The variables of the service's start and of its accounts keep their types.
THEOREM DeploymentTypeCorrect == DeploymentSpec => []DeploymentTypeOK
<1>1. DeploymentInv => DeploymentTypeOK
  BY DEF DeploymentInv
<1> QED
  BY <1>1, DeploymentInvariant, PTL

\* However many processes start on an empty database, and whenever they die: migrations 2
\* and 3 are run by one of them, once, and whoever serves without the triggers is waiting
\* for that one, which is at work on them unless a process has died (run_migrations).
THEOREM MigrationsOnce == DeploymentSpec => []MigrationsRunOnce
<1>1. DeploymentInit => OnTheWay
  BY DEF DeploymentInit, Init, OnTheWay
<1>2. DeploymentInv /\ OnTheWay /\ [DeploymentNext]_<<boot, creation>> => OnTheWay'
  <2> SUFFICES ASSUME DeploymentInv, OnTheWay, [DeploymentNext]_<<boot, creation>>
               PROVE  OnTheWay'
    OBVIOUS
  <2>1. CASE UNCHANGED boot
    BY <2>1 DEF boot, OnTheWay
  <2>2. ASSUME NEW p \in Processes, ProcessStep(p) PROVE OnTheWay'
    BY <2>2, WayGoesOn DEF ProcessStep, Run, DeploymentInv
  <2>3. ASSUME NEW c \in Calls, CallStep(c) PROVE UNCHANGED boot
    <3>1. \A p \in Processes : CreateByRest(c, p) \/ CreateByGrpc(c, p) => UNCHANGED boot
      BY DEF CreateByRest, CreateByGrpc, Begin
    <3>2. Create(c) \/ CallFails(c) => UNCHANGED boot
      BY DEF Create, InsertAccount, CommitAccount, CacheAccount, CallFails
    <3> QED BY <2>3, <3>1, <3>2 DEF CallStep
  <2> QED BY <2>1, <2>2, <2>3 DEF DeploymentNext
<1>3. DeploymentInv /\ OnTheWay => MigrationsRunOnce
  BY DEF DeploymentInv, StartupInv, MigrationsAlone, OnTheWay, MigrationsRunOnce
<1> QED
  BY <1>1, <1>2, <1>3, DeploymentInvariant, PTL DEF DeploymentSpec

\* Of any number of calls for an id, through any processes, only the owner of the row
\* is told that it was created (create_account).
THEOREM AccountsCreatedOnce == DeploymentSpec => []CreatedOnce
<1>1. DeploymentInv => CreatedOnce
  BY DEF DeploymentInv
<1> QED
  BY <1>1, DeploymentInvariant, PTL

\* After its commit a call never meets its own id in the map (create_account, hydrate).
THEOREM CommittedCallsSucceed == DeploymentSpec => []CommittedIsCreated
<1>1. DeploymentInv => CommittedIsCreated
  BY DEF DeploymentInv, CallInv, CommittedIsCreated
<1> QED
  BY <1>1, DeploymentInvariant, PTL

\* No interleaving of calls makes a cycle of parents (accounts.parent_id).
THEOREM ParentsTree == DeploymentSpec => []ParentsFormATree
<1>1. DeploymentInv => ParentsFormATree
  BY DEF DeploymentInv
<1> QED
  BY <1>1, DeploymentInvariant, PTL
=============================================================================
