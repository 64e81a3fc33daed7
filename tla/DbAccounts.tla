----------------------------- MODULE DbAccounts -----------------------------
(***************************************************************************)
(* Accounts created in the database (Store::create_account with a pool)    *)
(* through the REST and the gRPC server of processes that start, serve and *)
(* stop as Startup has it.                                                 *)
(***************************************************************************)
EXTENDS Startup

CONSTANTS
    Calls,           \* calls of create_account
    Definition,      \* call -> [account_id, parent_id, valid, caller]
    AllowedCallers,  \* whom the gRPC server serves
    None

VARIABLES
    accounts,  \* committed rows: account_id -> the call that defined it
    cache,     \* process -> the account_ids in the map of its LedgerState
    pc,        \* call -> what it does next
    at,        \* call -> the process that serves it, while it is served
    answer     \* call -> what its caller has been told

creation == <<accounts, cache, pc, at, answer>>

-----------------------------------------------------------------------------
\* Uuid::now_v7 if the call names no account.
AccountId(c) == IF Definition[c].account_id = None THEN c ELSE Definition[c].account_id
Parent(c) == Definition[c].parent_id

ASSUME NoneAssumption == \A c \in Calls : AccountId(c) # None

DeploymentInit == /\ Init
                  /\ accounts = <<>>
                  /\ cache = [p \in Processes |-> {}]
                  /\ pc = [c \in Calls |-> "new"]
                  /\ at = [c \in Calls |-> None]
                  /\ answer = [c \in Calls |-> "none"]

Return(c, told) == /\ pc' = [pc EXCEPT ![c] = "done"]
                   /\ at' = [at EXCEPT ![c] = None]
                   /\ answer' = [answer EXCEPT ![c] = told]

\* create_account begins: account::validate, then BEGIN.
Begin(c, p) ==
    /\ IF Definition[c].valid
       THEN /\ pc' = [pc EXCEPT ![c] = "insert"]
            /\ at' = [at EXCEPT ![c] = p]
            /\ UNCHANGED answer
       ELSE Return(c, "error")
    /\ UNCHANGED <<boot, accounts, cache>>

\* The REST handler.
CreateByRest(c, p) == pc[c] = "new" /\ "rest" \in doors[p] /\ Begin(c, p)

\* The gRPC handler: authorize, then the same.
CreateByGrpc(c, p) ==
    /\ pc[c] = "new" /\ "grpc" \in doors[p]
    /\ \/ Definition[c].caller \in AllowedCallers /\ Begin(c, p)
       \/ /\ Definition[c].caller \notin AllowedCallers
          /\ Return(c, "unauthenticated")
          /\ UNCHANGED <<boot, accounts, cache>>

\* Transactions that have inserted a row with the id and not yet committed it.
Holders(c) == {d \in Calls : pc[d] = "commit" /\ AccountId(d) = AccountId(c)}

\* ON CONFLICT DO NOTHING inserts no row for a committed id: rows_affected is 0.  (If
\* the call went on without looking at it.)
NeverAffected(c) == FALSE
Conflicts(c) == AccountId(c) \in DOMAIN accounts

\* REFERENCES accounts(account_id): a committed row, or the inserted one.
AnyParent(c) == TRUE
ParentExists(c) == Parent(c) \in DOMAIN accounts \cup {AccountId(c), None}

\* INSERT INTO accounts ... ON CONFLICT (account_id) DO NOTHING.  While another
\* transaction holds the id it waits; should that commit, this one inserts nothing, or
\* fails if it is serializable: an error either way.
InsertAccount(c) ==
    /\ pc[c] = "insert"
    /\ Holders(c) = {}
    /\ IF Conflicts(c) \/ ~ParentExists(c)
       THEN Return(c, "error")
       ELSE pc' = [pc EXCEPT ![c] = "commit"] /\ UNCHANGED <<at, answer>>
    /\ UNCHANGED <<boot, accounts, cache>>

\* A round trip fails, and the transaction is rolled back.
CallFails(c) ==
    /\ pc[c] \in {"insert", "commit"}
    /\ Return(c, "error")
    /\ UNCHANGED <<boot, accounts, cache>>

\* The table with the row of a call, unless there was one with its id.  (Or the row
\* under an id of its own, which the caller had not chosen.)
CommittedUnderCall(c) == [id \in DOMAIN accounts \cup {c} |->
                             IF id \in DOMAIN accounts THEN accounts[id] ELSE c]
Committed(c) == [id \in DOMAIN accounts \cup {AccountId(c)} |->
                    IF id \in DOMAIN accounts THEN accounts[id] ELSE c]

\* COMMIT; its acknowledgement may be lost.
CommitAccount(c) ==
    /\ pc[c] = "commit"
    /\ accounts' = Committed(c)
    /\ \/ pc' = [pc EXCEPT ![c] = "cache"] /\ UNCHANGED <<at, answer>>
       \/ Return(c, "error")
    /\ UNCHANGED <<boot, cache>>

\* The process's own map, where the account must be new as well.
CacheAccount(c) ==
    /\ pc[c] = "cache"
    /\ cache' = [cache EXCEPT ![at[c]] = @ \cup {AccountId(c)}]
    /\ Return(c, IF AccountId(c) \in cache[at[c]] THEN "error" ELSE "created")
    /\ UNCHANGED <<boot, accounts>>

\* What a step of the process means here: hydrate reads the accounts into the map, a
\* process that ends loses its map and its calls.  (If it could hydrate when it serves.)
HydrateLate == "bind"
HydrateStep == "hydrate"
WithItsCalls(p) ==
    /\ cache' = [cache EXCEPT ![p] = IF phase'[p] = "down" THEN {}
                                     ELSE IF phase[p] = HydrateStep THEN DOMAIN accounts
                                     ELSE @]
    /\ LET lost == IF phase'[p] = "down" THEN {c \in Calls : at[c] = p} ELSE {}
       IN  /\ pc' = [c \in Calls |-> IF c \in lost THEN "lost" ELSE pc[c]]
           /\ at' = [c \in Calls |-> IF c \in lost THEN None ELSE at[c]]
    /\ UNCHANGED <<accounts, answer>>

-----------------------------------------------------------------------------
Create(c) == InsertAccount(c) \/ CommitAccount(c) \/ CacheAccount(c)
Run(p) == Main(p) /\ WithItsCalls(p)

ProcessStep(p) ==
    \/ Run(p)
    \/ OpenGrpc(p) /\ WithItsCalls(p)
    \/ Die(p) /\ WithItsCalls(p)

CallStep(c) ==
    \/ \E p \in Processes : CreateByRest(c, p) \/ CreateByGrpc(c, p)
    \/ Create(c) \/ CallFails(c)

DeploymentNext == \/ \E c \in Calls : CallStep(c)
                  \/ \E p \in Processes : ProcessStep(p)

\* A process takes its steps, one that has ended is restarted; a call that has begun
\* is given its turns.
DeploymentSpec == /\ DeploymentInit /\ [][DeploymentNext]_<<boot, creation>>
                  /\ \A p \in Processes : WF_<<boot, creation>>(Run(p))
                  /\ \A c \in Calls : WF_<<boot, creation>>(Create(c))

-----------------------------------------------------------------------------
DeploymentTypeOK ==
    /\ StartupTypeOK
    /\ DOMAIN accounts \subseteq {AccountId(c) : c \in Calls}
    /\ \A id \in DOMAIN accounts : accounts[id] \in Calls /\ AccountId(accounts[id]) = id
    /\ cache \in [Processes -> SUBSET {AccountId(c) : c \in Calls}]
    /\ pc \in [Calls -> {"new", "insert", "commit", "cache", "done", "lost"}]
    /\ at \in [Calls -> Processes \cup {None}]
    /\ answer \in [Calls -> {"none", "created", "error", "unauthenticated"}]

\* A caller that was told its account is created has it in the database as it defined
\* it, whichever process and server answered and whoever else asked for the same id
\* meanwhile (create_account, rows_affected).
CreatedOnce ==
    \A c \in Calls : answer[c] = "created" =>
        AccountId(c) \in DOMAIN accounts /\ accounts[AccountId(c)] = c

\* A call that has committed its account does not fail on the map afterwards: the map
\* cannot have it already, as a process hydrates before it serves (create_account
\* would report "account already exists" of the account it has just created).
CommittedIsCreated ==
    \A c \in Calls : pc[c] = "cache" =>
        AccountId(c) \in DOMAIN accounts /\ AccountId(c) \notin cache[at[c]]

\* Every parent is an account, and following parents from one leads to an account
\* without, or that is its own: concurrent calls that name each other as parent cannot
\* both succeed (accounts.parent_id REFERENCES accounts).
ParentsFormATree ==
    LET parent(id) == Parent(accounts[id])
    IN  /\ \A id \in DOMAIN accounts : parent(id) \in DOMAIN accounts \cup {None}
        /\ \A S \in SUBSET DOMAIN accounts :
              S # {} => \E id \in S : parent(id) = id \/ parent(id) \notin S

\* A process whose environment is complete serves REST in the end and goes on serving,
\* although others start beside it on the same database and some starts fail: what an
\* interrupted boot leaves does not keep the next from starting (run_migrations).
ConfiguredServes ==
    \A p \in Processes :
        Env[p].isolation = "serializable" /\ AuditStarts(p) /\ SecretAccepted(p)
            => <>[]("rest" \in doors[p])
=============================================================================
