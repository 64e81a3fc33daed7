SPECIFICATION Spec
CONSTANTS
    ASSET_REGISTRY <- MCAssets
    MAX_AMOUNT = 3
    MAX_ENTRIES_PER_POSTING = 2
    Salt = "salt"
    Requests <- FaultyRequests
    Payload <- FaultyPayload
    AccountTable <- MCAccountTable
    Replicas = {"a"}
    FirstUp = {"a"}
    Isolations = {"serializable", "read committed"}
    Connections = 2
    MaxInFlight = 3
    Faults = {"query", "head", "commit", "crash", "kafka", "deactivate"}
    None = None
INVARIANTS
    PostingsWhole
    TrialBalance
    OnlyForksBreakTheChain
    AnswersDurable
    CacheIsCommitted
    ChainIsATree
    AuditIsTrue
PROPERTIES
    DbAppendOnly
    RefinesJournal
CHECK_DEADLOCK FALSE
