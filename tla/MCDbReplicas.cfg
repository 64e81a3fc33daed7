SPECIFICATION FairSpec
CONSTANTS
    ASSET_REGISTRY <- MCAssets
    MAX_AMOUNT = 3
    MAX_ENTRIES_PER_POSTING = 2
    Salt = "salt"
    Requests <- ClashRequests
    Payload <- ClashPayload
    AccountTable <- MCAccountTable
    Replicas = {"a", "b"}
    FirstUp = {"a"}
    Isolations = {"serializable", "read committed"}
    Connections = 2
    MaxInFlight = 3
    Faults = {"query", "head", "commit"}
    None = None
INVARIANTS
    AnswersDurable
    CacheIsCommitted
    AuditIsTrue
PROPERTIES
    RequestsEnd
    AcknowledgedIsAudited
CHECK_DEADLOCK FALSE
