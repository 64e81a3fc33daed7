SPECIFICATION FairSpec
CONSTANTS
    ASSET_REGISTRY <- MCAssets
    MAX_AMOUNT = 3
    MAX_ENTRIES_PER_POSTING = 2
    Salt = "salt"
    Requests <- MCRequests
    Payload <- MCPayload
    AccountTable <- MCAccountTable
    Replicas = {"a"}
    FirstUp = {"a"}
    Isolations = {"serializable"}
    Connections = 4
    MaxInFlight = 3
    Faults = {"commit"}
    None = None
PROPERTY
    EveryPostingAudited
CHECK_DEADLOCK FALSE
