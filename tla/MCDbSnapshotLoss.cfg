SPECIFICATION ReadsSpec
CONSTANTS
    ASSET_REGISTRY <- MCAssets
    MAX_AMOUNT = 3
    MAX_ENTRIES_PER_POSTING = 3
    Salt = "salt"
    Requests <- MCRequests
    Payload <- MCPayload
    AccountTable <- MCAccountTable
    Replicas = {"a"}
    FirstUp = {"a"}
    Isolations = {"serializable"}
    Connections = 3
    MaxInFlight = 1
    Faults = {}
    None = None
    Callers = {"reader"}
    Asked <- MCAsked
    Limit = 1
    Failing = {"page"}
    MaxNow = 0
INVARIANT
    BalanceIsOfAMoment
CHECK_DEADLOCK FALSE
