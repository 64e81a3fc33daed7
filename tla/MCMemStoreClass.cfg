SPECIFICATION Spec
CONSTANTS
    ASSET_REGISTRY <- MCAssets
    MAX_AMOUNT = 3
    MAX_ENTRIES_PER_POSTING = 4
    Salt = "salt"
    Requests <- CrossClassRequests
    Payload <- CrossClassPayload
    AccountRequests <- MCAccountRequests
    GeneratedIds <- MCGeneratedIds
    None = None
    TreasuryCalls = {}
INVARIANT
    AssetClassRespected
