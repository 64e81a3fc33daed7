SPECIFICATION ServiceSpec
CONSTANTS
    ASSET_REGISTRY <- MCAssets
    MAX_AMOUNT = 3
    MAX_ENTRIES_PER_POSTING = 4
    Salt = "salt"
    Requests <- ServiceRequests
    Payload <- ServicePayload
    AccountRequests <- ServiceAccountRequests
    GeneratedIds <- MCGeneratedIds
    None = None
    TreasuryCalls = {}
    Limits = {1, 2}
INVARIANTS
    SnapshotPlusDelta
    SnapshotsReconcile
    PagesFollowOn
PROPERTY
    LastPageCompletes
