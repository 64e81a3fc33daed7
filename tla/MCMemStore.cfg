SPECIFICATION Spec
CONSTANTS
    ASSET_REGISTRY <- MCAssets
    MAX_AMOUNT = 3
    MAX_ENTRIES_PER_POSTING = 4
    Salt = "salt"
    Requests <- MCRequests
    Payload <- MCPayload
    AccountRequests <- MCAccountRequests
    GeneratedIds <- MCGeneratedIds
    None = None
    TreasuryCalls <- MCTreasuryCalls
INVARIANTS
    TypeOK
    ChainVerifies
    RowsAgree
    TrialBalance
    OneResultPerPosting
    AuditMirrorsPostings
    OkMeansBooked
PROPERTIES
    AppendOnly
    RefinesJournal
