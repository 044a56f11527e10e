SPECIFICATION Spec
CONSTANTS
    Unpriced = Unpriced
    Null = Null
    MCNull = Null
    Pricing <- MCPricing
    Calls = {"dated", "responses", "clamped", "failed", "unpriced", "nameless", "hit"}
    Call <- MCCall
    Origin <- MCOrigin
    Tokens <- MCTokens
    Invoice <- MCInvoice
    FullPrice <- MCFullPrice
    UnpricedLimit = 1
    Days = {0, 1}
    Windows <- MCWindows
    Buckets = {1, 2}
    MaxClock = 2
    MaxCalls = 2
INVARIANTS
    IInv
    ReportsAgree
    CostsReconcile
    EveryRowAccountedFor
    WarnedOnce
PROPERTIES
    SettledWindowsOnlyShrink
    PruneKeepsRecent
    DryRunPromises
