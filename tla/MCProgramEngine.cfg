CONSTANTS
    pages = pages
    states = states
    k1 = k1
    k2 = k2
    k3 = k3
    k4 = k4
    a = a
    b = b
    Pools = {pages, states}
    RankOf <- MCRankOf
    Capacity <- MCCapacity
    PageTokens <- MCPageTokens
    MaxTokens <- MCMaxTokens
    Full <- MCFull
    MaxContext = 4
    Requests <- MCRequests
    MaxSerial = 16
    NumRanks = 2
    ActiveSlots = 1
    SnapshotSlots = 2
    Kinds = {k1, k2, k3}
    Prompt <- MCPrompt
    Namespace <- MCNamespace
    MaxNew <- MCMaxNew
    Alignment = 1
    PrefillSizes = {2}
    TokenBudget = 2
    Uncaptured = FALSE
    Batched = FALSE

SPECIFICATION EngineSpec
CHECK_DEADLOCK FALSE

INVARIANTS
    LeasesAccounted
    StatesExact

PROPERTIES
    PoisonStopsDevice
