CONSTANTS
    ring0 = ring0
    kv1 = kv1
    conv0 = conv0
    Pools <- MCPools
    RankOf <- MCRankOf
    Capacity <- MCCapacity
    PageTokens <- MCPageTokens
    MaxTokens <- MCMaxTokens
    Full <- MCFull
    MaxContext = 3
    Requests = {r1, r2}
    MaxSerial = 5

SPECIFICATION Spec
SYMMETRY MCSymmetry

INVARIANTS
    TypeOK
    UnitsPartitioned
    LeasesGuarded
    RowsDisjoint

PROPERTIES
    FreshHandles
    LeasesLast
