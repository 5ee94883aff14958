CONSTANTS
    NumPages = 4
    NumSlots = 2
    PageTokens = 2
    Generations = 16
    Fixtures <- MCFixtures
    Never = 1000
    Batch = 1
    TokenBudget = 3
    MaxContext = 13
    Requests = {q1, q2}
    Epochs = {e1, e2}
    TokenCounts = {1, 5}
    Keys = {ours, foreign}
    Key = ours
    States <- MCStates
    MaxLeases = 3
    Variants <- MCVariants
    Identities = {mine, theirs}
    Identity = mine
    Prompts <- MCPrompts
    Histories <- MCHistories
    Index = 1
    Alignment = 1
    MaxEntries = 3
    MaxTokenUnits = 8
    MaxGeneration = 4
    Residents = {r1, r2}
    MaxPosition = 5
SPECIFICATION LedgersSpec
SYMMETRY MCSymmetry
CHECK_DEADLOCK FALSE
INVARIANTS
    RunsToItsReport
    HandoversExact
    IndexExact
    SamePrefixExact
