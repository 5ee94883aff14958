CONSTANTS
    j1 = j1
    j2 = j2
    j3 = j3
    j4 = j4
    a = a
    b = b
    None = None
    Jobs = {j2, j4}
    IdOf <- MCIdOf
    Prompt <- MCPrompt
    MaxTokens <- MCMaxTokens
    Boundary <- MCBoundary
    Residents = 2
    TokenBudget = 2
    BatchCapacity = 2
    PrefillSizes = {2}
    Uncaptured = TRUE
    QueueCap = 2
    OutCap = 1
    Shutters = {s1, s2}
    Slow = {j2}

SPECIFICATION FairSpec
CHECK_DEADLOCK FALSE

INVARIANTS
    NativeCallSound
    ShutdownWaits
PROPERTIES
    RequestsEnd
