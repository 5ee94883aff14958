CONSTANTS
    j1 = j1
    j2 = j2
    j3 = j3
    j4 = j4
    a = a
    b = b
    None = None
    Jobs = {j1, j2, j3}
    IdOf <- MCIdOf
    Prompt <- MCPrompt
    MaxTokens <- MCMaxTokens
    Boundary <- MCBoundary
    Residents = 2
    TokenBudget = 2
    BatchCapacity = 0
    PrefillSizes = {2}
    Uncaptured = FALSE
    QueueCap = 2
    OutCap = 1
    Shutters = {s1}
    Slow = {}

SPECIFICATION Spec
CHECK_DEADLOCK FALSE

INVARIANTS
    RequestsAccounted
    ResponsesExact
