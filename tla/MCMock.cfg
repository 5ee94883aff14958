CONSTANTS
    NumPages = 4
    NumSlots = 3
    PageTokens = 2
    Generations = 8
    Requests <- MCRequests
    Batch = 2
    TokenBudget = 3
    MaxContext = 9
    MaxSubmits = 5
    c1 = c1
    c2 = c2
    Calls = {c1, c2}
    Ids = {"a", "b"}
    MaxNew <- MCMaxNew
    Aborts = {"a"}
    Shutters = {"s1"}
    CmdCap = 2
    OutCap = 1
SPECIFICATION MockSpec
CHECK_DEADLOCK FALSE
INVARIANTS LedgersAgree StreamsExact
PROPERTIES AdmittedEnds EveryoneAnswered
