CONSTANTS
    NumPages = 5
    NumSlots = 4
    PageTokens = 1
    Generations = 1
    Requests <- MCStarvedRequests
    Batch = 4
    TokenBudget = 8
    MaxContext = 8
    MaxSubmits = 1
SPECIFICATION LiveSpec
PROPERTY AdmittedEnds
