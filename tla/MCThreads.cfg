CONSTANTS
    Ranks = {1, 2, 3}
    BatchBuckets = {1, 2}
    ContextBuckets = {2, 4}
    PageTokens = 2
    Faults = {"Validate", "Prepare", "Capture", "Ready"}
    Batches <- MCBatches
    MaxCalls = 3
    InboxCap = 2
    r1 = r1
    r2 = r2
    Submissions = {r1, r2}
    RequestId <- MCRequestId
    PromptLen <- MCPromptLen
    MaxTokens <- MCMaxTokens
    MinTokens <- MCMinTokens
    NumLanes = 2
    NumPeers = 1
    Context = 3
    Budgets = {1, 2}
    JobCap = 1
    AbortIds = {"a"}
SPECIFICATION ThreadsSpec
CHECK_DEADLOCK FALSE
INVARIANTS StepIsWholeGroup LanesExact
PROPERTIES GroupComesDown LanesDrain
