CONSTANTS
    Libraries <- MCLibraries
    MemberSets <- MCMemberSets
    MAX_DEPTH = 10
    MAX_PATH = 6
    MAX_STEPS = 40
    MAX_INSTANCES = 6
    MAX_ITERATIONS = 4
    MAX_FIELDS = 2
    MAX_SHAPE = 3
    MAX_PARAMETERS = 2
    ALIGNMENT = 20
    MAX_BYTES = 100
    MAX_NODES = 3
    Absent = Absent
    Leaf <- MCLeaf
    Palette <- MCPalette
    OutputLists <- MCOutputLists
    UpdateMaps <- MCUpdateMaps
    OptionSets <- MCOptionSets
    MaxNodes = 3
    MaxRuns = 2
    MaxBindings = 1
    FOLD_WORK = 3
    BLOCK_WORK = 6
    MAX_WORK = 6
    Drafts <- MCDrafts
    Templates <- MCTemplates
    MeshSpecs <- MCMeshSpecs
    MaxDimension = 16
    MaxLayers = 2
    MaxBuckets = 2
    BatchOfRoles = {"Prefill", "Decode"}
    Writers = {"one", "two", "other"}
    PidOf <- MCPidOf
    Keys = {"k"}
    BundleFiles <- MCBundleFiles
    MaxCrashes = 1
    MaxCalls = 2
    Deployments <- MCDeployments
    LatentPage = 2
    PackedPage = 4
    IndexPage = 8
    BaseRows = 8
    ExactWidths = {2, 4}
    UncapturedWidth = 3
    MaxResidents = 2
    MaxVariants = 3
    Invocations <- MCInvocations
    Preparations <- MCPreparations
    Residencies <- MCResidencies
    MaxU64 = 63
    MaxI64 = 31
    MaxPorts = 2
    MaxWorkspaceAlignment = 4
SPECIFICATION ArtifactsSpec
CHECK_DEADLOCK FALSE
INVARIANTS ExpansionMeans PlansSafe ValuesIntact LoweredLoads KernelsGetTheirInput StreamsFinish EnvelopeServes BoundIsSafe
PROPERTIES PublishedOnce Implements
