SPECIFICATION Spec
CONSTANTS
    Colors <- MCColors
    LayerOrder <- MCLayerOrder
    Groups <- MCGroups
    EyePairs <- MCEyePairs
    Alternates <- MCAlternates
    Contents <- MCContents
    SingleUploadLimit = 3
    StorageChunkLimit = 2
    MaxLayerCount = 5
    MaxSelectionsPerLayer = 3
    BodyLayer = 2
    BodyBaseLayer = 3
    Files <- MCFiles
    Trees <- MCTrees
    BytesOf <- MCBytesOf
    Edits <- MCEdits
    SmallBatchMaxItems = 4
    SmallBatchMaxBytes = 7
    RegisterBatchSize = 3
    MaxFailures = 1
    MaxDeploys = 2
    MaxUploads = 1
    MaxTokens = 1
INVARIANTS
    ReleaseTypeOK
    RecordsHoldTheirContent
    ManifestNamesContent
    PhilsShowTheirArt
PROPERTIES
    RecordsPermanent
    ReleasePublished
CHECK_DEADLOCK FALSE
