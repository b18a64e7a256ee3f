SPECIFICATION FairSpec
CONSTANTS
    deployer = deployer
    k1 = k1
    k2 = k2
    Deployer = deployer
    Envs <- MCEnvs
    Sites <- MCSites
    Contents <- MCContents
    SingleUploadLimit = 3
    StorageChunkLimit = 2
    BatchMaxItems = 2
    BatchMaxBytes = 3
    MaxRuns = 2
    MaxFaults = 2
INVARIANTS
    LaunchTypeOK
    FilesAreTrue
    ServedDropWorks
PROPERTIES
    ForcedLaunchFinishes
CHECK_DEADLOCK FALSE
