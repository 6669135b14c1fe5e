CONSTANTS
    PoolSize = 3
    MaxFrames = 5
    UdpTopics = {"imu", "pose"}
    Creator <- TheCreator
    Method <- TheMethod
    MaxStarts <- TheStarts
    MaxLost = 2
    MaxData = 1
    MaxImu = 4
    MaxCam = 3
    MaxScenes = 2
    ChunkCount = 3
    CompressWorkers = 1
    QueueCap = 1
    MaxPairs = 4
    Names = {"imu", "pose"}
    Plugins = {"p"}
    Callbacks = {"c", "d"}
    TurnSteps = 3
    Askers = {"app", "warp"}
    MaxSets = 1

SPECIFICATION PartsSpec

INVARIANTS
    PartsTypeOK
    PoolAsserts
    FramePosePaired
    UdpMethodAgrees
    StreamsIntact
    CameraCaptured
    MergeIsComplete
    CleansOnce
    PairsMatch
    OneTopicPerName
    OriginKept

PROPERTIES
    ShownForward
    AnnouncementArrives
    ScenesIntegrated
    RegistryStopReturns
