SPECIFICATION FairRuntimeSpec
CONSTANTS
    MaxSpawns = 2
    MaxGeneration = 1
    MaxSpawnFailures = 0
    PipeCapacity = 1
    MaxBatches = 1
    MaxFaults = 2
    RetryAttempts = 1
PROPERTIES
    ShutdownCompletes
    RebuildConverges
    LockIsReleased
    WorkerIsRestarted
