\* As the liveness run, but the process factory raises once.
SPECIFICATION FairRuntimeSpec
CONSTANTS
    MaxSpawns = 2
    MaxGeneration = 0
    MaxSpawnFailures = 1
    PipeCapacity = 1
    MaxBatches = 0
    MaxFaults = 1
    RetryAttempts = 1
PROPERTIES
    WorkerIsRestarted
