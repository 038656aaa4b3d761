\* One tag refused while a rebuild is served, one lost connection after it.
SPECIFICATION FairRuntimeSpec
CONSTANTS
    MaxSpawns = 1
    MaxGeneration = 1
    MaxSpawnFailures = 0
    PipeCapacity = 1
    MaxBatches = 1
    MaxFaults = 2
    RetryAttempts = 1
PROPERTIES
    CompleteSubscriptionSettlesRebuild
