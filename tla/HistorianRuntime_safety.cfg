\* Two processes, crossing generations, three faults of any kind, the process
\* factory raising once.
SPECIFICATION RuntimeSpec
CONSTANTS
    MaxSpawns = 2
    MaxGeneration = 2
    MaxSpawnFailures = 1
    PipeCapacity = 1
    MaxBatches = 1
    MaxFaults = 3
    RetryAttempts = 1
INVARIANTS
    AcknowledgedIsLoaded
    RebuildOnItsWay
    ShownCompleteIsReal
PROPERTIES
    ContractKept
