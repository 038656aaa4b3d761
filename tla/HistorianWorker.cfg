\* Two crossing rebuilds, snapshots of up to two batches, two faults of any
\* kind, the web process dying at any moment.
SPECIFICATION WorkerSpec
CONSTANTS
    MaxSpawns = 1
    MaxGeneration = 2
    PipeCapacity = 1
    MaxBatches = 2
    MaxFaults = 2
    RetryAttempts = 1
INVARIANTS
    AckIsFresh
PROPERTIES
    PendingGenerationKept
    RebuildIsAnswered
    OrphanEnds
