\* One respawn, crossing generations, one failure
\* of the process factory.
SPECIFICATION Spec
CONSTANTS
    MaxSpawns = 2
    MaxGeneration = 2
    MaxSpawnFailures = 1
    PipeCapacity = 1
INVARIANTS
    TypeOK
    AtMostOneWorker
    PendingIffUnacknowledged
    StopIsFinal
    LiveWorkerIsMonitored
