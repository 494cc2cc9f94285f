SPECIFICATION FairSpec
CONSTANT MaxRetry = 5
INVARIANTS SyncOutlivesWorker NeverCancelled
PROPERTY UnloadEnds
