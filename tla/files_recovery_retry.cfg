\* Reflink copies work but may fail now and then, byte copies may fail
\* midway, and a failed recovery is called again (R3).
CONSTANTS
    Epochs = {1, 2}
    First = 1
    SyncEpochs = {}
    EraEpochCount = 2
    Reflink = TRUE
    CopyErrors = TRUE
    RemoveErrors = FALSE
    Crashes = FALSE
    MaxFaults = 0
    RecoveryRetry = TRUE
SPECIFICATION Spec
INVARIANT LatestFollowsHead
