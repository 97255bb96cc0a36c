\* Removals may fail (their errors are only logged); epoch 2 is not an EAR
\* checkpoint, so recovery from it has no MPT to copy.
CONSTANTS
    Epochs = {1, 2}
    First = 1
    SyncEpochs = {}
    EraEpochCount = 3
    Reflink = TRUE
    CopyErrors = FALSE
    RemoveErrors = TRUE
    Crashes = FALSE
    MaxFaults = 1
    RecoveryRetry = FALSE
SPECIFICATION Spec
INVARIANT LatestFollowsHead
