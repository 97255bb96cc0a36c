\* Three snapshots, an EAR checkpoint at height 2, a full sync to 3, and up
\* to two crashes at any step (a crash leaves the copy or write in progress
\* partial).  Copies fail only by the crash.
CONSTANTS
    Epochs = {1, 2, 3}
    First = 1
    SyncEpochs = {3}
    EraEpochCount = 2
    Reflink = TRUE
    CopyErrors = FALSE
    RemoveErrors = FALSE
    Crashes = TRUE
    MaxFaults = 2
    RecoveryRetry = FALSE
SPECIFICATION Spec
INVARIANTS
    LatestFollowsHead
    SnapshotsHoldTheirEpoch
PROPERTIES
    StoreRefinement
    StartupCompletes
