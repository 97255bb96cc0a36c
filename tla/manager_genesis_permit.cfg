\* Snapshots produced one at a time, without I/O errors, starting from the
\* genesis merge.
CONSTANTS
    Threads = {t1, t2}
    Epochs = {1, 2}
    GenesisEpochs = {1}
    SyncEpochs = {2}
    EraEpochCount = 2
    MaxOpen = 2
    IoErrors = FALSE
    ConcurrentWriters = FALSE
    NestedReads = FALSE
    NoThread = NoThread
SPECIFICATION Spec
CONSTRAINT DataPermitsBounded
SYMMETRY ThreadSymmetry
INVARIANT DataOpenBound
