\* Three non-checkpoint epochs: a thread that holds the snapshot of the
\* latest epoch makes a try_open read of an older one while a merge of
\* the next epoch begins.
CONSTANTS
    Threads = {t1, t2}
    Epochs = {1, 2, 3}
    GenesisEpochs = {1}
    SyncEpochs = {}
    EraEpochCount = 4
    MaxOpen = 2
    IoErrors = FALSE
    ConcurrentWriters = FALSE
    NestedReads = TRUE
    NoThread = NoThread
SPECIFICATION Spec
CONSTRAINT DataPermitsBounded
SYMMETRY ThreadSymmetry
INVARIANT NoLockLatestCycle
