\* Three non-checkpoint epochs merged in turn, read with blocking reads,
\* without I/O errors and without destroys of the epoch read.
CONSTANTS
    Threads = {t1, t2}
    Epochs = {1, 2, 3}
    GenesisEpochs = {1}
    SyncEpochs = {}
    EraEpochCount = 4
    MaxOpen = 2
    IoErrors = FALSE
    ConcurrentWriters = FALSE
    NestedReads = FALSE
    NoThread = NoThread
SPECIFICATION Spec
CONSTRAINT DataPermitsBounded
SYMMETRY ThreadSymmetry
PROPERTY PublishedSnapshotReadable
