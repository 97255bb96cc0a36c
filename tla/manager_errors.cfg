\* Reads, merges, full syncs, a genesis merge and destroys over three epochs
\* (epoch 3 at an era boundary, so its MPT is a copy of latest) by two
\* threads, producing snapshots one at a time, with every fallible
\* file-system and database step (open, create, copy, rename, merge) allowed
\* to fail. Every failure is an added alternative, so the runs without
\* errors are among these behaviours.
CONSTANTS
    Threads = {t1, t2}
    Epochs = {1, 2, 3}
    GenesisEpochs = {1}
    SyncEpochs = {3}
    EraEpochCount = 3
    MaxOpen = 2
    IoErrors = TRUE
    ConcurrentWriters = FALSE
    NestedReads = FALSE
    NoThread = NoThread
SPECIFICATION Spec
CONSTRAINT DataPermitsBounded
SYMMETRY ThreadSymmetry
INVARIANTS TypeOK MptRegistryMatchesOpenDb MptOwnersCounted LatestPermitConserved MptPermitConserved ReadersSeeTheirEpoch
