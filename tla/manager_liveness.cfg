\* Progress of every call and every drain window, with callers that drop
\* what they read and produce snapshots one at a time.
CONSTANTS
    Threads = {t1, t2}
    Epochs = {1, 2, 3}
    GenesisEpochs = {1}
    SyncEpochs = {}
    EraEpochCount = 2
    MaxOpen = 2
    IoErrors = FALSE
    ConcurrentWriters = FALSE
    NestedReads = FALSE
    NoThread = NoThread
SPECIFICATION Spec
CONSTRAINT DataPermitsBounded
PROPERTIES MptDrainEnds CallsReturn
\* A state with no successor is not reported as a deadlock here: a call stuck
\* in it stutters forever and so violates CallsReturn, which is what this run
\* is for. manager_errors.cfg checks deadlock.
CHECK_DEADLOCK FALSE
