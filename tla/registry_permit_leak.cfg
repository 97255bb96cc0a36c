\* Isolated MPT database, no I/O errors: attaching the MPT database to a
\* reader may still fail (try_open contention, missing MPT directory).
CONSTANTS
    Threads = {t1, t2}
    EpochPaths = {e1}
    TempPaths = {w1}
    MaxOpen = 1
    IsolatedMpt = TRUE
    IoErrors = FALSE
    NoThread = NoThread
    NoPath = NoPath
SPECIFICATION Spec
CONSTRAINT PermitsBounded
SYMMETRY ThreadSymmetry
INVARIANT OpenBound
