\* I/O errors on every open, without the isolated MPT database: every
\* failure happens before a database object exists, so each open gives
\* its permit back once. Two epoch paths and a temp path against two
\* permits, so three threads can contend for permits and for one path.
\* (With the isolated MPT database the bound fails: registry_permit_leak.)
CONSTANTS
    Threads = {t1, t2, t3}
    EpochPaths = {e1, e2}
    TempPaths = {w1}
    MaxOpen = 2
    IsolatedMpt = FALSE
    IoErrors = TRUE
    NoThread = NoThread
    NoPath = NoPath
SPECIFICATION Spec
CONSTRAINT PermitsBounded
SYMMETRY ThreadSymmetry
INVARIANTS TypeOK SingleDbPerPath RegistryMatchesOpenDb OpenBound
