------------------------ MODULE MC_SnapshotManager ------------------------
(* Model-checking instance of SnapshotManager: the constants are given in *)
(* the .cfg files; this module adds the bound on the data semaphore and    *)
(* the symmetry of the worker threads.                                     *)
EXTENDS SnapshotManager, TLC

\* The data semaphore only grows past max_open_snapshots through a release
\* of a permit nobody took; two extra permits show every consequence.
MaxDataPermits == MaxOpen + 2

DataPermitsBounded == dpermits <= MaxDataPermits

ThreadSymmetry == Permutations(Threads)
=============================================================================
