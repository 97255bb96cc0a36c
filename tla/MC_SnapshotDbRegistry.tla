----------------------- MODULE MC_SnapshotDbRegistry -----------------------
(* Model-checking instance of SnapshotDbRegistry: the constants are given  *)
(* in the .cfg files; this module adds the bound on the semaphore and the  *)
(* symmetry of the worker threads.                                         *)
EXTENDS SnapshotDbRegistry, TLC

\* The semaphore only grows past max_open_snapshots through a double
\* release; two extra permits are enough to show every consequence.
MaxPermits == MaxOpen + 2

PermitsBounded == permits <= MaxPermits

ThreadSymmetry == Permutations(Threads)
=============================================================================
