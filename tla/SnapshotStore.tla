---------------------------- MODULE SnapshotStore ----------------------------
(***************************************************************************)
(* What the snapshot directories promise the storage manager, without the   *)
(* file-system steps: the published snapshots, the epochs whose checkpoint *)
(* MPT is kept, and the snapshot the caller continues from. A snapshot is  *)
(* published in one step, together with the caller moving on to it, and is *)
(* never taken back; a checkpoint MPT may come and go while its epoch is   *)
(* being produced, and stays once the epoch is published; recovery moves   *)
(* the caller to a published snapshot, with its MPT state when the epoch   *)
(* has a checkpoint and with none otherwise.                                *)
(***************************************************************************)
EXTENDS Integers

CONSTANTS
    Epochs,    \* snapshot epochs, positive heights
    First,     \* the snapshot taken before anything else
    NoEpoch    \* the caller has no snapshot to continue from

VARIABLES
    snapshots,     \* published epochs
    checkpoints,   \* epochs with a checkpoint MPT
    current        \* the snapshot the caller continues from, or NoEpoch

vars == <<snapshots, checkpoints, current>>

Init ==
    /\ snapshots = {First}
    /\ checkpoints = {First}
    /\ current = NoEpoch

\* A newer snapshot is published and the caller continues from it.
Publish(e) ==
    /\ e \notin snapshots
    /\ current = NoEpoch \/ e > current
    /\ snapshots' = snapshots \cup {e}
    /\ current' = e
    /\ UNCHANGED checkpoints

\* The checkpoint MPT of an epoch being produced appears or is replaced.
Stage(e) ==
    /\ e \notin snapshots
    /\ checkpoints' \in {checkpoints \cup {e}, checkpoints \ {e}}
    /\ checkpoints' # checkpoints
    /\ UNCHANGED <<snapshots, current>>

\* The caller restores a published snapshot.
Restore(e) ==
    /\ e \in snapshots
    /\ current' = IF e \in checkpoints THEN e ELSE NoEpoch
    /\ UNCHANGED <<snapshots, checkpoints>>

Next == \E e \in Epochs : Publish(e) \/ Stage(e) \/ Restore(e)

Spec == Init /\ [][Next]_vars

====
