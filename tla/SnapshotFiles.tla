---------------------------- MODULE SnapshotFiles ----------------------------
(***************************************************************************)
(* The snapshot directories on disk as SnapshotDbManagerSqlite changes them *)
(* (core/storage/src/impls/storage_db/snapshot_db_manager_sqlite.rs), with  *)
(* the process able to crash between any two file-system calls and to      *)
(* start again:                                                             *)
(*   - recovery_lastest_mpt_snapshot, the caller's first call at start-up; *)
(*   - new_snapshot_by_merging from the current snapshot, with the EAR     *)
(*     checkpoint copy (copy_mpt_snapshot) and the publishing rename;      *)
(*   - new_temp_snapshot_for_full_sync and finalize_full_sync_snapshot;    *)
(*   - try_copy_snapshot, rename_snapshot_db, and new() on restart.        *)
(* One process makes the calls one at a time (the registries and threads   *)
(* are the subject of SnapshotManager). The content of a directory is the  *)
(* epoch whose state it holds, Empty for a freshly created database, or    *)
(* Partial for one a failed or interrupted write or copy left behind.      *)
(***************************************************************************)
EXTENDS Integers, FiniteSets, Sequences

CONSTANTS
    Epochs,          \* snapshot epochs, a set of positive heights
    First,           \* the snapshot on disk when the model starts
    SyncEpochs,      \* epochs a full sync may restore
    EraEpochCount,   \* era_epoch_count
    Reflink,         \* whether `cp -R --reflink=always` works on this file system
    CopyErrors,      \* whether a copy may fail midway
    RemoveErrors,    \* whether remove_dir_all may fail
    Crashes,         \* whether the process may crash
    MaxFaults,       \* bound on crashes and failed removals
    RecoveryRetry    \* whether a failed recovery is called again in-process

ASSUME Epochs \subseteq Nat \ {0} /\ First \in Epochs /\ SyncEpochs \subseteq Epochs
ASSUME EraEpochCount \in Nat \ {0} /\ MaxFaults \in Nat
ASSUME {Reflink, CopyErrors, RemoveErrors, Crashes, RecoveryRetry} \subseteq BOOLEAN

\* Directory contents.
Empty == 0
Partial == -1
None == -2
Contents == Epochs \cup {Empty, Partial}

\* Directory names, as the sequence of the pieces the code concatenates: the
\* constant words, and the lowercase hex digits of an id. An EpochId (32
\* bytes in the code) is one byte here, so ids are below 256; the merkle
\* root in a full-sync temp name stands in as the epoch's own byte.
EpochBytes == 1
HexDigits == <<"0", "1", "2", "3", "4", "5", "6", "7",
               "8", "9", "a", "b", "c", "d", "e", "f">>
ToHex(e) == <<HexDigits[(e \div 16) + 1], HexDigits[(e % 16) + 1]>>
SNAPSHOT_DB_SQLITE_DIR_PREFIX == "sqlite_"

\* get_snapshot_db_name and get_latest_mpt_snapshot_db_name.
GetSnapshotDbName(e) == <<SNAPSHOT_DB_SQLITE_DIR_PREFIX>> \o ToHex(e)
GetLatestMptSnapshotDbName == <<SNAPSHOT_DB_SQLITE_DIR_PREFIX, "latest">>
MergeTempName == <<SNAPSHOT_DB_SQLITE_DIR_PREFIX, "merge_temp_">>
FullSyncTempName == <<SNAPSHOT_DB_SQLITE_DIR_PREFIX, "full_sync_temp_">>

\* A path is its root (snapshot_path or mpt_snapshot_path) and its name.
Data(e) == <<"snapshot", GetSnapshotDbName(e)>>
MergeTemp(old, e) == <<"snapshot", MergeTempName \o ToHex(old) \o ToHex(e)>>
SyncData(e) == <<"snapshot", FullSyncTempName \o ToHex(e) \o ToHex(e)>>
Latest == <<"mpt", GetLatestMptSnapshotDbName>>
Mpt(e) == <<"mpt", GetSnapshotDbName(e)>>
MptMergeTemp(e) == <<"mpt", MergeTempName \o ToHex(e)>>
MptSync(e) == <<"mpt", FullSyncTempName \o ToHex(e) \o ToHex(e)>>

Paths ==
    {Data(e) : e \in Epochs} \cup {MergeTemp(o, e) : o, e \in Epochs}
    \cup {SyncData(e) : e \in SyncEpochs} \cup {Latest}
    \cup {Mpt(e) : e \in Epochs} \cup {MptMergeTemp(e) : e \in Epochs}
    \cup {MptSync(e) : e \in SyncEpochs}

\* Mutation of IsMergeTempSnapshotDbPath: the prefix built without
\* "merge_temp_", so every sqlite_ directory is taken for a temp.
IsMergeTempSnapshotDbPathSqliteOnly(name) ==
    Len(name) >= 1 /\ name[1] = SNAPSHOT_DB_SQLITE_DIR_PREFIX

\* is_merge_temp_snapshot_db_path: the name starts with sqlite_merge_temp_.
IsMergeTempSnapshotDbPath(name) ==
    Len(name) >= 2 /\ SubSeq(name, 1, 2) = MergeTempName

\* get_epoch_id_from_snapshot_db_name: drop the prefix's length and parse
\* the rest with EpochId::from_str, which takes exactly 2 * EpochBytes hex
\* digits; NameErr is its Err.
NameErr == -3
GetEpochIdFromSnapshotDbName(name) ==
    LET rest == Tail(name)
        digit(i) == CHOOSE d \in 0..15 : HexDigits[d + 1] = rest[i]
    IN IF /\ Len(rest) = 2 * EpochBytes
          /\ \A i \in 1..Len(rest) : \E d \in 0..15 : HexDigits[d + 1] = rest[i]
       THEN digit(1) * 16 + digit(2)
       ELSE NameErr

\* is_temp_snapshot_db_path (lines 1183-1185): the merge-temp name test.
\* Full-sync temps do not pass it.
IsTempPath(p) == IsMergeTempSnapshotDbPath(p[2])

VARIABLES
    dir,      \* the content of each path, or None
    pc,       \* where the process is
    op,       \* the call in progress: kind, epoch, old epoch, and whether
              \* the merge fell back to create
    head,     \* the snapshot the caller continues from (Empty: none yet)
    faults    \* crashes and failed removals so far

vars == <<dir, pc, op, head, faults>>

NoOp == [kind |-> "none", e |-> Empty, old |-> Empty, create |-> FALSE]

-----------------------------------------------------------------------------
(* File-system operations                                                  *)

Succ(e) == {x \in Epochs : x > e /\ \A y \in Epochs : y > e => x <= y}
IsEra(e) == e % EraEpochCount = 0

\* Outcomes <<destination content, ok>> of a byte copy by fs_extra
\* (copy_inside, like `cp -r`): into an existing directory the source is
\* copied beneath it, so the database at the destination is unchanged; a
\* failure leaves what was copied so far.
ByteCopy(s, d) ==
    IF s = None THEN {<<d, FALSE>>}
    ELSE {<<IF d = None THEN s ELSE d, TRUE>>}
         \cup (IF CopyErrors THEN {<<IF d = None THEN Partial ELSE d, FALSE>>} ELSE {})

\* try_copy_snapshot (lines 637-657) with force_cow = false, as new() sets
\* it: the reflink copy (lines 589-635; `cp -R` also copies beneath an
\* existing destination) and, when it fails, the removal of the destination
\* and the byte copy (try_make_snapshot_cow_copy turns every failure of the
\* reflink copy into Ok(false), lines 662-686). If that removal fails, its
\* `?` is also turned into Ok(false): the byte copy runs with the
\* destination still there.
TryCopy(s, d) ==
    LET cowOk == Reflink /\ s # None
        cowFails == ~cowOk \/ CopyErrors IN
    (IF cowOk THEN {<<IF d = None THEN s ELSE d, TRUE>>} ELSE {})
    \cup (IF cowFails THEN ByteCopy(s, None) ELSE {})
    \cup (IF cowFails /\ RemoveErrors /\ d # None THEN ByteCopy(s, d) ELSE {})

\* rename_snapshot_db (lines 706-710): fs::rename of a directory fails if
\* the source is missing or the target is a non-empty directory.
CanRename(s, d) == dir[s] # None /\ dir[d] = None
Renamed(s, d) == [dir EXCEPT ![d] = dir[s], ![s] = None]

\* A database written on top of a directory holding c: the merge of e's
\* delta gives e's state only on top of old's state (or on top of e's own,
\* a re-applied delta changes nothing).
Merged(c, old, e) == IF c \in {old, e} THEN e ELSE Partial

\* SnapshotDbSqlite::create on a path: a new empty database, or, on an
\* existing directory, either a failure or the database already there.
Created(c) == IF c = None THEN {Empty} ELSE {c, None}

\* SnapshotMptDbSqlite::create keeps a database that exists: new() calls it
\* on every start to "create the latest MPT database if database not
\* exist" (lines 65-71).
CreatedMpt(c) == IF c = None THEN Empty ELSE c

Goto(l) == pc' = l

\* remove_dir_all(p) where the code only logs an error: the directory is
\* gone, or the removal fails and it stays.
Remove(p) ==
    \/ dir' = [dir EXCEPT ![p] = None] /\ UNCHANGED faults
    \/ /\ RemoveErrors /\ faults < MaxFaults /\ dir[p] # None
       /\ UNCHANGED dir /\ faults' = faults + 1

\* The call returns an error: the caller sees it in state "failed".
Fail == /\ pc' = "failed"
        /\ UNCHANGED <<op, head>>

\* The call returns Ok; the caller continues from epoch h.
Done(h) == /\ pc' = "idle"
           /\ op' = NoOp
           /\ head' = h

-----------------------------------------------------------------------------
(* recovery_lastest_mpt_snapshot(e) (lines 1140-1181)                       *)

\* The caller's first call after start-up, for a snapshot it keeps, or,
\* as R3 describes, the same call again after it failed.
RecoveryStart(e) ==
    /\ \/ pc = "startup"
       \/ RecoveryRetry /\ pc = "failed" /\ op.kind = "recovery" /\ op.e = e
    /\ dir[Data(e)] # None
    /\ op' = [NoOp EXCEPT !.kind = "recovery", !.e = e]
    /\ Goto("r_rm")
    /\ UNCHANGED <<dir, head, faults>>

\* Mutant: recovery does not remove the old latest directory.
RecRemoveLatestKeeps ==
    /\ pc = "r_rm"
    /\ UNCHANGED dir
    /\ Goto(IF dir[Mpt(op.e)] # None THEN "r_copy" ELSE "r_create")
    /\ UNCHANGED <<op, head, faults>>

\* Lines 1145-1160: remove latest (an error is only logged), then look
\* for the epoch's MPT.
RecRemoveLatest ==
    /\ pc = "r_rm"
    /\ Remove(Latest)
    /\ Goto(IF dir[Mpt(op.e)] # None THEN "r_copy" ELSE "r_create")
    /\ UNCHANGED <<op, head>>

\* Lines 1165-1168: copy it to the MPT merge temp path.
RecCopy ==
    LET t == MptMergeTemp(op.e) IN
    /\ pc = "r_copy"
    /\ \E r \in TryCopy(dir[Mpt(op.e)], dir[t]) :
          /\ dir' = [dir EXCEPT ![t] = r[1]]
          /\ IF r[2] THEN Goto("r_mv") /\ UNCHANGED <<op, head>> ELSE Fail
    /\ UNCHANGED faults

\* Line 1169: rename the copy to latest.
RecRename ==
    LET t == MptMergeTemp(op.e) IN
    /\ pc = "r_mv"
    /\ IF CanRename(t, Latest)
          THEN dir' = Renamed(t, Latest) /\ Done(op.e)
          ELSE Fail /\ UNCHANGED dir
    /\ UNCHANGED faults

\* Lines 1170-1180: no MPT of the epoch: an empty latest database; the
\* caller has no snapshot to continue from.
RecCreate ==
    /\ pc = "r_create"
    /\ dir' = [dir EXCEPT ![Latest] = CreatedMpt(@)]
    /\ Done(Empty)
    /\ UNCHANGED faults

-----------------------------------------------------------------------------
(* new_snapshot_by_merging(head, e) (lines 822-953), the MPT in latest      *)

MergeStart(e) ==
    /\ pc = "idle"
    /\ head \in Epochs /\ e \in Succ(head)
    /\ dir[Data(e)] = None
    /\ op' = [NoOp EXCEPT !.kind = "merge", !.e = e, !.old = head]
    /\ Goto("m_copy")
    /\ UNCHANGED <<dir, head, faults>>

\* Lines 868-875: copy the old snapshot to the merge temp path; an error
\* selects the create path (lines 917-927).
MergeCopy ==
    LET t == MergeTemp(op.old, op.e) IN
    /\ pc = "m_copy"
    /\ \E r \in TryCopy(dir[Data(op.old)], dir[t]) :
          /\ dir' = [dir EXCEPT ![t] = r[1]]
          /\ op' = [op EXCEPT !.create = ~r[2]]
    /\ Goto("m_open")
    /\ UNCHANGED <<head, faults>>

\* open_snapshot_write (lines 256-305): latest is opened for write first
\* (SnapshotNotFound without its directory, lines 446-457), then the temp
\* database is created, or opened (SnapshotNotFound without it).
MergeOpen ==
    LET t == MergeTemp(op.old, op.e) IN
    /\ pc = "m_open"
    /\ \/ /\ dir[Latest] = None
          /\ Fail /\ UNCHANGED dir
       \/ /\ dir[Latest] # None /\ op.create
          /\ \E c \in Created(dir[t]) :
                IF c = None THEN Fail /\ UNCHANGED dir
                ELSE dir' = [dir EXCEPT ![t] = c] /\ Goto("m_write") /\ UNCHANGED <<op, head>>
       \/ /\ dir[Latest] # None /\ ~op.create
          /\ IF dir[t] # None THEN Goto("m_write") /\ UNCHANGED <<op, head>>
                              ELSE Fail
          /\ UNCHANGED dir
    /\ UNCHANGED faults

\* Mutant: the delta is merged into the data database only.
MergeWriteNoLatest ==
    LET t == MergeTemp(op.old, op.e) IN
    /\ pc = "m_write"
    /\ dir' = [dir EXCEPT
                 ![t] = IF op.create /\ @ = Empty THEN op.e ELSE Merged(@, op.old, op.e),
                 ![Latest] = @]
    /\ Goto(IF IsEra(op.e) THEN "c_copy" ELSE "m_publish")
    /\ UNCHANGED <<op, head, faults>>

\* Lines 885-916 and 925-926: the delta is merged into the temp database
\* (copy_and_merge first copies the old snapshot into the empty one) and
\* into latest; an EAR checkpoint height then copies latest (line 934).
MergeWrite ==
    LET t == MergeTemp(op.old, op.e) IN
    /\ pc = "m_write"
    /\ dir' = [dir EXCEPT
                 ![t] = IF op.create /\ @ = Empty THEN op.e ELSE Merged(@, op.old, op.e),
                 ![Latest] = Merged(@, op.old, op.e)]
    /\ Goto(IF IsEra(op.e) THEN "c_copy" ELSE "m_publish")
    /\ UNCHANGED <<op, head, faults>>

\* Lines 938-943: the temp database is dropped and renamed into place.
MergePublish ==
    LET t == MergeTemp(op.old, op.e) IN
    /\ pc = "m_publish"
    /\ IF CanRename(t, Data(op.e))
          THEN dir' = Renamed(t, Data(op.e)) /\ Done(op.e)
          ELSE Fail /\ UNCHANGED dir
    /\ UNCHANGED faults

-----------------------------------------------------------------------------
(* copy_mpt_snapshot(e) (lines 751-778)                                     *)

\* Lines 756-762: copy latest to the MPT merge temp path.
CkptCopy ==
    LET t == MptMergeTemp(op.e) IN
    /\ pc = "c_copy"
    /\ \E r \in TryCopy(dir[Latest], dir[t]) :
          /\ dir' = [dir EXCEPT ![t] = r[1]]
          /\ IF r[2] THEN Goto("c_rm") /\ UNCHANGED <<op, head>> ELSE Fail
    /\ UNCHANGED faults

\* Lines 763-775: remove the epoch's MPT directory if it exists; a failed
\* removal is only logged, and the rename that follows then finds the
\* directory still there.
CkptRemove ==
    /\ pc = "c_rm"
    /\ Remove(Mpt(op.e))
    /\ Goto("c_mv")
    /\ UNCHANGED <<op, head>>

\* Line 776: rename the copy into place; the caller goes on.
CkptRename ==
    LET t == MptMergeTemp(op.e) IN
    /\ pc = "c_mv"
    /\ IF CanRename(t, Mpt(op.e))
          THEN /\ dir' = Renamed(t, Mpt(op.e))
               /\ Goto(IF op.kind = "merge" THEN "m_publish" ELSE "f_publish")
               /\ UNCHANGED <<op, head>>
          ELSE Fail /\ UNCHANGED dir
    /\ UNCHANGED faults

-----------------------------------------------------------------------------
(* new_temp_snapshot_for_full_sync(e) (lines 1064-1091) and                 *)
(* finalize_full_sync_snapshot(e) (lines 1093-1138)                         *)

SyncStart(e) ==
    /\ pc = "idle"
    /\ e \in SyncEpochs /\ e > head /\ dir[Data(e)] = None
    /\ op' = [NoOp EXCEPT !.kind = "sync", !.e = e]
    /\ Goto("s_create")
    /\ UNCHANGED <<dir, head, faults>>

\* open_snapshot_write(create = true) with the temp MPT path: the temp MPT
\* is created (open_mpt_snapshot_write, line 439), then the temp data
\* database (line 279).
SyncCreate ==
    LET m == MptSync(op.e)  d == SyncData(op.e) IN
    /\ pc = "s_create"
    /\ \E cd \in Created(dir[d]) :
          \/ /\ cd = None
             /\ dir' = [dir EXCEPT ![m] = CreatedMpt(@)]
             /\ Fail
          \/ /\ cd # None
             /\ dir' = [dir EXCEPT ![m] = CreatedMpt(@), ![d] = cd]
             /\ Goto("s_write") /\ UNCHANGED <<op, head>>
    /\ UNCHANGED faults

\* The caller writes the state of e it receives into the temp databases,
\* drops them and calls finalize_full_sync_snapshot. The whole state is
\* written, so what an earlier attempt left there does not matter.
SyncWrite ==
    /\ pc = "s_write"
    /\ dir' = [dir EXCEPT ![MptSync(op.e)] = op.e, ![SyncData(op.e)] = op.e]
    /\ Goto("f_rm")
    /\ UNCHANGED <<op, head, faults>>

\* Lines 1112-1127: with a temp MPT, remove latest (errors only logged).
FinalizeRemove ==
    /\ pc = "f_rm"
    /\ IF dir[MptSync(op.e)] # None
          THEN Remove(Latest) /\ Goto("f_mv")
          ELSE UNCHANGED <<dir, faults>> /\ Goto("f_publish")
    /\ UNCHANGED <<op, head>>

\* Lines 1129-1133: rename the temp MPT to latest, then copy_mpt_snapshot.
FinalizeRename ==
    /\ pc = "f_mv"
    /\ IF CanRename(MptSync(op.e), Latest)
          THEN /\ dir' = Renamed(MptSync(op.e), Latest)
               /\ Goto("c_copy") /\ UNCHANGED <<op, head>>
          ELSE Fail /\ UNCHANGED dir
    /\ UNCHANGED faults

\* Line 1136: rename the temp data directory into place.
FinalizePublish ==
    /\ pc = "f_publish"
    /\ IF CanRename(SyncData(op.e), Data(op.e))
          THEN dir' = Renamed(SyncData(op.e), Data(op.e)) /\ Done(op.e)
          ELSE Fail /\ UNCHANGED dir
    /\ UNCHANGED faults

-----------------------------------------------------------------------------
(* Crash and restart                                                        *)

\* The directories the step at pc writes: a crash during it leaves a
\* partial copy in an absent destination, or a half-written database.
InFlight ==
    LET e == op.e IN
    (IF pc \in {"r_copy", "c_copy"} /\ dir[MptMergeTemp(e)] = None
        THEN {MptMergeTemp(e)} ELSE {})
    \cup (IF pc = "m_copy" /\ dir[MergeTemp(op.old, e)] = None
             THEN {MergeTemp(op.old, e)} ELSE {})
    \cup (IF pc = "m_write" THEN {MergeTemp(op.old, e), Latest} ELSE {})
    \cup (IF pc = "s_write" THEN {SyncData(e), MptSync(e)} ELSE {})

Crash ==
    /\ Crashes /\ faults < MaxFaults
    /\ pc # "down"
    /\ \E S \in SUBSET InFlight :
          dir' = [p \in Paths |-> IF p \in S THEN Partial ELSE dir[p]]
    /\ pc' = "down" /\ op' = NoOp
    /\ faults' = faults + 1
    /\ UNCHANGED head

\* Mutant: start-up removes no orphan merge temp directory.
RestartNoCleanup ==
    /\ pc \in {"down", "failed", "idle"}
    /\ dir' = [p \in Paths |->
                 IF p = Latest THEN CreatedMpt(dir[p])
                 ELSE dir[p]]
    /\ pc' = "startup" /\ op' = NoOp
    /\ UNCHANGED <<head, faults>>

\* The node starts again, after a crash, a failed call or a clean shut-down
\* between calls: new() (lines
\* 46-70) creates the latest MPT database if it does not exist, and the
\* start-up clean-up removes the orphan directories is_temp_snapshot_db_path
\* accepts.
Restart ==
    /\ pc \in {"down", "failed", "idle"}
    /\ dir' = [p \in Paths |->
                 IF IsTempPath(p) THEN None
                 ELSE IF p = Latest THEN CreatedMpt(dir[p])
                 ELSE dir[p]]
    /\ pc' = "startup" /\ op' = NoOp
    /\ UNCHANGED <<head, faults>>

\* A node that took its first snapshot (the genesis merge writes the
\* epoch's own MPT, new() created an empty latest) and is starting.
Init ==
    /\ dir = [p \in Paths |->
                CASE p \in {Data(First), Mpt(First)} -> First
                  [] p = Latest -> Empty
                  [] OTHER -> None]
    /\ pc = "startup"
    /\ op = NoOp
    /\ head = Empty
    /\ faults = 0

\* The steps inside a call.
Step ==
    \/ RecRemoveLatest \/ RecCopy \/ RecRename \/ RecCreate
    \/ MergeCopy \/ MergeOpen \/ MergeWrite \/ MergePublish
    \/ CkptCopy \/ CkptRemove \/ CkptRename
    \/ SyncCreate \/ SyncWrite \/ FinalizeRemove \/ FinalizeRename
    \/ FinalizePublish

Next ==
    \/ Step \/ Restart \/ Crash
    \/ \E e \in Epochs : RecoveryStart(e) \/ MergeStart(e) \/ SyncStart(e)

\* The steps of a call and the restart of a stopped node happen; the node
\* always calls recovery at start-up. Which snapshot it makes next is not
\* forced.
Fairness ==
    /\ WF_vars(Step) /\ WF_vars(Restart)
    /\ WF_vars(\E e \in Epochs : RecoveryStart(e))

Spec == Init /\ [][Next]_vars /\ Fairness

-----------------------------------------------------------------------------
(* Properties                                                              *)

\* I6 and section 4.6: whenever no call is in progress, latest holds the
\* state of the snapshot the caller continues from (or is empty when
\* recovery found no checkpoint). Merges, full syncs, checkpoint copies and
\* recoveries must keep this across crashes at every step.
LatestFollowsHead == pc = "idle" => dir[Latest] = head

\* I5 and R1, as the start-up scan sees the two roots: a directory whose
\* name get_epoch_id_from_snapshot_db_name takes for an epoch holds that
\* epoch's complete state; merge and full-sync temps and latest have names
\* it rejects, and a partial copy or a half-written temp never reaches a
\* snapshot's or a checkpoint's name by rename.
SnapshotsHoldTheirEpoch ==
    \A p \in Paths :
        LET e == GetEpochIdFromSnapshotDbName(p[2])
        IN e # NameErr => dir[p] \in {None, e}

\* The directories implement SnapshotStore: the published snapshots are
\* the data directories that exist, the checkpoints the per-epoch MPT
\* directories. Publication is the rename that also returns Ok to the
\* caller; crashes, restarts, failed calls and the start-up clean-up never
\* remove a published snapshot or its checkpoint, and recovery leaves the
\* caller at the epoch it restored exactly when that epoch has a checkpoint.
Store == INSTANCE SnapshotStore WITH
            snapshots <- {e \in Epochs : dir[Data(e)] # None},
            checkpoints <- {e \in Epochs : dir[Mpt(e)] # None},
            current <- head,
            NoEpoch <- Empty

StoreRefinement == Store!Spec

\* Start-up ends: recovery_lastest_mpt_snapshot brings the node to a state
\* where it can take snapshots, whatever a crash left on disk.
StartupCompletes == pc = "startup" ~> pc = "idle"

====
