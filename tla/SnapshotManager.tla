--------------------------- MODULE SnapshotManager ---------------------------
(***************************************************************************)
(* SnapshotDbManagerSqlite with the isolated MPT database                  *)
(* (core/storage/src/impls/storage_db/snapshot_db_manager_sqlite.rs):      *)
(* the data snapshots and the MPT snapshots together, as the manager's     *)
(* calls use them:                                                         *)
(*   - get_snapshot_by_epoch_id -> open_snapshot_readonly, which opens    *)
(*     the data database and attaches the epoch's MPT through              *)
(*     open_mpt_snapshot_readonly under open_create_delete_lock;           *)
(*   - new_snapshot_by_merging: the genesis merge (old = NULL_EPOCH)       *)
(*     creates the epoch's MPT and the temp database without the lock;     *)
(*     the incremental merge opens the temp copy through                   *)
(*     open_snapshot_write, which opens the latest MPT for write, then     *)
(*     reads the old snapshot, copies the EAR checkpoint, drops the temp   *)
(*     database and renames it into place;                                 *)
(*   - new_temp_snapshot_for_full_sync and finalize_full_sync_snapshot;    *)
(*   - destroy_snapshot, both halves;                                      *)
(*   - the drop of every handle and the destructor callbacks on_close and *)
(*     on_close_mpt_snapshot.                                              *)
(*                                                                         *)
(* The data registry is kept coarse here (a data database closes in the    *)
(* step that drops its last Arc; a canonical data path is never open for   *)
(* write); its drain window and removal threads are the subject of         *)
(* SnapshotDbRegistry. The MPT registry is kept with all of its steps.     *)
(* use_isolated_db_for_mpt_table is TRUE with no height, so every epoch    *)
(* keeps its MPT in the isolated database. An epoch id is its height:      *)
(* ids are compared only for equality, heights through `>` and             *)
(* `% era_epoch_count`. The content of an MPT database is abstracted to    *)
(* the epoch whose state it holds.                                         *)
(***************************************************************************)
EXTENDS Naturals, FiniteSets, FiniteSetsExt, Functions

CONSTANTS
    Threads,           \* worker threads calling into the manager
    Epochs,            \* snapshot epochs, a set of positive heights
    GenesisEpochs,     \* epochs the first snapshot may be taken at
    SyncEpochs,        \* epochs a full sync may restore
    EraEpochCount,     \* era_epoch_count
    MaxOpen,           \* max_open_snapshots
    IoErrors,          \* whether sqlite open/create, copy and rename may fail
    ConcurrentWriters, \* whether two snapshots may be produced at once
    NestedReads,       \* whether a thread holding snapshots makes try_open reads
    NoThread

ASSUME Epochs \subseteq Nat \ {0} /\ EraEpochCount \in Nat \ {0}
ASSUME MaxOpen \in Nat \ {0} /\ SyncEpochs \subseteq Epochs
ASSUME {IoErrors, ConcurrentWriters, NestedReads} \subseteq BOOLEAN

NullEpoch == 0
Height(e) == e

\* The first snapshot is taken at snapshot_epoch_count, below the first EAR
\* checkpoint (era_epoch_count is a multiple of snapshot_epoch_count).
ASSUME GenesisEpochs \subseteq {e \in Epochs : Height(e) % EraEpochCount # 0}

\* <mpt_root>/sqlite_latest, <mpt_root>/sqlite_<epoch>, and the full-sync
\* temp MPT <mpt_root>/sqlite_full_sync_temp_<epoch><root>.
Latest == <<"latest", NullEpoch>>
EpochMpt(e) == <<"epoch", e>>
SyncTemp(e) == <<"sync", e>>
NoPath == <<"none", NullEpoch>>
MptPaths == {Latest} \cup {EpochMpt(e) : e \in Epochs} \cup {SyncTemp(e) : e \in SyncEpochs}

VARIABLES
    \* data snapshots, per epoch (canonical paths)
    dobj,      \* a SnapshotDbSqlite of the epoch is open and registered
    dstrong,   \* owners of that database
    dmpt,      \* the MPT it attached (its update_mpt_snapshot), or NoPath
    dremove,   \* its remove_on_last_close
    dexists,   \* the epoch's data directory is on disk (renamed into place)
    dpermits,  \* open_snapshot_semaphore
    dlock,     \* open_create_delete_lock
    \* MPT snapshots, per path
    mreg,      \* mpt_already_open_snapshots: "absent" | "writer" | "shared"
    mstrong,   \* Arc strong count of the shared MPT database of the path
    mdbOpen,   \* SnapshotMptDbSqlite objects of the path not yet dropped
    mtied,     \* the live object holds a latest permit (its v is Some)
    mremove,   \* remove_on_close of the live object
    mobj,      \* the epoch whose state the live object reads or writes
    mexists,   \* the directory is on disk
    mcontent,  \* the epoch whose state the directory holds
    removing,  \* MPT paths whose fs_remove_snapshot thread has not run
    mpermits,  \* mpt_open_snapshot_semaphore
    lpermits,  \* lastest_mpt_snapshot_semaphore
    latest,    \* latest_snapshot_id
    \* threads
    pc, call,
    dheld,     \* data snapshots each thread holds an Arc of
    wheld,     \* the MPT each thread's temp database holds open for write
    destroyed  \* epochs destroy_snapshot was called on (history)

dvars == <<dobj, dstrong, dmpt, dremove, dexists, dpermits>>
mvars == <<mreg, mstrong, mdbOpen, mtied, mremove, mobj, mexists, mcontent,
           removing, mpermits, lpermits, latest>>
tvars == <<pc, call, dheld, wheld>>
vars == <<dvars, dlock, mvars, tvars, destroyed>>

PCs == {"idle", "r_acquire", "r_lock", "r_open", "mr_path", "mr_begin",
        "mr_acquire", "mr_loop", "mr_id", "mr_open",
        "w_dacquire", "w_lock", "w_latest", "w_check", "w_macquire", "w_open",
        "w_data", "w_hold", "m_acquire", "m_lock", "m_open", "m_merge", "m_close",
        "s_final", "md_loop", "md_drop", "mc_close"}

Kinds == {"none", "read", "merge", "sync", "genesis", "destroy", "close"}
WriterKinds == {"merge", "sync", "genesis"}

NoCall == [kind |-> "none", e |-> NullEpoch, old |-> NullEpoch, path |-> NoPath,
           tryOpen |-> FALSE, create |-> FALSE, createMpt |-> FALSE,
           idMatch |-> FALSE, ok |-> TRUE]

EpochOrNull == Epochs \cup {NullEpoch}

TypeOK ==
    /\ dobj \in [Epochs -> BOOLEAN]
    /\ dstrong \in [Epochs -> 0 .. 2 * Cardinality(Threads)]
    /\ dmpt \in [Epochs -> MptPaths \cup {NoPath}]
    /\ dremove \in [Epochs -> BOOLEAN]
    /\ dexists \in [Epochs -> BOOLEAN]
    /\ dpermits \in Nat
    /\ dlock \in Threads \cup {NoThread}
    /\ mreg \in [MptPaths -> {"absent", "writer", "shared"}]
    /\ mstrong \in [MptPaths -> 0 .. 2 * Cardinality(Threads)]
    /\ mdbOpen \in [MptPaths -> Nat]
    /\ mtied \in [MptPaths -> BOOLEAN]
    /\ mremove \in [MptPaths -> BOOLEAN]
    /\ mobj \in [MptPaths -> EpochOrNull]
    /\ mexists \in [MptPaths -> BOOLEAN]
    /\ mcontent \in [MptPaths -> EpochOrNull]
    /\ removing \subseteq MptPaths
    /\ mpermits \in 0 .. MaxOpen
    /\ lpermits \in 0 .. 1
    /\ latest \in [id : EpochOrNull, h : Nat]
    /\ pc \in [Threads -> PCs]
    /\ call \in [Threads -> [kind : Kinds, e : EpochOrNull, old : EpochOrNull,
                            path : MptPaths \cup {NoPath}, tryOpen : BOOLEAN,
                            create : BOOLEAN, createMpt : BOOLEAN,
                            idMatch : BOOLEAN, ok : BOOLEAN]]
    /\ dheld \in [Threads -> SUBSET Epochs]
    /\ wheld \in [Threads -> MptPaths \cup {NoPath}]
    /\ destroyed \subseteq Epochs

-----------------------------------------------------------------------------
(* Helpers *)

MUpgradable(p) == mreg[p] = "shared" /\ mstrong[p] > 0
MDraining(p) == mreg[p] = "shared" /\ mstrong[p] = 0

Goto(t, l) == pc' = [pc EXCEPT ![t] = l]
SetCall(t, c) == call' = [call EXCEPT ![t] = c]

\* Return from the call; open_create_delete_lock is released if held.
Return(t) == /\ pc' = [pc EXCEPT ![t] = "idle"]
             /\ call' = [call EXCEPT ![t] = NoCall]
             /\ dlock' = IF dlock = t THEN NoThread ELSE dlock

\* A call that may block is made by a thread that holds nothing; with
\* NestedReads a try_open read may be made while holding other snapshots
\* (it still blocks on open_create_delete_lock).
HoldsNothing(t) == dheld[t] = {} /\ wheld[t] = NoPath

WritingEpoch(t, e) ==
    \E u \in Threads \ {t} : call[u].kind \in WriterKinds /\ call[u].e = e

\* Conflux does not remove a snapshot and then immediately create it
\* again (the comment in on_close, lines 482-485): an epoch is produced
\* again only once its destroy and every call on it have run to the end,
\* its databases are closed and its MPT directory removed.
NotRecreated(e) ==
    e \in destroyed =>
        /\ ~dobj[e] /\ mreg[EpochMpt(e)] = "absent" /\ EpochMpt(e) \notin removing
        /\ \A u \in Threads : call[u].e # e

\* Producing snapshots one at a time: no other merge or full sync is going.
WriterSlotFree(t) ==
    ConcurrentWriters \/ \A u \in Threads \ {t} : call[u].kind \notin WriterKinds

\* Attach one more owner to the open data database of e.
DAttach(t, e) == /\ dstrong' = [dstrong EXCEPT ![e] = @ + 1]
                 /\ dheld' = [dheld EXCEPT ![t] = @ \cup {e}]


\* Mutant: on_close_mpt_snapshot leaves the registry key.
MCloseAllKeepsKey(S) ==
    /\ removing' = removing \cup {p \in S : mremove[p]}
    /\ mreg' = [p \in MptPaths |-> mreg[p]]
    /\ mdbOpen' = [p \in MptPaths |-> IF p \in S THEN mdbOpen[p] - 1 ELSE mdbOpen[p]]
    /\ mremove' = [p \in MptPaths |-> IF p \in S THEN FALSE ELSE mremove[p]]
    /\ mtied' = [p \in MptPaths |-> IF p \in S THEN FALSE ELSE mtied[p]]
    /\ mpermits' = mpermits + Cardinality(S)
    /\ lpermits' = lpermits + Cardinality({p \in S : mtied[p]})



\* on_close_mpt_snapshot (lines 495-514) for the objects of the paths S:
\* spawn the removal of those flagged, remove the keys, add an MPT permit
\* each and a latest permit for each object opened with the latest
\* semaphore.
MCloseAll(S) ==
    /\ removing' = removing \cup {p \in S : mremove[p]}
    /\ mreg' = [p \in MptPaths |-> IF p \in S THEN "absent" ELSE mreg[p]]
    /\ mdbOpen' = [p \in MptPaths |-> IF p \in S THEN mdbOpen[p] - 1 ELSE mdbOpen[p]]
    /\ mremove' = [p \in MptPaths |-> IF p \in S THEN FALSE ELSE mremove[p]]
    /\ mtied' = [p \in MptPaths |-> IF p \in S THEN FALSE ELSE mtied[p]]
    /\ mpermits' = mpermits + Cardinality(S)
    /\ lpermits' = lpermits + Cardinality({p \in S : mtied[p]})

-----------------------------------------------------------------------------
(* get_snapshot_by_epoch_id(e, try_open, open_mpt_snapshot = TRUE), which   *)
(* calls open_snapshot_readonly (lines 100-221), which calls                *)
(* open_mpt_snapshot_readonly (lines 314-415)                               *)

\* Lines 105-133: attach to the open database, or find its directory and
\* take a data permit (try_acquire fails at once).
ReadStart(t, e, tryOpen) ==
    /\ pc[t] = "idle"
    /\ e \notin dheld[t]
    /\ HoldsNothing(t) \/ (tryOpen /\ NestedReads)
    /\ \/ /\ dobj[e]
          /\ DAttach(t, e)
          /\ UNCHANGED <<pc, call>>
       \/ /\ ~dobj[e] /\ dexists[e]
          /\ Goto(t, "r_acquire")
          /\ SetCall(t, [NoCall EXCEPT !.kind = "read", !.e = e, !.tryOpen = tryOpen])
          /\ UNCHANGED <<dstrong, dheld>>
    /\ UNCHANGED <<dobj, dmpt, dremove, dexists, dpermits, dlock, mvars, wheld>>
    /\ UNCHANGED destroyed

ReadAcquire(t) ==
    /\ pc[t] = "r_acquire"
    /\ \/ /\ dpermits > 0
          /\ dpermits' = dpermits - 1
          /\ Goto(t, "r_lock")
          /\ UNCHANGED <<call, dlock>>
       \/ /\ dpermits = 0 /\ call[t].tryOpen
          /\ Return(t)
          /\ UNCHANGED dpermits
    /\ UNCHANGED <<dobj, dstrong, dmpt, dremove, dexists, mvars, dheld, wheld>>
    /\ UNCHANGED destroyed

\* Line 136.
ReadLock(t) ==
    /\ pc[t] = "r_lock"
    /\ dlock = NoThread
    /\ dlock' = t
    /\ Goto(t, "r_open")
    /\ UNCHANGED <<dvars, mvars, call, dheld, wheld>>
    /\ UNCHANGED destroyed

\* Lines 139-178: attach if another open got there first; open the data
\* database, which fails on a missing directory or an I/O error before the
\* object exists (the guard releases the permit).
ReadOpen(t) ==
    LET e == call[t].e IN
    /\ pc[t] = "r_open"
    /\ \/ /\ dobj[e]
          /\ DAttach(t, e)
          /\ dpermits' = dpermits + 1
          /\ Return(t)
       \/ /\ ~dobj[e] /\ (~dexists[e] \/ IoErrors)
          /\ dpermits' = dpermits + 1
          /\ Return(t)
          /\ UNCHANGED <<dstrong, dheld>>
       \/ /\ ~dobj[e] /\ dexists[e]
          /\ Goto(t, "mr_path")
          /\ UNCHANGED <<dpermits, dstrong, dheld, call, dlock>>
    /\ UNCHANGED <<dobj, dmpt, dremove, dexists, mvars, wheld>>
    /\ UNCHANGED destroyed

\* The call fails after SnapshotDbSqlite::open: dropping the data object
\* runs on_close (one permit) and the unforgotten guard releases another.
DataObjectFail(t) == /\ dpermits' = dpermits + 2
                     /\ Return(t)

\* Lines 206-217: attach the MPT (or none), forget the permit, register
\* Some(weak) and return the only owner.
Publish(t, p) ==
    LET e == call[t].e IN
    /\ dobj' = [dobj EXCEPT ![e] = TRUE]
    /\ dstrong' = [dstrong EXCEPT ![e] = 1]
    /\ dmpt' = [dmpt EXCEPT ![e] = p]
    /\ dremove' = [dremove EXCEPT ![e] = FALSE]
    /\ dheld' = [dheld EXCEPT ![t] = @ \cup {e}]
    /\ Return(t)


\* Lines 182-196: the epoch's own MPT if its directory exists, else the
\* latest MPT if latest_snapshot_id names the epoch, else an error.
MReadPath(t) ==
    LET e == call[t].e IN
    /\ pc[t] = "mr_path"
    /\ \/ /\ mexists[EpochMpt(e)]
          /\ Goto(t, "mr_begin")
          /\ SetCall(t, [call[t] EXCEPT !.path = EpochMpt(e)])
          /\ UNCHANGED <<dpermits, dlock>>
       \/ /\ ~mexists[EpochMpt(e)] /\ latest.id = e
          /\ Goto(t, "mr_begin")
          /\ SetCall(t, [call[t] EXCEPT !.path = Latest])
          /\ UNCHANGED <<dpermits, dlock>>
       \/ /\ ~mexists[EpochMpt(e)] /\ latest.id # e
          /\ DataObjectFail(t)
    /\ UNCHANGED <<dobj, dstrong, dmpt, dremove, dexists, mvars, dheld, wheld>>
    /\ UNCHANGED destroyed

\* Lines 323-354: the MPT fast path and existence check (Ok(None) for an
\* exclusive writer or a missing directory), then the MPT permit.
MReadBegin(t) ==
    LET p == call[t].path IN
    /\ pc[t] = "mr_begin"
    /\ \/ /\ MUpgradable(p)
          /\ mstrong' = [mstrong EXCEPT ![p] = @ + 1]
          /\ Publish(t, p)
          /\ UNCHANGED <<dpermits, mpermits>>
       \/ /\ ~MUpgradable(p) /\ (mreg[p] = "writer" \/ ~mexists[p])
          /\ Publish(t, NoPath)
          /\ UNCHANGED <<dpermits, mpermits, mstrong>>
       \/ /\ ~MUpgradable(p) /\ mreg[p] # "writer" /\ mexists[p]
          /\ call[t].tryOpen /\ mpermits > 0
          /\ mpermits' = mpermits - 1
          /\ Goto(t, "mr_loop")
          /\ UNCHANGED <<dobj, dstrong, dmpt, dremove, dpermits, dheld, call,
                         dlock, mstrong>>
       \/ /\ ~MUpgradable(p) /\ mreg[p] # "writer" /\ mexists[p]
          /\ call[t].tryOpen /\ mpermits = 0
          /\ DataObjectFail(t)
          /\ UNCHANGED <<dobj, dstrong, dmpt, dremove, dheld, mpermits, mstrong>>
       \/ /\ ~MUpgradable(p) /\ mreg[p] # "writer" /\ mexists[p]
          /\ ~call[t].tryOpen
          /\ Goto(t, "mr_acquire")
          /\ UNCHANGED <<dobj, dstrong, dmpt, dremove, dpermits, dheld, call,
                         dlock, mpermits, mstrong>>
    /\ UNCHANGED <<dexists, mreg, mdbOpen, mtied, mremove, mobj, mexists,
                   mcontent, removing, lpermits, latest, wheld>>
    /\ UNCHANGED destroyed

\* Line 352: a blocking acquire.
MReadAcquire(t) ==
    /\ pc[t] = "mr_acquire"
    /\ mpermits > 0
    /\ mpermits' = mpermits - 1
    /\ Goto(t, "mr_loop")
    /\ UNCHANGED <<dvars, dlock, mreg, mstrong, mdbOpen, mtied, mremove, mobj,
                   mexists, mcontent, removing, lpermits, latest, call, dheld,
                   wheld>>
    /\ UNCHANGED destroyed


\* Lines 356-375: wait out a draining entry; a returned None or attached
\* database drops the MPT permit guard.
MReadLoop(t) ==
    LET p == call[t].path IN
    /\ pc[t] = "mr_loop"
    /\ ~MDraining(p)
    /\ \/ /\ MUpgradable(p)
          /\ mstrong' = [mstrong EXCEPT ![p] = @ + 1]
          /\ mpermits' = mpermits + 1
          /\ Publish(t, p)
       \/ /\ mreg[p] = "writer"
          /\ mpermits' = mpermits + 1
          /\ Publish(t, NoPath)
          /\ UNCHANGED mstrong
       \/ /\ mreg[p] = "absent"
          /\ Goto(t, "mr_id")
          /\ UNCHANGED <<dobj, dstrong, dmpt, dremove, dheld, call, dlock,
                         mpermits, mstrong>>
    /\ UNCHANGED <<dexists, dpermits, mreg, mdbOpen, mtied, mremove, mobj,
                   mexists, mcontent, removing, lpermits, latest, wheld>>
    /\ UNCHANGED destroyed

\* Lines 377-380: the first of two separate reads of latest_snapshot_id.
MReadLatestId(t) ==
    /\ pc[t] = "mr_id"
    /\ Goto(t, "mr_open")
    /\ SetCall(t, [call[t] EXCEPT !.idMatch = (latest.id = call[t].e)])
    /\ UNCHANGED <<dvars, dlock, mvars, dheld, wheld>>
    /\ UNCHANGED destroyed


\* Mutant: a failed open returns a latest permit it never took.
MReadOpenFailReleasesLatest(t) ==
    LET p == call[t].path
        tie == call[t].idMatch /\ latest.h % EraEpochCount # 0
    IN
    /\ pc[t] = "mr_open"
    /\ \/ /\ tie /\ lpermits = 0
          /\ mpermits' = mpermits + 1
          /\ DataObjectFail(t)
          /\ UNCHANGED <<dobj, dstrong, dmpt, dremove, dheld, mreg, mstrong,
                         mdbOpen, mtied, mremove, mobj, lpermits>>
       \/ /\ ~tie \/ lpermits > 0
          /\ ~mexists[p] \/ IoErrors
          /\ mpermits' = mpermits + 1
          /\ lpermits' = lpermits + (IF tie THEN 1 ELSE 0)
          /\ DataObjectFail(t)
          /\ UNCHANGED <<dobj, dstrong, dmpt, dremove, dheld, mreg, mstrong,
                         mdbOpen, mtied, mremove, mobj>>
       \/ /\ ~tie \/ lpermits > 0
          /\ mexists[p]
          /\ lpermits' = lpermits - (IF tie THEN 1 ELSE 0)
          /\ mreg' = [mreg EXCEPT ![p] = "shared"]
          /\ mstrong' = [mstrong EXCEPT ![p] = 1]
          /\ mdbOpen' = [mdbOpen EXCEPT ![p] = @ + 1]
          /\ mtied' = [mtied EXCEPT ![p] = tie]
          /\ mremove' = [mremove EXCEPT ![p] = FALSE]
          /\ mobj' = [mobj EXCEPT ![p] = mcontent[p]]
          /\ Publish(t, p)
          /\ UNCHANGED <<dpermits, mpermits>>
    /\ UNCHANGED <<dexists, mexists, mcontent, removing, latest, wheld>>
    /\ UNCHANGED destroyed


\* Lines 381-414: the second read (the height); the latest permit is tried
\* for a non-checkpoint latest epoch; SnapshotMptDbSqlite::open fails on a
\* missing directory or an I/O error before the object exists; on success
\* both permits are forgotten and Some(weak) is registered.
MReadOpen(t) ==
    LET p == call[t].path
        tie == call[t].idMatch /\ latest.h % EraEpochCount # 0
    IN
    /\ pc[t] = "mr_open"
    /\ \/ /\ tie /\ lpermits = 0
          /\ mpermits' = mpermits + 1
          /\ DataObjectFail(t)
          /\ UNCHANGED <<dobj, dstrong, dmpt, dremove, dheld, mreg, mstrong,
                         mdbOpen, mtied, mremove, mobj, lpermits>>
       \/ /\ ~tie \/ lpermits > 0
          /\ ~mexists[p] \/ IoErrors
          /\ mpermits' = mpermits + 1
          /\ DataObjectFail(t)
          /\ UNCHANGED <<dobj, dstrong, dmpt, dremove, dheld, mreg, mstrong,
                         mdbOpen, mtied, mremove, mobj, lpermits>>
       \/ /\ ~tie \/ lpermits > 0
          /\ mexists[p]
          /\ lpermits' = lpermits - (IF tie THEN 1 ELSE 0)
          /\ mreg' = [mreg EXCEPT ![p] = "shared"]
          /\ mstrong' = [mstrong EXCEPT ![p] = 1]
          /\ mdbOpen' = [mdbOpen EXCEPT ![p] = @ + 1]
          /\ mtied' = [mtied EXCEPT ![p] = tie]
          /\ mremove' = [mremove EXCEPT ![p] = FALSE]
          /\ mobj' = [mobj EXCEPT ![p] = mcontent[p]]
          /\ Publish(t, p)
          /\ UNCHANGED <<dpermits, mpermits>>
    /\ UNCHANGED <<dexists, mexists, mcontent, removing, latest, wheld>>
    /\ UNCHANGED destroyed

-----------------------------------------------------------------------------
(* Producing a snapshot. new_snapshot_by_merging (lines 822-953) and        *)
(* new_temp_snapshot_for_full_sync (lines 1064-1091) open the temp data     *)
(* database with open_snapshot_write (lines 223-312), which opens the MPT   *)
(* with open_mpt_snapshot_write (lines 417-472); the genesis merge calls    *)
(* open_mpt_snapshot_write and SnapshotDb::create itself.                   *)

\* Lines 831-847 and 868-916: an incremental merge of old into e. The copy
\* of the old data directory to the temp path decides between opening the
\* copy (create = FALSE) and the fallback that creates an empty temp
\* database (create = TRUE, lines 917-927). Either way open_snapshot_write
\* gets no MPT path, so latest is opened, never created (createMpt =
\* FALSE, lines 259-268).
MergeStart(t, e, old) ==
    /\ pc[t] = "idle"
    /\ NotRecreated(e)
    /\ HoldsNothing(t) /\ WriterSlotFree(t)
    /\ ~dexists[e] /\ ~WritingEpoch(t, e)
    /\ dexists[old] /\ old < e
    /\ \E copied \in IF IoErrors THEN BOOLEAN ELSE {TRUE} :
          SetCall(t, [NoCall EXCEPT !.kind = "merge", !.e = e, !.old = old,
                                    !.path = Latest, !.create = ~copied])
    /\ Goto(t, "w_dacquire")
    /\ UNCHANGED <<dvars, dlock, mvars, dheld, wheld>>
    /\ UNCHANGED destroyed

\* Lines 1064-1091: the temp MPT is created at the full-sync temp path.
SyncStart(t, e) ==
    /\ pc[t] = "idle"
    /\ NotRecreated(e)
    /\ HoldsNothing(t) /\ WriterSlotFree(t)
    /\ ~dexists[e] /\ ~WritingEpoch(t, e)
    /\ SetCall(t, [NoCall EXCEPT !.kind = "sync", !.e = e, !.path = SyncTemp(e),
                                 !.create = TRUE, !.createMpt = TRUE])
    /\ Goto(t, "w_dacquire")
    /\ UNCHANGED <<dvars, dlock, mvars, dheld, wheld>>
    /\ UNCHANGED destroyed

\* Lines 845-856: the first snapshot (old = NULL_EPOCH, taken while
\* latest_snapshot_id is still NULL) creates the epoch's own MPT, with
\* neither a data permit nor the lock.
GenesisStart(t, e) ==
    /\ pc[t] = "idle"
    /\ NotRecreated(e)
    /\ e \in GenesisEpochs
    /\ HoldsNothing(t) /\ WriterSlotFree(t)
    /\ latest.id = NullEpoch
    /\ ~WritingEpoch(t, e)
    /\ SetCall(t, [NoCall EXCEPT !.kind = "genesis", !.e = e, !.path = EpochMpt(e),
                                 !.create = TRUE, !.createMpt = TRUE])
    /\ Goto(t, "w_latest")
    /\ UNCHANGED <<dvars, dlock, mvars, dheld, wheld>>
    /\ UNCHANGED destroyed

\* Line 238: a blocking acquire of the data permit.
WriteDataAcquire(t) ==
    /\ pc[t] = "w_dacquire"
    /\ dpermits > 0
    /\ dpermits' = dpermits - 1
    /\ Goto(t, "w_lock")
    /\ UNCHANGED <<dobj, dstrong, dmpt, dremove, dexists, dlock, mvars, call,
                   dheld, wheld>>
    /\ UNCHANGED destroyed

\* Lines 241-266: the lock, then (merge: no MPT path given) the assertion
\* that the new height is above the latest; its panic unwinds, dropping the
\* lock and the permit guard.
WriteLock(t) ==
    /\ pc[t] = "w_lock"
    /\ dlock = NoThread
    /\ \/ /\ call[t].kind = "merge" /\ Height(call[t].e) <= latest.h
          /\ dpermits' = dpermits + 1
          /\ Return(t)
       \/ /\ call[t].kind # "merge" \/ Height(call[t].e) > latest.h
          /\ dlock' = t
          /\ Goto(t, "w_latest")
          /\ UNCHANGED <<dpermits, call>>
    /\ UNCHANGED <<dobj, dstrong, dmpt, dremove, dexists, mvars, dheld, wheld>>
    /\ UNCHANGED destroyed

\* The writer call fails before its data object exists: the data permit
\* guard (none in the genesis merge) is released.
WriterFail(t) ==
    /\ dpermits' = dpermits + (IF call[t].kind = "genesis" THEN 0 ELSE 1)
    /\ Return(t)

\* Lines 423-424: a blocking acquire of the single latest permit.
WriteLatest(t) ==
    /\ pc[t] = "w_latest"
    /\ lpermits > 0
    /\ lpermits' = lpermits - 1
    /\ Goto(t, "w_check")
    /\ UNCHANGED <<dvars, dlock, mreg, mstrong, mdbOpen, mtied, mremove, mobj,
                   mexists, mcontent, removing, mpermits, latest, call, dheld,
                   wheld>>
    /\ UNCHANGED destroyed

\* Lines 426-433: SnapshotAlreadyExists if the MPT path is registered.
WriteCheck(t) ==
    LET p == call[t].path IN
    /\ pc[t] = "w_check"
    /\ \/ /\ mreg[p] # "absent"
          /\ lpermits' = lpermits + 1
          /\ WriterFail(t)
       \/ /\ mreg[p] = "absent"
          /\ Goto(t, "w_macquire")
          /\ UNCHANGED <<lpermits, dpermits, call, dlock>>
    /\ UNCHANGED <<dobj, dstrong, dmpt, dremove, dexists, mreg, mstrong,
                   mdbOpen, mtied, mremove, mobj, mexists, mcontent, removing,
                   mpermits, latest, dheld, wheld>>
    /\ UNCHANGED destroyed

\* Lines 435-436: a blocking acquire of the MPT permit.
WriteMptAcquire(t) ==
    /\ pc[t] = "w_macquire"
    /\ mpermits > 0
    /\ mpermits' = mpermits - 1
    /\ Goto(t, "w_open")
    /\ UNCHANGED <<dvars, dlock, mreg, mstrong, mdbOpen, mtied, mremove, mobj,
                   mexists, mcontent, removing, lpermits, latest, call, dheld,
                   wheld>>
    /\ UNCHANGED destroyed

\* Mutant: a failed MPT create or open keeps the latest permit.
WriteOpenFailKeepsLatest(t) ==
    LET p == call[t].path
        e == call[t].e
    IN
    /\ pc[t] = "w_open"
    /\ \/ /\ \/ call[t].createMpt /\ IoErrors
             \/ ~call[t].createMpt /\ (~mexists[p] \/ IoErrors)
          /\ lpermits' = lpermits
          /\ mpermits' = mpermits + 1
          /\ WriterFail(t)
          /\ UNCHANGED <<mreg, mdbOpen, mtied, mremove, mobj, mexists, mcontent,
                         latest, wheld>>
       \/ /\ call[t].createMpt \/ mexists[p]
          /\ mexists' = [mexists EXCEPT ![p] = TRUE]
          /\ mcontent' = [mcontent EXCEPT ![p] = e]
          /\ mobj' = [mobj EXCEPT ![p] = e]
          /\ latest' = [id |-> e, h |-> Height(e)]
          /\ mreg' = [mreg EXCEPT ![p] = "writer"]
          /\ mdbOpen' = [mdbOpen EXCEPT ![p] = @ + 1]
          /\ mtied' = [mtied EXCEPT ![p] = TRUE]
          /\ mremove' = [mremove EXCEPT ![p] = FALSE]
          /\ wheld' = [wheld EXCEPT ![t] = p]
          /\ Goto(t, "w_data")
          /\ UNCHANGED <<lpermits, mpermits, dpermits, call, dlock>>
    /\ UNCHANGED <<dobj, dstrong, dmpt, dremove, dexists, mstrong, removing,
                   dheld>>
    /\ UNCHANGED destroyed


\* Mutant: a failed MPT create or open keeps the MPT permit.
WriteOpenFailKeepsMpt(t) ==
    LET p == call[t].path
        e == call[t].e
    IN
    /\ pc[t] = "w_open"
    /\ \/ /\ \/ call[t].createMpt /\ IoErrors
             \/ ~call[t].createMpt /\ (~mexists[p] \/ IoErrors)
          /\ lpermits' = lpermits + 1
          /\ mpermits' = mpermits
          /\ WriterFail(t)
          /\ UNCHANGED <<mreg, mdbOpen, mtied, mremove, mobj, mexists, mcontent,
                         latest, wheld>>
       \/ /\ call[t].createMpt \/ mexists[p]
          /\ mexists' = [mexists EXCEPT ![p] = TRUE]
          /\ mcontent' = [mcontent EXCEPT ![p] = e]
          /\ mobj' = [mobj EXCEPT ![p] = e]
          /\ latest' = [id |-> e, h |-> Height(e)]
          /\ mreg' = [mreg EXCEPT ![p] = "writer"]
          /\ mdbOpen' = [mdbOpen EXCEPT ![p] = @ + 1]
          /\ mtied' = [mtied EXCEPT ![p] = TRUE]
          /\ mremove' = [mremove EXCEPT ![p] = FALSE]
          /\ wheld' = [wheld EXCEPT ![t] = p]
          /\ Goto(t, "w_data")
          /\ UNCHANGED <<lpermits, mpermits, dpermits, call, dlock>>
    /\ UNCHANGED <<dobj, dstrong, dmpt, dremove, dexists, mstrong, removing,
                   dheld>>
    /\ UNCHANGED destroyed


\* Lines 438-471: create, or open an existing directory (SnapshotNotFound
\* otherwise); on failure no object exists and both guards are released;
\* on success both permits are forgotten, latest_snapshot_id becomes the
\* new epoch and None is registered.
WriteOpen(t) ==
    LET p == call[t].path
        e == call[t].e
    IN
    /\ pc[t] = "w_open"
    /\ \/ /\ \/ call[t].createMpt /\ IoErrors
             \/ ~call[t].createMpt /\ (~mexists[p] \/ IoErrors)
          /\ lpermits' = lpermits + 1
          /\ mpermits' = mpermits + 1
          /\ WriterFail(t)
          /\ UNCHANGED <<mreg, mdbOpen, mtied, mremove, mobj, mexists, mcontent,
                         latest, wheld>>
       \/ /\ call[t].createMpt \/ mexists[p]
          /\ mexists' = [mexists EXCEPT ![p] = TRUE]
          /\ mcontent' = [mcontent EXCEPT ![p] = e]
          /\ mobj' = [mobj EXCEPT ![p] = e]
          /\ latest' = [id |-> e, h |-> Height(e)]
          /\ mreg' = [mreg EXCEPT ![p] = "writer"]
          /\ mdbOpen' = [mdbOpen EXCEPT ![p] = @ + 1]
          /\ mtied' = [mtied EXCEPT ![p] = TRUE]
          /\ mremove' = [mremove EXCEPT ![p] = FALSE]
          /\ wheld' = [wheld EXCEPT ![t] = p]
          /\ Goto(t, "w_data")
          /\ UNCHANGED <<lpermits, mpermits, dpermits, call, dlock>>
    /\ UNCHANGED <<dobj, dstrong, dmpt, dremove, dexists, mstrong, removing,
                   dheld>>
    /\ UNCHANGED destroyed

\* Mutant: open_snapshot_write returns holding the lock.
WriteDataKeepsLock(t) ==
    LET p == wheld[t] IN
    /\ pc[t] = "w_data"
    /\ \/ /\ IoErrors
          /\ MCloseAll({p})
          /\ wheld' = [wheld EXCEPT ![t] = NoPath]
          /\ WriterFail(t)
       \/ /\ IoErrors /\ call[t].kind = "merge" /\ ~call[t].create
          /\ MCloseAll({p})
          /\ wheld' = [wheld EXCEPT ![t] = NoPath]
          /\ DataObjectFail(t)
       \/ /\ Goto(t, "w_hold")
          /\ UNCHANGED dlock
          /\ UNCHANGED <<dpermits, call, removing, mreg, mdbOpen, mremove,
                         mtied, mpermits, lpermits, wheld>>
    /\ UNCHANGED <<dobj, dstrong, dmpt, dremove, dexists, mstrong, mobj,
                   mexists, mcontent, latest, dheld>>
    /\ UNCHANGED destroyed


\* Lines 278-311 (and 858-866 for the genesis merge): the temp data
\* database is created or opened with the MPT handed to it. If that fails
\* the MPT is dropped with it (on_close_mpt_snapshot) and the data guard is
\* released; if drop_mpt_table fails the data object already exists, so
\* on_close adds a permit on top of the guard's. On success the permit is
\* forgotten and open_snapshot_write returns, dropping the lock.
WriteData(t) ==
    LET p == wheld[t] IN
    /\ pc[t] = "w_data"
    /\ \/ /\ IoErrors
          /\ MCloseAll({p})
          /\ wheld' = [wheld EXCEPT ![t] = NoPath]
          /\ WriterFail(t)
       \/ /\ IoErrors /\ call[t].kind = "merge" /\ ~call[t].create
          /\ MCloseAll({p})
          /\ wheld' = [wheld EXCEPT ![t] = NoPath]
          /\ DataObjectFail(t)
       \/ /\ Goto(t, "w_hold")
          /\ dlock' = IF dlock = t THEN NoThread ELSE dlock
          /\ UNCHANGED <<dpermits, call, removing, mreg, mdbOpen, mremove,
                         mtied, mpermits, lpermits, wheld>>
    /\ UNCHANGED <<dobj, dstrong, dmpt, dremove, dexists, mstrong, mobj,
                   mexists, mcontent, latest, dheld>>
    /\ UNCHANGED destroyed

\* Lines 881-903 (and copy_and_merge, lines 688-699, on the fallback
\* path): drop_delta_mpt_dump and dump_delta_mpt may fail; then the old
\* snapshot is opened with open_snapshot_readonly(old, try_open = FALSE,
\* read_mpt_snapshot = FALSE) while the temp database is held.
MergeReadOld(t) ==
    LET old == call[t].old IN
    /\ pc[t] = "w_hold" /\ call[t].kind = "merge"
    /\ \/ /\ IoErrors
          /\ SetCall(t, [call[t] EXCEPT !.ok = FALSE])
          /\ Goto(t, "m_close")
          /\ UNCHANGED <<dstrong, dheld>>
       \/ /\ dobj[old]
          /\ DAttach(t, old)
          /\ Goto(t, "m_merge")
          /\ UNCHANGED call
       \/ /\ ~dobj[old] /\ ~dexists[old]
          /\ SetCall(t, [call[t] EXCEPT !.ok = FALSE])
          /\ Goto(t, "m_close")
          /\ UNCHANGED <<dstrong, dheld>>
       \/ /\ ~dobj[old] /\ dexists[old]
          /\ Goto(t, "m_acquire")
          /\ UNCHANGED <<call, dstrong, dheld>>
    /\ UNCHANGED <<dobj, dmpt, dremove, dexists, dpermits, dlock, mvars, wheld>>
    /\ UNCHANGED destroyed

\* Line 131, reached from line 900: a blocking acquire while the temp
\* database (and its latest permit) is held.
MergeAcquire(t) ==
    /\ pc[t] = "m_acquire"
    /\ dpermits > 0
    /\ dpermits' = dpermits - 1
    /\ Goto(t, "m_lock")
    /\ UNCHANGED <<dobj, dstrong, dmpt, dremove, dexists, dlock, mvars, call,
                   dheld, wheld>>
    /\ UNCHANGED destroyed

\* Line 136, reached from line 900.
MergeLock(t) ==
    /\ pc[t] = "m_lock"
    /\ dlock = NoThread
    /\ dlock' = t
    /\ Goto(t, "m_open")
    /\ UNCHANGED <<dvars, mvars, call, dheld, wheld>>
    /\ UNCHANGED destroyed

\* Lines 139-178 and 209-217 with read_mpt_snapshot = FALSE: the old
\* database is attached, or opened and registered without an MPT.
MergeOpenOld(t) ==
    LET old == call[t].old IN
    /\ pc[t] = "m_open"
    /\ dlock' = NoThread
    /\ \/ /\ dobj[old]
          /\ DAttach(t, old)
          /\ dpermits' = dpermits + 1
          /\ Goto(t, "m_merge")
          /\ UNCHANGED <<dobj, dmpt, dremove, call>>
       \/ /\ ~dobj[old] /\ (~dexists[old] \/ IoErrors)
          /\ dpermits' = dpermits + 1
          /\ SetCall(t, [call[t] EXCEPT !.ok = FALSE])
          /\ Goto(t, "m_close")
          /\ UNCHANGED <<dobj, dstrong, dmpt, dremove, dheld>>
       \/ /\ ~dobj[old] /\ dexists[old]
          /\ dobj' = [dobj EXCEPT ![old] = TRUE]
          /\ dstrong' = [dstrong EXCEPT ![old] = 1]
          /\ dmpt' = [dmpt EXCEPT ![old] = NoPath]
          /\ dremove' = [dremove EXCEPT ![old] = FALSE]
          /\ dheld' = [dheld EXCEPT ![t] = @ \cup {old}]
          /\ Goto(t, "m_merge")
          /\ UNCHANGED <<dpermits, call>>
    /\ UNCHANGED <<dexists, mvars, wheld>>
    /\ UNCHANGED destroyed


\* Thread t drops its Arc of the data database of e. The last drop closes
\* it: on_close (lines 474-493) gives the permit back and removes the
\* directory if flagged (the removal thread is abstracted to its effect),
\* and the database's Arc of its MPT is dropped.
DDrop(t, e) ==
    LET last == dstrong[e] = 1 IN
    /\ dheld' = [dheld EXCEPT ![t] = @ \ {e}]
    /\ dstrong' = [dstrong EXCEPT ![e] = @ - 1]
    /\ dobj' = [dobj EXCEPT ![e] = @ /\ ~last]
    /\ dmpt' = IF last THEN [dmpt EXCEPT ![e] = NoPath] ELSE dmpt
    /\ dremove' = IF last THEN [dremove EXCEPT ![e] = FALSE] ELSE dremove
    /\ dexists' = IF last /\ dremove[e] THEN [dexists EXCEPT ![e] = FALSE] ELSE dexists
    /\ dpermits' = dpermits + (IF last THEN 1 ELSE 0)
    /\ mstrong' = IF last /\ dmpt[e] # NoPath
                    THEN [mstrong EXCEPT ![dmpt[e]] = @ - 1] ELSE mstrong

\* The drop of e's data database is the last owner of its MPT.
MptLastRef(e) == dstrong[e] = 1 /\ dmpt[e] # NoPath /\ mstrong[dmpt[e]] = 1

\* Lines 904-916 (and 867-868, 926-927): direct_merge or copy_and_merge,
\* then the old snapshot is dropped; an MPT it was the last owner of is
\* closed by this thread.
MergeWork(t) ==
    LET old == call[t].old IN
    /\ \/ /\ pc[t] = "w_hold" /\ call[t].kind = "genesis"
          /\ UNCHANGED <<dvars, dheld, mvars>>
       \/ /\ pc[t] = "m_merge" /\ call[t].kind = "merge"
          /\ DDrop(t, old)
          /\ IF MptLastRef(old)
               THEN MCloseAll({dmpt[old]})
               ELSE UNCHANGED <<removing, mreg, mdbOpen, mremove, mtied,
                                mpermits, lpermits>>
          /\ UNCHANGED <<mobj, mexists, mcontent, latest>>
    /\ \E ok \in IF IoErrors THEN BOOLEAN ELSE {TRUE} :
          SetCall(t, [call[t] EXCEPT !.ok = ok])
    /\ Goto(t, "m_close")
    /\ UNCHANGED <<dlock, wheld>>
    /\ UNCHANGED destroyed

\* Lines 930-943: for an EAR checkpoint height, copy_mpt_snapshot (lines
\* 751-778) copies the latest MPT over the epoch's MPT directory; then the
\* temp database is dropped (on_close adds a data permit, on_close_mpt_
\* snapshot closes its MPT) and renamed into place. Any error returns
\* early, dropping the temp database all the same.
MergeClose(t) ==
    LET e == call[t].e
        era == Height(e) % EraEpochCount = 0
        Try(c) == IF c THEN (IF IoErrors THEN BOOLEAN ELSE {TRUE}) ELSE {FALSE}
    IN
    /\ pc[t] = "m_close"
    /\ \E copied \in Try(call[t].ok /\ era) :
       \E renamed \in Try(call[t].ok /\ (copied \/ ~era)) :
          /\ mexists' = IF copied THEN [mexists EXCEPT ![EpochMpt(e)] = TRUE] ELSE mexists
          /\ mcontent' = IF copied THEN [mcontent EXCEPT ![EpochMpt(e)] = mcontent[Latest]]
                                   ELSE mcontent
          /\ dexists' = IF renamed THEN [dexists EXCEPT ![e] = TRUE] ELSE dexists
    /\ MCloseAll({wheld[t]})
    /\ dpermits' = dpermits + 1
    /\ wheld' = [wheld EXCEPT ![t] = NoPath]
    /\ Return(t)
    /\ UNCHANGED <<dobj, dstrong, dmpt, dremove, mstrong, mobj, latest, dheld>>
    /\ UNCHANGED destroyed

\* The caller drops the full-sync temp database (on_close, then
\* on_close_mpt_snapshot for its MPT) before finalizing.
SyncDrop(t) ==
    /\ pc[t] = "w_hold" /\ call[t].kind = "sync"
    /\ MCloseAll({wheld[t]})
    /\ dpermits' = dpermits + 1
    /\ wheld' = [wheld EXCEPT ![t] = NoPath]
    /\ Goto(t, "s_final")
    /\ UNCHANGED <<dobj, dstrong, dmpt, dremove, dexists, dlock, mstrong, mobj,
                   mexists, mcontent, latest, call, dheld>>
    /\ UNCHANGED destroyed

\* Mutant: the epoch's MPT is copied from latest before the rename.
SyncFinalizeCopyFirst(t) ==
    LET e == call[t].e
        tmp == SyncTemp(e)
    IN
    /\ pc[t] = "s_final"
    /\ \E outcome \in IF IoErrors THEN {"ok", "mpt_rename", "copy", "data_rename"}
                                  ELSE {"ok"} :
       LET moved == mexists[tmp] /\ outcome # "mpt_rename"
           copied == moved /\ outcome # "copy"
       IN
       /\ mexists' = [p \in MptPaths |->
                        CASE p = Latest -> IF mexists[tmp] THEN moved ELSE mexists[p]
                          [] p = tmp -> mexists[p] /\ ~moved
                          [] p = EpochMpt(e) -> mexists[p] \/ copied
                          [] OTHER -> mexists[p]]
       /\ mcontent' = [p \in MptPaths |->
                        CASE p = EpochMpt(e) /\ copied -> mcontent[Latest]
                          [] p = Latest /\ moved -> mcontent[tmp]
                          [] OTHER -> mcontent[p]]
       /\ dexists' = IF outcome = "ok" THEN [dexists EXCEPT ![e] = TRUE] ELSE dexists
    /\ Return(t)
    /\ UNCHANGED <<dobj, dstrong, dmpt, dremove, dpermits, mreg, mstrong, mdbOpen,
                   mtied, mremove, mobj, removing, mpermits, lpermits, latest,
                   dheld, wheld>>
    /\ UNCHANGED destroyed


\* finalize_full_sync_snapshot (lines 1093-1138): remove the latest MPT
\* directory whoever has it open, rename the temp MPT to latest, copy it to
\* the epoch's MPT directory, rename the data directory into place; each
\* step may fail and end the call.
SyncFinalize(t) ==
    LET e == call[t].e
        tmp == SyncTemp(e)
    IN
    /\ pc[t] = "s_final"
    /\ \E outcome \in IF IoErrors THEN {"ok", "mpt_rename", "copy", "data_rename"}
                                  ELSE {"ok"} :
       LET moved == mexists[tmp] /\ outcome # "mpt_rename"
           copied == moved /\ outcome # "copy"
       IN
       /\ mexists' = [p \in MptPaths |->
                        CASE p = Latest -> IF mexists[tmp] THEN moved ELSE mexists[p]
                          [] p = tmp -> mexists[p] /\ ~moved
                          [] p = EpochMpt(e) -> mexists[p] \/ copied
                          [] OTHER -> mexists[p]]
       /\ mcontent' = [p \in MptPaths |->
                        IF (p = EpochMpt(e) /\ copied) \/ (p = Latest /\ moved)
                          THEN mcontent[tmp] ELSE mcontent[p]]
       /\ dexists' = IF outcome = "ok" THEN [dexists EXCEPT ![e] = TRUE] ELSE dexists
    /\ Return(t)
    /\ UNCHANGED <<dobj, dstrong, dmpt, dremove, dpermits, mreg, mstrong, mdbOpen,
                   mtied, mremove, mobj, removing, mpermits, lpermits, latest,
                   dheld, wheld>>
    /\ UNCHANGED destroyed

-----------------------------------------------------------------------------
(* destroy_snapshot (lines 973-1062), the drop of handles and the removal  *)
(* threads                                                                  *)

\* Lines 975-1014: the data half (a data database being drained is not
\* modelled here): flag the open database, or spawn the removal of the
\* directory, abstracted to its effect. The call takes no lock. A caller
\* destroys a snapshot once (when it leaves the snapshot info map), and
\* only once a newer snapshot is published.
DestroyStart(t, e) ==
    /\ pc[t] = "idle"
    /\ dexists[e] /\ ~dremove[e]
    /\ \E x \in Epochs : x > e /\ dexists[x]
    /\ dremove' = IF dobj[e] THEN [dremove EXCEPT ![e] = TRUE] ELSE dremove
    /\ dexists' = IF dobj[e] THEN dexists ELSE [dexists EXCEPT ![e] = FALSE]
    /\ SetCall(t, [NoCall EXCEPT !.kind = "destroy", !.e = e, !.path = EpochMpt(e)])
    /\ Goto(t, "md_loop")
    /\ UNCHANGED <<dobj, dstrong, dmpt, dpermits, dlock, mvars, dheld, wheld>>
    /\ destroyed' = destroyed \cup {e}

\* Lines 1016-1043: the MPT half waits out a draining entry, then upgrades
\* the open database or spawns the removal of the directory. (An entry
\* open for write, unreachable!/unreachable_unchecked, is never met: only
\* the genesis merge writes at an epoch's MPT path, and never while the
\* epoch can be destroyed.)
DestroyLoop(t) ==
    LET p == call[t].path IN
    /\ pc[t] = "md_loop"
    /\ ~MDraining(p)
    /\ \/ /\ MUpgradable(p)
          /\ mremove' = [mremove EXCEPT ![p] = TRUE]
          /\ mstrong' = [mstrong EXCEPT ![p] = @ + 1]
          /\ Goto(t, "md_drop")
          /\ UNCHANGED <<removing, call, dlock>>
       \/ /\ mreg[p] = "absent"
          /\ removing' = removing \cup {p}
          /\ Return(t)
          /\ UNCHANGED <<mremove, mstrong>>
    /\ UNCHANGED <<dvars, mreg, mdbOpen, mtied, mobj, mexists, mcontent,
                   mpermits, lpermits, latest, dheld, wheld>>
    /\ UNCHANGED destroyed

\* Mutant: destroy_snapshot's upgraded Arc is not dropped.
DestroyDropKeepsArc(t) ==
    LET p == call[t].path IN
    /\ pc[t] = "md_drop"
    /\ mstrong' = mstrong
    /\ IF mstrong[p] = 1 THEN Goto(t, "mc_close") /\ UNCHANGED <<call, dlock>>
                         ELSE Return(t)
    /\ UNCHANGED <<dvars, mreg, mdbOpen, mtied, mremove, mobj, mexists, mcontent,
                   removing, mpermits, lpermits, latest, dheld, wheld>>
    /\ UNCHANGED destroyed


\* Lines 1045-1058: set_remove_on_last_close, then the upgraded Arc goes
\* out of scope; if it was the last one this thread closes the database.
DestroyDrop(t) ==
    LET p == call[t].path IN
    /\ pc[t] = "md_drop"
    /\ mstrong' = [mstrong EXCEPT ![p] = @ - 1]
    /\ IF mstrong[p] = 1 THEN Goto(t, "mc_close") /\ UNCHANGED <<call, dlock>>
                         ELSE Return(t)
    /\ UNCHANGED <<dvars, mreg, mdbOpen, mtied, mremove, mobj, mexists, mcontent,
                   removing, mpermits, lpermits, latest, dheld, wheld>>
    /\ UNCHANGED destroyed

\* The thread that dropped the last Arc of an MPT database runs its
\* destructor: on_close_mpt_snapshot (lines 495-514).
MClose(t) ==
    /\ pc[t] = "mc_close"
    /\ MCloseAll({call[t].path})
    /\ Return(t)
    /\ UNCHANGED <<dvars, mstrong, mobj, mexists, mcontent, latest, dheld, wheld>>
    /\ UNCHANGED destroyed

\* Mutant: the thread dropping an MPT's last owner skips its destructor.
DataDropNoClose(t, e) ==
    /\ pc[t] = "idle"
    /\ e \in dheld[t]
    /\ DDrop(t, e)
    /\ UNCHANGED <<pc, call>>
    /\ UNCHANGED <<dlock, mreg, mdbOpen, mtied, mremove, mobj, mexists, mcontent,
                   removing, mpermits, lpermits, latest, wheld>>
    /\ UNCHANGED destroyed


\* A caller drops its Arc of a data snapshot; the last drop closes it
\* (on_close, lines 474-493) and drops its MPT, whose destructor this
\* thread then runs if that was the MPT's last owner.
DataDrop(t, e) ==
    /\ pc[t] = "idle"
    /\ e \in dheld[t]
    /\ DDrop(t, e)
    /\ IF MptLastRef(e)
         THEN /\ Goto(t, "mc_close")
              /\ SetCall(t, [NoCall EXCEPT !.kind = "close", !.path = dmpt[e]])
         ELSE UNCHANGED <<pc, call>>
    /\ UNCHANGED <<dlock, mreg, mdbOpen, mtied, mremove, mobj, mexists, mcontent,
                   removing, mpermits, lpermits, latest, wheld>>
    /\ UNCHANGED destroyed

\* fs_remove_snapshot (lines 516-525): the spawned thread removes whatever
\* directory is at the path when it runs.
FsRemove(p) ==
    /\ p \in removing
    /\ removing' = removing \ {p}
    /\ mexists' = [mexists EXCEPT ![p] = FALSE]
    /\ mcontent' = [mcontent EXCEPT ![p] = NullEpoch]
    /\ UNCHANGED <<dvars, dlock, mreg, mstrong, mdbOpen, mtied, mremove, mobj,
                   mpermits, lpermits, latest, tvars>>
    /\ UNCHANGED destroyed

-----------------------------------------------------------------------------
(* The manager as created by SnapshotDbManagerSqlite::new (lines 46-94) on *)
(* an empty snapshot directory: the latest MPT directory is created there.  *)

Init ==
    /\ dobj = [e \in Epochs |-> FALSE]
    /\ dstrong = [e \in Epochs |-> 0]
    /\ dmpt = [e \in Epochs |-> NoPath]
    /\ dremove = [e \in Epochs |-> FALSE]
    /\ dexists = [e \in Epochs |-> FALSE]
    /\ dpermits = MaxOpen
    /\ dlock = NoThread
    /\ mreg = [p \in MptPaths |-> "absent"]
    /\ mstrong = [p \in MptPaths |-> 0]
    /\ mdbOpen = [p \in MptPaths |-> 0]
    /\ mtied = [p \in MptPaths |-> FALSE]
    /\ mremove = [p \in MptPaths |-> FALSE]
    /\ mobj = [p \in MptPaths |-> NullEpoch]
    /\ mexists = [p \in MptPaths |-> p = Latest]
    /\ mcontent = [p \in MptPaths |-> NullEpoch]
    /\ removing = {}
    /\ mpermits = MaxOpen
    /\ lpermits = 1
    /\ latest = [id |-> NullEpoch, h |-> 0]
    /\ pc = [t \in Threads |-> "idle"]
    /\ call = [t \in Threads |-> NoCall]
    /\ dheld = [t \in Threads |-> {}]
    /\ wheld = [t \in Threads |-> NoPath]
    /\ destroyed = {}

\* Steps a thread takes inside a call without waiting on anything.
Step(t) ==
    \/ ReadOpen(t) \/ MReadPath(t) \/ MReadBegin(t) \/ MReadLatestId(t)
    \/ MReadOpen(t) \/ WriteCheck(t) \/ WriteOpen(t) \/ WriteData(t)
    \/ MergeReadOld(t) \/ MergeOpenOld(t) \/ MergeWork(t) \/ MergeClose(t)
    \/ DestroyDrop(t) \/ MClose(t)

\* Steps that wait on open_create_delete_lock, a semaphore or a 5 ms
\* spin on a draining entry.
Wait(t) ==
    \/ ReadAcquire(t) \/ ReadLock(t) \/ MReadAcquire(t) \/ MReadLoop(t)
    \/ WriteDataAcquire(t) \/ WriteLock(t) \/ WriteLatest(t)
    \/ WriteMptAcquire(t) \/ MergeAcquire(t) \/ MergeLock(t) \/ DestroyLoop(t)

\* Steps the caller chooses to take.
Caller(t) ==
    \/ \E e \in Epochs, tryOpen \in BOOLEAN : ReadStart(t, e, tryOpen)
    \/ \E e, old \in Epochs : MergeStart(t, e, old)
    \/ \E e \in SyncEpochs : SyncStart(t, e)
    \/ \E e \in GenesisEpochs : GenesisStart(t, e)
    \/ \E e \in Epochs : DestroyStart(t, e) \/ DataDrop(t, e)
    \/ SyncDrop(t) \/ SyncFinalize(t)

Next ==
    \/ \E t \in Threads : Step(t) \/ Wait(t) \/ Caller(t)
    \/ \E p \in MptPaths : FsRemove(p)

\* In-call steps and the removal threads run (weak fairness); a waiting
\* step is taken if what it waits for is available infinitely often: tokio
\* semaphores and parking_lot's lock are fair to waiters (strong fairness).
\* A caller holds a snapshot for the length of a read and then drops it
\* (weak fairness of DataDrop); its other choices (new calls, finalizing
\* a full sync) are not forced.
Fairness ==
    /\ \A t \in Threads :
          /\ WF_vars(Step(t))
          /\ SF_vars(Wait(t))
          /\ WF_vars(\E e \in Epochs : DataDrop(t, e))
    /\ \A p \in MptPaths : WF_vars(FsRemove(p))

Spec == Init /\ [][Next]_vars /\ Fairness

-----------------------------------------------------------------------------
(* Properties *)

\* Permits are taken by the thread in these states and not yet forgotten.
HoldsLatestGuard(t) == pc[t] \in {"w_check", "w_macquire", "w_open"}
HoldsMptGuard(t) == pc[t] \in {"mr_loop", "mr_id", "mr_open", "w_open"}

\* I1/I3 for the MPT registry: a key is present exactly while one
\* SnapshotMptDbSqlite of the path is alive (open for write, shared, or
\* in its drain window), and only a shared key has owners. Broken if any
\* path of open_mpt_snapshot_readonly, open_mpt_snapshot_write or
\* on_close_mpt_snapshot lets a second database of a path open.
MptRegistryMatchesOpenDb ==
    \A p \in MptPaths :
        /\ mdbOpen[p] <= 1
        /\ (mreg[p] = "absent") = (mdbOpen[p] = 0)
        /\ mstrong[p] > 0 => mreg[p] = "shared"

\* The Arc strong count of each shared MPT database equals its owners: the
\* open data snapshots that attached it plus destroy_snapshot's upgraded
\* Arc. The count is moved by readers, data-database closes, the merge's
\* drop of its old snapshot and destroy, each in its own thread.
MptOwnersCounted ==
    \A p \in MptPaths :
        mstrong[p] = Cardinality({e \in Epochs : dobj[e] /\ dmpt[e] = p})
                     + Cardinality({t \in Threads : pc[t] = "md_drop" /\ call[t].path = p})

\* lastest_mpt_snapshot_semaphore has one permit; it is either free, held
\* by an open MPT database created with it (released by
\* on_close_mpt_snapshot), or held by open_mpt_snapshot_write between its
\* acquire (line 423) and its forget (line 459).
LatestPermitConserved ==
    lpermits + Cardinality({p \in MptPaths : mdbOpen[p] > 0 /\ mtied[p]})
             + Cardinality({t \in Threads : HoldsLatestGuard(t)}) = 1

\* Every mpt_open_snapshot_semaphore permit is free, forgotten for a live
\* MPT database, or held by a guard of an open in progress: no path of
\* the MPT open calls or their failures leaks or doubles a permit.
MptPermitConserved ==
    mpermits + MapThenSumSet(LAMBDA p : mdbOpen[p], MptPaths)
             + Cardinality({t \in Threads : HoldsMptGuard(t)}) = MaxOpen

\* A data snapshot opened with its MPT reads the MPT state of its own
\* epoch: the MPT chosen by open_snapshot_readonly (the epoch's own, or
\* latest when latest_snapshot_id names the epoch) holds that epoch's
\* state, despite merges, full syncs and other destroys running meanwhile.
\* (An epoch once destroyed is excluded: destroy_snapshot takes no lock,
\* and an open racing it may fall back to the latest MPT.)
ReadersSeeTheirEpoch ==
    \A e \in Epochs \ destroyed : dobj[e] /\ dmpt[e] # NoPath => mobj[dmpt[e]] = e

\* I4: the data permits never exceed max_open_snapshots (the genesis merge
\* creates its temp database without a permit; on_close returns one).
DataOpenBound == dpermits <= MaxOpen

\* Only t can release p: it is t's temp database, or every open data
\* snapshot that owns p is held by t alone.
SoleOwner(t, p) ==
    \/ wheld[t] = p
    \/ /\ \E e \in dheld[t] : dmpt[e] = p
       /\ \A e \in Epochs : dobj[e] /\ dmpt[e] = p =>
              \A u \in Threads \ {t} : e \notin dheld[u]

\* Section 5, deadlock avoidance: no thread waits for
\* open_create_delete_lock while it alone owns the MPT database holding
\* the latest permit that the lock's holder waits for (line 423).
NoLockLatestCycle ==
    ~\E t, u \in Threads :
        /\ pc[t] \in {"r_lock", "w_lock", "m_lock"}
        /\ dlock = u /\ pc[u] = "w_latest" /\ lpermits = 0
        /\ \E p \in MptPaths : mdbOpen[p] > 0 /\ mtied[p] /\ SoleOwner(t, p)

\* I2: a blocking read of a published snapshot that no destroy_snapshot
\* has touched returns a handle.
PublishedSnapshotReadable ==
    [][\A t \in Threads :
         LET e == call[t].e IN
         (/\ call[t].kind = "read" /\ ~call[t].tryOpen /\ pc'[t] = "idle"
          /\ dexists[e] /\ ~dremove[e] /\ ~IoErrors
          /\ \A u \in Threads : ~(call[u].kind = "destroy" /\ call[u].e = e))
         => e \in dheld'[t]]_vars

\* A thread is inside a call, rather than idle or holding a full-sync
\* temp snapshot the caller is to drop and finalize.
InCall(t) == pc[t] # "idle" /\ ~(call[t].kind = "sync" /\ pc[t] \in {"w_hold", "s_final"})

\* C3: an MPT database whose last Arc was dropped is closed by
\* on_close_mpt_snapshot, so the readers and destroy_snapshot spinning on
\* its drain window (lines 365-367, 1028-1030) get past it.
MptDrainEnds == \A p \in MptPaths : MDraining(p) ~> ~MDraining(p)

\* Progress: every call (reads, merges, full syncs, destroys, the
\* destructors of dropped handles) returns, whatever the other threads'
\* locks, permits and spins.
CallsReturn == \A t \in Threads : InCall(t) ~> ~InCall(t)

====
