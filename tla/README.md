# TLA+ models of the snapshot database manager

This directory holds TLA+ models of `SnapshotDbManagerSqlite`
(`src/core/storage/src/impls/storage_db/snapshot_db_manager_sqlite.rs`) and of
the PoS VRF proposer election
(`src/core/src/pos/consensus/liveness/vrf_proposer_election.rs`), of the
test transaction generators
(`src/transactiongen/src/lib.rs`), and the TLC configurations that check them. `SnapshotDbManagerSqlite` is the part of
the Conflux storage layer that opens, creates, merges, publishes and deletes
the on-disk epoch snapshots.
`spec.md` at the repository root describes the same component in prose.

## 1. Inventory

### Source files

| File | What it is | Modelled |
|---|---|---|
| `core/storage/.../snapshot_db_manager_sqlite.rs` (1215 lines) | the snapshot database manager | yes, see below |
| `core/src/pos/consensus/liveness/vrf_proposer_election.rs` | VRF proposer election: candidates per round, pick the lowest VRF output | yes: `VrfProposer.tla` |
| `transactiongen/src/lib.rs` | test transaction generator: random accounts, sleep loops | partly: `TransactionGenerator.tla` models the workload thread and `stop()`, `SpecialTransactionGenerator.tla` the special generator; `generate_transaction` is not modelled |
| `core/src/pos/types/src/validator_config.rs` | serde structs and BCS decoding | no: data definitions, no state changes |
| `crates/client/src/rpc/errors/error_helpers.rs` | builds JSON-RPC error values | no: pure formatting |
| `crates/cfxcore/execute-helper/.../geth_tracer/utils.rs` | tracer helpers: memory words, gas used, stack push counts, type conversions, revert-reason decoding | partly: `GethTracerUtils.tla` checks the pure helpers against references; revert decoding is library work |
| `message/src/lib.rs` | module list and re-exports | no: no behaviour |

### Components of the snapshot manager and their state

* **Registry and lifecycle gate.** Two maps, `already_open_snapshots` and
  `mpt_already_open_snapshots`. Each maps a path to
  `Option<Weak<db>>`:
  * `None` means the database is open for exclusive write.
  * `Some(weak)` means it is shared by readers.
  * An absent key means it is closed.

  The component also owns the manager-wide `open_create_delete_lock` and the
  Arc strong count of each shared database. Its operations are:
  * `open_snapshot_readonly` and `open_mpt_snapshot_readonly` (lines 100-221 and 314-415);
  * `open_snapshot_write` and `open_mpt_snapshot_write` (lines 223-312 and 417-472);
  * `on_close` and `on_close_mpt_snapshot` (lines 474-514);
  * `destroy_snapshot` (lines 973-1062).

  The destructor of a database object calls `on_close`. That destructor
  belongs to `SnapshotDbSqlite`, which is outside `src/`, so it is modelled
  from spec §4.7.
* **Resource permits.** There are three tokio semaphores:
  * `open_snapshot_semaphore`, with `max_open_snapshots` permits;
  * `mpt_open_snapshot_semaphore`, with the same number;
  * `lastest_mpt_snapshot_semaphore`, with one permit.

  An open acquires a permit and then `forget`s it. The permit comes back
  through `on_close`.
* **Latest pointer.** `latest_snapshot_id`, a pair of epoch id and height. It
  is written by `open_mpt_snapshot_write` (line 463) and by
  `update_latest_snapshot_id`. It is read on the MPT read path.
* **Filesystem operations.** COW copy with a byte-copy fallback (lines
  586-686), rename, background `fs_remove_snapshot` threads (line 516), and
  XFS defragmentation.
* **Merge engine.** `new_snapshot_by_merging` (lines 822-953). It covers
  genesis and incremental merges, the COW and copy-and-merge paths, the
  EAR-checkpoint copy of the latest MPT, and publication by rename.
* **Full-sync engine.** `new_temp_snapshot_for_full_sync` and
  `finalize_full_sync_snapshot` (lines 1064-1138).
* **Recovery engine.** `recovery_lastest_mpt_snapshot` (lines 1140-1181).
* **Naming.** The path and name functions (lines 527-584 and 795-820), and
  `get_epoch_id_from_snapshot_db_name`.

### How the components interact

Worker threads call into the manager concurrently.

* A reader first consults the registry without the lock. It then acquires a
  permit and takes `open_create_delete_lock`. Under the lock it re-reads the
  registry, waiting out a draining entry, and opens from disk.
* A database's last `Arc` drop runs `on_close` on the dropping thread. This
  happens without the manager lock. `on_close` may spawn a removal thread,
  removes the key, and adds a permit.
* The MPT read path runs inside the data read path, under the same lock.
* The merge engine opens a temporary writer and, while holding it, opens the
  old snapshot for reading.

### What is hard here

* **The drain window.** After the last `Arc` drop and before `on_close`, the
  key is present but cannot be upgraded. Readers and `destroy_snapshot`
  poll it every 5 ms.
* **Permit accounting across early returns.** An open that fails after the
  database object exists releases the permit twice: once through the
  object's destructor (`on_close`) and once through the unforgotten
  `SemaphorePermit`.
* **Directory removal races opens.** Removal runs in background threads,
  and an open can race it.
* **Lock order and blocking.** There are three semaphores and one mutex. The
  merge path blocks on a permit while it already holds one.
* **Multi-step file operations.** Full sync and recovery remove, rename and
  copy in several steps that can fail midway.

### Properties that make each component correct

* **Registry.**
  * A path is never open twice (C1, I3).
  * A key is present exactly while a database object is open (I1).
  * Waits on the drain window end (C3). This is checked on the MPT side
    (`MptDrainEnds`), not on the data side (see section 4).
* **Permits.** The number of open databases stays at most
  `max_open_snapshots` (I4).
* **MPT and latest.** At most one writer of `latest` exists, and a reader
  never attaches the `latest` MPT while a writer holds it.
* **Merge.** Publication by rename is the only way a snapshot becomes
  visible (I5), and a merge does not deadlock on permits.
* **Full sync and recovery.** After finalize, `latest` equals the per-epoch
  MPT (I6), and recovery is idempotent (R3).
* **Naming.** The name round trip holds (R1).

## 2. Plan

Modules are listed in the order they are built. The most important
behaviour, the shared registry, comes first.

1. `SnapshotDbRegistry`: the data-snapshot registry, its semaphore and lock,
   readers, writers, handle drops, `on_close`, `destroy_snapshot` (data half)
   and removal threads. **Done in this sitting.**
2. `SnapshotMptRegistry`: folded into 3. The MPT registry is only ever
   used from the data-snapshot calls and under their lock, so it is modelled
   composed with them. **Done, as part of 3.**
3. `SnapshotManager`: the data and MPT registries together, with the reader
   attaching the MPT under the data lock, the genesis and incremental merge,
   the full sync and finalize, both halves of `destroy_snapshot` and the
   destructors. **Done in this sitting.** The torn read of
   `latest_snapshot_id` and the rename-only publication are in it; the
   merge deadlock at `max_open_snapshots` = 1 is reported by TLC's deadlock
   check (see section 3).
4. `SnapshotFiles`: the directories on disk, with
   `recovery_lastest_mpt_snapshot` at start-up, a crash between any two
   file-system steps of a merge, the checkpoint copy, a full sync or
   recovery, and restart by `new()`. Properties: I5, I6, R3. **Done.**
5. `CopySnapshot`: the `force_cow` escalation of `try_copy_snapshot`,
   checked against the spec's table (§4.3). The copy itself with
   `force_cow` = false, as `new()` sets it, is in `SnapshotFiles`.
6. Snapshot naming: the name builders, the merge-temp test and
   `get_epoch_id_from_snapshot_db_name`, with the R1 round trip. **Done**
   inside `SnapshotFiles`, whose paths are these names.
7. An abstract `SnapshotStore`: published snapshots, checkpoints and the
   caller's snapshot. `SnapshotFiles` is shown to refine it with
   `StoreRefinement` in `files_crash`. **Done** for the directory layer.
   Refining `SnapshotDbRegistry` to an abstract open/close/destroy
   store remains open.
8. `VrfProposer`: `receive_proposal_candidate`, `choose_proposal_to_vote`
   and `next_round`, with the choice checked against a reference minimum. **Done.**
9. `TransactionGenerator`: the workload thread of the test transaction
   generator and `stop()`. **Done**, with one violation run.
10. `GethTracerUtils`: the tracer's pure helpers as operators, each checked
   against a reference definition. **Done.**
11. `SpecialTransactionGenerator`: the states its random loops reach over
   several calls, as a recursive operator. **Done.**

## 3. Modules

### `SnapshotDbRegistry.tla` (with `MC_SnapshotDbRegistry.tla`)

**State.**

| Variable | Code it stands for |
|---|---|
| `reg` | `already_open_snapshots`: `"absent"`, `"writer"` (`None`) or `"shared"` (`Some(weak)`) |
| `strong` | the Arc strong count behind the weak |
| `removeFlag` | `remove_on_close` of the live object |
| `dbOpen` | the number of `SnapshotDbSqlite` objects of each path that exist |
| `exists` | the directory on disk |
| `removing` | spawned `fs_remove_snapshot` threads |
| `permits` | `open_snapshot_semaphore` |
| `lock` | `open_create_delete_lock` |
| `pc`, `call` | each thread's position in a call, and the call's arguments |
| `guard` | an unforgotten `SemaphorePermit` |
| `held`, `wheld` | the Arcs and writer each thread holds |

Paths are model values. `EpochPaths` are canonical snapshots: readers and
`destroy_snapshot` use them. `TempPaths` are merge and full-sync
temporaries: writers use them. The code never opens a canonical path for
write, so the `Some(None)` branches of the reader and of `destroy_snapshot`
cannot be reached and are left out.

**Actions.** Each action is one atomic step of the code between two points
where another thread can interleave. Each carries the lines it models.

| Code | Actions |
|---|---|
| `open_snapshot_readonly` | `ReadStart` (fast path), `ReadAcquire` (blocking or try), `ReadLock`, `ReadLoop` (the re-check and the drain wait under the lock), `ReadOpen` (open, MPT attach, publish, and every error outcome) |
| `open_snapshot_write` | `WriteStart`, `WriteAcquire`, `WriteLock`, `WriteOpen` |
| Arc drop and destructor | `DropShared`, `DropWriter`; `on_close` is `CloseRemove` followed by `CloseRelease` |
| `destroy_snapshot` (data half) | `DestroyStart`, `DestroyLoop`, `DestroyDrop` |
| removal thread | `FsRemove` |

The 5 ms poll of the drain loop is an await: the step is disabled while the
entry is draining.

**Abstractions.**
* The isolated MPT database a reader attaches is reduced to whether
  attaching it fails. With `use_isolated_db_for_mpt_table` it can fail
  without any I/O error, for example through `SemaphoreTryAcquireError` on
  the MPT pool, a busy `latest`, or a missing MPT directory. Module 3 will
  model it in full.
* Blocking calls (consensus opens) are made by threads that hold no
  database. `try_open` calls (RPC) may be made while holding others.

**Runs.**

| Run | What it checks |
|---|---|
| `registry_errors` (pass) | 3 threads, two canonical paths and one temp path, `max_open_snapshots` = 2, I/O errors on every open, no isolated MPT database. Every open then fails before a database object exists or succeeds. Invariants: `TypeOK`, `SingleDbPerPath`, `RegistryMatchesOpenDb`, `OpenBound`. Two permits let a reader reach the drain wait while another snapshot is open. Three paths against two permits make the bound a real limit. `PermitsBounded` bounds the semaphore at `MaxOpen + 2`; it only binds in the mutants. Thread symmetry. 1.36M states, about 40 s. |
| `registry_permit_leak` (violation) | One canonical and one temp path, `max_open_snapshots` = 1, 2 threads, the isolated MPT database on and no I/O errors. TLC finds `OpenBound` violated in 15 states. A reader's MPT attach fails after the `SnapshotDbSqlite` object exists, at lines 201-205. The `?` drops the object, whose destructor calls `on_close` and adds a permit. Then the unforgotten guard releases the permit again. With one permit, a snapshot and a writer are then open together. |

**Bounds.**
* Each thread holds at most one Arc per path.
* The semaphore is capped at `MaxOpen + 2` where errors can inflate it.
* Two or three threads are enough for every pairwise race that the
  properties are about:
  * last drop against a reader;
  * last drop against destroy;
  * a reader against a writer for a permit;
  * two writers on one temp path.

### `SnapshotManager.tla` (with `MC_SnapshotManager.tla`)

The manager with `use_isolated_db_for_mpt_table` on and no height set, so
every epoch keeps its MPT in the isolated database. An epoch id is its
height. Ids are only compared for equality, and heights through `>` and
`% era_epoch_count`. The content of an MPT database or directory is
abstracted to the epoch whose state it holds (`mobj`, `mcontent`).

**State.**

| Variable | Code it stands for |
|---|---|
| `dobj`, `dstrong`, `dmpt`, `dremove` | the registered `SnapshotDbSqlite` of an epoch, its Arc count, the MPT it attached (`update_mpt_snapshot`), `remove_on_last_close` |
| `dexists`, `dpermits`, `dlock` | the data directory, `open_snapshot_semaphore`, `open_create_delete_lock` |
| `mreg`, `mstrong`, `mdbOpen` | `mpt_already_open_snapshots`, the Arc count behind its weak, the live `SnapshotMptDbSqlite` objects of a path |
| `mtied` | the live object was opened with `Some(lastest_mpt_snapshot_semaphore)`, so its close returns the latest permit |
| `mremove`, `removing`, `mexists`, `mcontent`, `mobj` | its `remove_on_close`, pending removal threads, the directory and the epoch it holds, the epoch the open object holds |
| `mpermits`, `lpermits`, `latest` | `mpt_open_snapshot_semaphore`, `lastest_mpt_snapshot_semaphore` (one permit), `latest_snapshot_id` |
| `pc`, `call`, `dheld`, `wheld` | each thread's position and arguments, the data Arcs it holds, the MPT its temp database holds for write |
| `destroyed` | history: the epochs `destroy_snapshot` was called on |

MPT paths are `sqlite_latest`, `sqlite_<epoch>` and the full-sync temp path
of each epoch in `SyncEpochs`.

**Actions.** Each action is one atomic step between two points where another
thread can interleave, and its comment names the lines it models.

| Code | Actions |
|---|---|
| `get_snapshot_by_epoch_id` → `open_snapshot_readonly` | `ReadStart`, `ReadAcquire`, `ReadLock`, `ReadOpen`, then `MReadPath` (own MPT, else `latest` if `latest_snapshot_id` names the epoch, else the bail at line 194) |
| `open_mpt_snapshot_readonly` | `MReadBegin`, `MReadAcquire`, `MReadLoop`, `MReadLatestId` (first read of `latest_snapshot_id`), `MReadOpen` (second read, the latest permit's `try_acquire`, open, forget, register) |
| `new_snapshot_by_merging` | `GenesisStart` or `MergeStart`, then the write path, `MergeReadOld`/`MergeAcquire`/`MergeLock`/`MergeOpenOld` (line 900), `MergeWork`, `MergeClose` (checkpoint copy, drop, rename) |
| `new_temp_snapshot_for_full_sync`, `finalize_full_sync_snapshot` | `SyncStart`, the write path, `SyncDrop`, `SyncFinalize` |
| `open_snapshot_write`, `open_mpt_snapshot_write` | `WriteDataAcquire`, `WriteLock`, `WriteLatest`, `WriteCheck`, `WriteMptAcquire`, `WriteOpen`, `WriteData` |
| `destroy_snapshot` | `DestroyStart` (data half), `DestroyLoop`, `DestroyDrop` (MPT half) |
| Arc drops, `on_close`, `on_close_mpt_snapshot` | `DataDrop`, `MClose`, the helpers `DDrop` and `MCloseAll` inside the actions whose drops run them |
| removal thread | `FsRemove` |

A call's early return drops what it holds in the same step, as the code's
`?` does: an unforgotten permit guard, the lock guard, and an object whose
destructor runs `on_close` or `on_close_mpt_snapshot`.

**What the callers do.** The callers (the storage manager) are not in the
repository; the model restricts them as the code's comments and the spec
describe:
* snapshots are produced one at a time (`ConcurrentWriters` = FALSE);
* the first snapshot (`GenesisEpochs`) is below the first EAR checkpoint,
  and is taken only while `latest_snapshot_id` is still null;
* `destroy_snapshot` is called once per snapshot, and only once a newer one
  is published;
* an epoch is produced again only once its destroy has finished and its
  databases are closed (`NotRecreated`, from the comment at lines 482-488);
* blocking calls are made by threads that hold nothing; `NestedReads`
  lets a thread holding snapshots make `try_open` reads.

**Defensive branches that cannot be reached.** A reader holds `dlock`
through its whole MPT open and every writer takes `dlock` before the latest
permit, so a reader never meets an MPT entry open for write in `MReadLoop`,
and `WriteCheck`'s `SnapshotAlreadyExists` never fires. Both are modelled
and TLC confirms they are not taken.

**Runs.**

| Run | What it checks |
|---|---|
| `manager_errors` (pass) | 2 threads, epochs 1-3 with `era_epoch_count` = 3 (epoch 3 is a checkpoint), genesis at 1, a full sync of 3, `max_open_snapshots` = 2, and every open, create, copy, rename and merge step able to fail. Each failure is an added alternative, so the behaviours without errors are included. Invariants `TypeOK`, `MptRegistryMatchesOpenDb`, `MptOwnersCounted`, `LatestPermitConserved`, `MptPermitConserved`, `ReadersSeeTheirEpoch`. 290 022 states. |
| `manager_liveness` (pass) | Epochs 1-3, `era_epoch_count` = 2, no full sync, no symmetry. `MptDrainEnds`, `CallsReturn`. A state with no successor is not reported as a deadlock here: a call stuck in it stutters forever and so violates `CallsReturn`. |
| `manager_nested_deadlock` (violation) | `NoLockLatestCycle` is violated in 37 states. Thread A holds the snapshot of the latest non-checkpoint epoch, and its MPT holds the only latest permit. Thread B's merge takes the lock and waits at line 424 for that permit. A's `try_open` read of another epoch then waits for the lock at line 136. Neither moves. |
| `manager_genesis_permit` (violation) | `DataOpenBound` is violated in 9 states: the genesis merge's temp database, created without a permit (line 858), returns one when dropped (line 938). |
| `manager_read_published` (violation) | `PublishedSnapshotReadable` is violated in 36 states. The merge of 2 has been published, and a merge of 3 is still in flight but has already moved `latest_snapshot_id` to 3. A blocking read of epoch 2 then bails at line 194, because epoch 2's MPT lived only in `latest`. |

**Bounds.** Three epochs are the fewest that give a genesis merge, an
incremental merge from it and one more to replace `latest`, with one of them
an EAR checkpoint in `manager_errors`. Two threads give every pairwise race
the properties are about: a reader against a merge, destroy or full sync, and
a last drop against a reopen. `max_open_snapshots` = 2 because a merge holds
one permit while it opens the old snapshot. With 1 it deadlocks on itself
(line 900): TLC's deadlock check reports it, and `manager_liveness` with
`MaxOpen = 1` violates `CallsReturn` in 25 states, ending with the merge
blocked in `MergeAcquire` and a reader blocked behind it. The genesis leak
lets `open_snapshot_semaphore` grow, so `MC_SnapshotManager` caps it at
`MaxOpen + 2` (`DataPermitsBounded`).

**Fairness.** The in-call steps and the removal threads are weakly fair.
Waits on the lock, on a semaphore and on a drain window are strongly fair,
because parking_lot's mutex and tokio's semaphores serve waiters in turn and
the drain loops re-poll every 5 ms. A caller drops each snapshot it reads
(weak fairness of `DataDrop`). Its other choices carry no fairness: starting
calls and finalizing a full sync.

### `SnapshotFiles.tla`

What the manager's calls leave on disk when they fail midway, when the
process crashes between two file-system calls, and when the node starts
again. One process makes the calls one at a time: the threads and
registries are the subject of `SnapshotManager`, and the storage manager
that calls this code serialises snapshot production. The MPT is in the
isolated database, as in `SnapshotManager`.

**State.**

| Variable | Code it stands for |
|---|---|
| `dir` | every snapshot path: `sqlite_<e>`, `sqlite_merge_temp_<old><e>` and `sqlite_full_sync_temp_<e>` under the snapshot root; `sqlite_latest`, `sqlite_<e>`, `sqlite_merge_temp_<e>` and `sqlite_full_sync_temp_<e>` under the MPT root. Each maps to `None` (no directory), `Empty` (a freshly created database), `Partial` (what a failed or interrupted copy or write left), or the epoch whose state the directory holds. |
| `pc`, `op` | where the process is in a call, and the call's epoch, old epoch and whether the merge took the create fallback |
| `head` | the snapshot the caller continues from: the last merge or full sync that returned Ok, or the epoch recovery restored |
| `faults` | crashes and failed removals so far, bounded by `MaxFaults` |

**Names.** A path is its root and its directory name, and the name is
built the way the code builds it. It is the sequence of the pieces the
code concatenates: `sqlite_`, `merge_temp_`, `full_sync_temp_`, `latest`
and the lowercase hex digits of an id (`ToHex`). An `EpochId` is one
byte here, where the code uses 32, and the merkle root in a full-sync name
stands in as the epoch's byte. The name functions map one to one:
* `GetSnapshotDbName` is `get_snapshot_db_name`;
* `GetLatestMptSnapshotDbName` is `get_latest_mpt_snapshot_db_name`;
* `IsMergeTempSnapshotDbPath` is `is_merge_temp_snapshot_db_path`, the
  clean-up's test;
* `GetEpochIdFromSnapshotDbName` is `get_epoch_id_from_snapshot_db_name`.

`GetEpochIdFromSnapshotDbName` drops the prefix and parses exactly
`2 * EpochBytes` hex digits, or returns `NameErr`. Words are never split,
which is faithful because no hex digit string begins with one of them.

**Actions.** Each file-system call is one step, because a crash can come
between any two of them.

| Code | Actions |
|---|---|
| `recovery_lastest_mpt_snapshot` (1140-1181) | `RecRemoveLatest`, `RecCopy`, `RecRename`, `RecCreate` |
| `new_snapshot_by_merging` (822-943) | `MergeStart`, `MergeCopy` (`try_copy_snapshot`, whose Err selects the create fallback), `MergeOpen` (`open_snapshot_write`), `MergeWrite` (delta into the temp database and into `latest`, then the EAR check), `MergePublish` |
| `copy_mpt_snapshot` (751-778) | `CkptCopy`, `CkptRemove`, `CkptRename` |
| `new_temp_snapshot_for_full_sync`, `finalize_full_sync_snapshot` | `SyncStart`, `SyncCreate`, `SyncWrite` (the caller's streaming), `FinalizeRemove`, `FinalizeRename` (then `copy_mpt_snapshot`), `FinalizePublish` |
| the caller | `RecoveryStart` (its first call after start-up, or, with `RecoveryRetry`, the same call again after it failed, as R3 describes) |
| process | `Crash` (volatile state lost, the directory being written left `Partial`), `Restart` (`new()` creates `latest` if it is missing; the start-up clean-up of §7 removes the directories `is_temp_snapshot_db_path` accepts) |

The copy is modelled by what it does on Linux with `force_cow` = false, as
`new()` sets it (`TryCopy`):
* `cp -R --reflink=always` into an existing directory copies beneath it,
  so the database at the destination is unchanged and the copy reports
  success;
* when `cp` fails, the destination is removed and `fs_extra`'s byte copy
  runs;
* a byte copy that fails midway leaves what it copied.

`rename_snapshot_db` fails when the source is missing or the target
exists. A `remove_dir_all` whose error the code only logs (latest in
recovery and finalize, the epoch's MPT in `copy_mpt_snapshot`) may fail
when `RemoveErrors` is set (`Remove`); a failed removal of the
destination inside `try_make_snapshot_cow_copy_impl` lets the byte copy
run onto it. `SnapshotMptDbSqlite::create` keeps a database that exists:
`new()` calls it on every start to create latest "if database not exist".
What `SnapshotDbSqlite::create` does on an existing directory is outside
`src/`, so it may fail or keep the content (`Created`).

**Runs.**

| Run | What it checks |
|---|---|
| `files_crash` (pass) | Epochs 1-3, `era_epoch_count` = 2 (a merge to 2 copies the checkpoint), a full sync of 3, working reflink, copies that fail only by a crash, and up to two crashes at any step. A node may also shut down cleanly between calls. Checks `LatestFollowsHead` (I6, R3), `SnapshotsHoldTheirEpoch` (I5 and R1: every directory, under either root, whose name `get_epoch_id_from_snapshot_db_name` parses as an epoch holds that epoch's complete state), `StoreRefinement` and `StartupCompletes`. 3 819 states. |
| `files_recovery_retry` (violation) | Reflink that can fail now and then, and byte copies that can fail. `LatestFollowsHead` is violated in 8 states. The reflink `cp` fails and removes `sqlite_merge_temp_1`. The byte copy then fails midway and leaves it partial. The recovery is called again: its reflink `cp` now succeeds by copying beneath the leftover directory, and line 1169 renames the partial copy to `latest`. |
| `files_stale_latest` (violation) | Removals that may fail, and epoch 2, which is not a checkpoint. `LatestFollowsHead` is violated in 14 states. After the merge to 2 and a restart, recovery from 2 fails to remove latest (the error is only logged, line 1148), finds no MPT of epoch 2 and calls `SnapshotMptDbSqlite::create`, which keeps the existing latest. The call returns Ok: the caller is told it has no MPT state, and latest still holds epoch 2's. After a crash during a full sync it would hold a later epoch's. |

**Refinement.** `SnapshotStore.tla` states what the directories promise
the storage manager, with no file-system steps. It has three variables:
the published snapshots, the epochs with a checkpoint MPT, and the
snapshot the caller continues from. It has three actions:
* `Publish` adds a newer snapshot and moves the caller to it in one step;
* `Stage` adds or removes the checkpoint MPT of an epoch that is not yet
  published;
* `Restore` moves the caller to a published snapshot, or to no MPT state
  when that epoch has no checkpoint.

`SnapshotFiles` instantiates it with a refinement mapping:
* the published snapshots are the data directories that exist;
* the checkpoints are the per-epoch MPT directories that exist;
* the caller's snapshot is `head`.

`files_crash` checks `StoreRefinement` (`Store!Spec`) as a PROPERTY. Every
step of a call, every crash, restart and start-up clean-up must therefore
be a `SnapshotStore` step or leave its three variables unchanged.

**Bounds.** Three epochs give a merge onto an EAR checkpoint (2), a later
snapshot that is not one (3), and a full sync that jumps to 3. Two crashes
cover a crash during the recovery that follows a crash. `files_crash`
has no copy or removal errors: with removal errors the stale latest of
`files_stale_latest` appears, and with copy errors the create fallback
of line 918 depends on `SnapshotDbSqlite::create`. Clean restarts
between calls keep every reachable state from being a dead end, so
deadlock is checked.

**Fairness.** The steps of a call and `Restart` are weakly fair: the code
runs them without waiting for anything. Recovery at start-up is weakly
fair because the caller always runs it before anything else. Crashes,
merges and full syncs carry no fairness.

### `VrfProposer.tla` (with `MC_Algorithms.tla`)

`VrfProposer` keeps two pieces of state, each behind its own `Mutex`:
`current_round` and `proposal_candidates`. They are the two variables of
the same name. A block is a record: its round, the VRF output of its proof
(`U256::from_big_endian` of the proof hash) and its author. The output is
cut to `VrfBits` bits, and `U256Max` = 2^`VrfBits` - 1 plays `U256::MAX`.
`PROPOSAL_THRESHOLD` equals it, as at line 14. `vote` is the last value
`choose_proposal_to_vote` returned.

| Action | Code |
|---|---|
| `ReceiveCheck(t, b)` | lines 57-59: `is_valid_proposal` and the round compared under `current_round`'s lock. A rejected proposal returns false and changes nothing. |
| `ReceivePush(t)` | line 60: the push, under the other lock |
| `NextRoundSet(t, r)` | line 84 |
| `NextRoundClear(t)` | line 85 |
| `ChooseProposal(t)` | lines 68-81. The scan is `ChooseProposalToVote`, a `FoldLeft` that starts at (`None`, `U256::MAX`) and keeps a block only on a strict `<`. |

`receive_proposal_candidate` and `next_round` each take the two locks one
after the other, so each is two steps of its caller thread. The callers are
outside the repository. `next_round` is only given a round above the
current one (`r > current_round`), since round state in PoS consensus
only moves forward. `get_valid_proposer` is `unreachable!`. The body of
`is_valid_proposer` breaks off at line 44 and does not compile. Neither is
modelled, and neither is `current_seed`, which nothing reads after `new()`.

| Run | What it checks |
|---|---|
| `algorithms` (pass, with the checks of `GethTracerUtils` and `SpecialTransactionGenerator`) | One caller, three rounds, two authors, 2-bit outputs (0..3, 3 = `U256::MAX`), up to three candidates, author symmetry. 18 143 states. `VoteIsFirstMinimum` checks the fold against a set-based reference, `FirstMinimum`: the earliest candidate with the smallest output below `U256::MAX`, or `None`. It is checked over every candidate list up to length 3, with ties, duplicates and lists made only of `U256::MAX` outputs. `VoteIsForCurrentRound`: the vote is a proposal of the current round. |

The run has one caller, as a round-manager loop that handles one event at
a time would be. With two callers (`Threads = {t1, t2}`), TLC finds
`VoteIsForCurrentRound` violated in 5 states: `choose_proposal_to_vote`
runs between `next_round`'s update and its clear, and returns a block of
the old round. Overlapping calls can also push a block checked against the
old round after the clear, or clear a block that was accepted for the new
round. These are listed as a hazard; the callers decide whether they can
happen.

The edge at `U256::MAX` is real in the code. `is_valid_proposal` accepts an
output equal to `U256::MAX`, but the scan never chooses it, so a list of
only such candidates gives no vote. `FirstMinimum` states exactly that. At
256 bits the edge has probability 2^-256 per block.

### `GethTracerUtils.tla` (with `MC_Algorithms.tla`)

The module covers the helpers of the geth-style tracer
(`crates/cfxcore/execute-helper/src/observer/geth_tracer/utils.rs`). Each is
a constant-level operator, and each property compares it with a reference
that does not repeat the code:

| Operator | Code | Property and its reference |
|---|---|---|
| `ConvertMemory`, `HexEncode` | `convert_memory` with `hex::encode` (lines 13-20) | `MemoryWordsRoundTrip`: the words, joined and hex-decoded, are the memory; every word but the last has 64 digits; no word is empty. |
| `GasUsed` | `gas_used` (lines 24-27) | `GasUsedWithinRefundCap`: the result lies between four fifths of the gas spent and the gas spent (EIP-3529), so the u64 subtraction cannot wrap. |
| `StackPushCount`, `SinglePushOps` | `stack_push_count` (lines 56-117) | `PushCountNeverOverstates`: the count is at most the opcode's stack outputs (the yellow paper's alpha, written out in `StackOutputs` up to Cancun), and equal to them for PUSH, DUP and SWAP. |
| `ToBigEndian`, `FromBeBytes`, `ConvertU256` | `convert_u256` (lines 120-124) | `ConvertU256Preserves`: the value survives the byte round trip. |

The inputs are:
* memories of every length 0..100, plus one of 256 bytes holding every byte
  value;
* spent and refunded gas 0..30;
* all 256 opcodes;
* every 2-byte integer, standing for the 32 bytes of a U256, since the
  byte order is what can go wrong.

The checks have no state. Each is a constant formula in `GethTracerUtils`
(`...Check`), which TLC computes once. `MC_Algorithms` asserts each one in
every state of the `algorithms` run, conjoined with the type of the vote,
so a failing check is reported under its own name as a violated invariant.
They add no states to the run, which still has 18 143 states. With the
generator's reachable set computed as well, it takes about 8 s.

`stack_push_count` returns 0 for `TLOAD`, `BLOBHASH` and `BLOBBASEFEE`, which
push one item each, and for the call and create opcodes. `PushCountNeverOverstates`
allows this, because a smaller count is not an overstatement. The
`TLOAD` gap is listed as a hazard. The tracer code that decides whether a
call's push is filled in on return is outside the repository, so no run
states equality for these opcodes.

### `TransactionGenerator.tla` (with `MC_TransactionGenerator.tla`)

This module models `TransactionGenerator::generate_transactions`, the thread
that feeds test transactions into the pool, together with `stop()` called from
another thread.

**State.** The thread keeps its own records of balances and nonces
(`balance_map`, `nonce_map`), debited by the 21000 gas of every transaction.
The model holds those two maps, the accounts of its `SecretStore`, the
`Start`/`Stop` state behind the `RwLock`, `last_account`, `wait_count` and
the transaction count `tx_n`. A key is a model value, and `Random.generate`
returns one not used before. A random index into the store is any account
in it. The chain is the environment: a poll of a balance may or may not see
the funding.

**Actions.**

| Action | Lines |
|---|---|
| `WaitInitialTx(b)` | 190-215: wait for the funding of the initial account. The loop does not read the Stop state. |
| `StopCheck` | 219-223, 297-300: return at the head of either loop on Stop. |
| `SetupCreate(r)` | 224-260: fund a new account with `balance / account_count` from the initial account. |
| `SetupWait(seen)` | 261-291: poll `last_account.unwrap()` for up to 200 polls (`MaxWait`). |
| `WorkCreate(r)` | 302-318: refill the store from the initial account. |
| `WorkTransfer(s, r)` | 319-392: remove a sender below 42000 (the loop ends on an empty store), or send a zero-value transfer. |

`FundNewAccount` is the shared body of the two creates. A U256 subtraction
that would go below zero panics in the code. The model records that as
`pc = "underflow"`, and an `unwrap` of `None` as `pc = "unwrap_none"`.

| Run | What it checks |
|---|---|
| `txgen_refill` (violation) | `account_count` = 2, fundings 100000 and 200000, three fresh keys, `MaxWait` = 2, `MaxTxs` = 6. TLC finds `DebitsCovered` violated in 6 steps. |

How the `txgen_refill` violation happens:
1. Setup leaves 29000 on the initial account.
2. A transfer picks that account as sender and removes it, since it holds
   less than 42000.
3. The refill then debits 14500 + 21000 from it.

The transfer path checks for 42000 for exactly this reason, but the refill
path does not. For `n` = `account_count` accounts, a refill needs
`21000 * n / (n - 1)` on the initial account. For `n` = 2 that is 42000, so
once the initial account has been removed, the next refill always panics.
The end states (done, panicked) are not reported as deadlocks, because the
thread ends there.

### `SpecialTransactionGenerator.tla` (with `MC_Algorithms.tla`)

`SpecialTransactionGenerator` (lib.rs lines 397-631) keeps a map from
address to balance, nonce and ERC20 balance, plus `address_by_index`.
`generate_transactions` runs two loops:
* simple transfers, to a new account while there are fewer than 10;
* ERC20 transfers between existing accounts.

Each loop draws a random sender and drops it (`swap_remove`) if it cannot
pay the fee. Each loop ends when its count reaches zero or the block has no
room. The code is sequential, and its only inputs are the call's arguments
and random numbers. It is therefore modelled as a recursive operator, not a
state machine:
* `Step(s)` is the set of states that one loop iteration (or the start or
  return of a call) can lead to, over every random draw;
* `Reachable` is their fixpoint from `New`, computed by `Explore`.

The model has these features:
* A draw that changes nothing (`continue` on a sender without ERC20
  tokens, or on a receiver at the sender's index) is dropped.
* When every draw is such a no-op, the state is marked `stuck`. The loop
  then spins forever (hazard at line 591).
* `random % 0` on an empty list, and an `unwrap` of a missing address, are
  marked `panic`.

| Definition | Code |
|---|---|
| `New` | `new` (397-449) |
| `SwapRemoveAccount` | dropping a poor sender (479-482, 571-574) |
| `Receivers` | the receiver choice and the insertion of a new account (489-521) |
| `Send`, `SimpleSend` | the room check, the debit of the value and the nonce (523-547, 613-626) |
| `SimpleStep`, `Erc20Draws`, `Erc20Step`, `Panic` | one iteration of each loop (459-627) |
| `Step` | `generate_transactions` (452-630) |

The properties are checked in every reachable state, through
`...Check` constants as for the tracer:
* `IndexMatchesAccounts`: `address_by_index` lists each account of the
  map exactly once, so no `unwrap` panics.
* `NoncesConsecutive`: each account's returned transactions carry nonces
  0, 1, 2, ... in order, and its record holds the next one. This is about the
  generator's own bookkeeping. A transaction can still be rejected by the
  chain, because the fee is not in the balance record (line 538).

**Bounds.**
* The fee is 1 and the start balance 3, with two ERC20 tokens.
* There are two calls, each of up to two transactions of each kind.
* The block limit is 4, against sizes of 2 (simple) and 1 (ERC20).
* The 10-account threshold is 2 and `MAX_TOTAL_ACCOUNTS` is 3.

With these bounds, every receiver branch, drops, full blocks, panics and
stuck loops all occur, in about 10 000 generator states. Amounts and sizes
are scaled: only their order relative to the fee and the limit matters to
the branches.

The model keeps the code's debit of the transferred value alone. The fee is
never taken from the record, so the record overstates the real balance.
This is listed as a hazard (line 538). The model has no chain to compare
the record with, so no property covers it.

## 4. Not modelled, and why

* **Sqlite contents, merkle roots, delta dumps.** They are data, and no
  property tells them apart.
* **The XFS defragmentation thread.** It only reorganises files and changes
  no state the manager reads.
* **`update_latest_snapshot_id`.** Nothing in the repository calls it.
* **The COW-or-copy choice in `SnapshotManager`.** There it is reduced to
  success or failure; `SnapshotFiles` models the copy's effect on the
  directories.
* **`force_cow` = true.** `new()` always sets it to false, so the
  `SnapshotCowCreation` error paths cannot run (plan item 5).
* **MPT tables inside the data database** (`use_isolated_db_for_mpt_table`
  off, or a height before `use_isolated_db_for_mpt_table_height`). Both
  `SnapshotManager` and `SnapshotFiles` model the isolated MPT database,
  the configuration with the `latest` directory that the hard paths use.
* **What `SnapshotDbSqlite::create` does on a directory that already
  holds files.** That code is not in the repository. `SnapshotFiles` lets
  it fail or keep the content, and this matters only for the create
  fallback after a failed byte copy (line 918; listed as a hazard).
* **The drain-window liveness of the data registry** (C3, line 985).
  `SnapshotDbRegistry` models destroy_snapshot's wait, but no run checks
  that it ends. That check would need strong fairness of the mutex, the semaphore
  and the drain polls, and no symmetry. Combined with the three-path
  configuration of `registry_errors`, it does not finish within five
  minutes. The same window is checked on the MPT side by `MptDrainEnds`.
* **`TransactionGenerator::generate_transaction`.** It builds one
  transaction from the chain's view of an account and inserts a key into
  the shared store; its effect on the store is what `TransactionGenerator`
  already models as an account appearing.
* **The absence of the special generator's panic and endless loop.** No
  run asserts it. `SpecialTransactionGenerator` reaches both. Whether a call
  can meet them depends on its arguments, and no caller in the repository
  fixes them. Both are listed as hazards (lines 462 and 591), as is the
  unrecorded fee (line 538).

  The module has one run, for the refill underflow. Two other hazards of
  the generator are modelled but not checked by a run:
  * the `unwrap` of `None` when `account_count` is at most 1;
  * the funding wait that ignores `stop()`.
* **`maybe_revert_reason`, `convert_h160`, `convert_h256`, `to_h160`.**
  The first is ABI decoding done by `alloy_sol_types`, outside the
  repository. The other three copy bytes unchanged.
* **The other source files.** See the table in section 1.
