------------------------- MODULE SnapshotDbRegistry -------------------------
(***************************************************************************)
(* The data-snapshot half of SnapshotDbManagerSqlite                       *)
(* (core/storage/src/impls/storage_db/snapshot_db_manager_sqlite.rs):      *)
(* the map already_open_snapshots from path to Option<Weak<db>>, the       *)
(* counting semaphore open_snapshot_semaphore, the manager-wide            *)
(* open_create_delete_lock, the Arc strong count of every shared database  *)
(* and the destructor callback on_close, exercised by worker threads that  *)
(* call open_snapshot_readonly, open_snapshot_write, destroy_snapshot and  *)
(* drop their handles, and by the background threads fs_remove_snapshot   *)
(* spawns.                                                                 *)
(*                                                                         *)
(* Data is abstracted to what the properties tell apart: a path is a model *)
(* value, a database is identified by its path (at most one live object    *)
(* per path is what the properties check), the isolated MPT database a     *)
(* reader attaches is abstracted to whether attaching it fails.            *)
(***************************************************************************)
EXTENDS Naturals, FiniteSets, FiniteSetsExt, Functions

CONSTANTS
    Threads,     \* worker threads calling into the manager
    EpochPaths,  \* canonical snapshot paths: read by get_snapshot_by_epoch_id, destroyed
    TempPaths,   \* merge / full-sync temporary paths: opened for write
    MaxOpen,     \* max_open_snapshots
    IsolatedMpt, \* use_isolated_db_for_mpt_table
    IoErrors,    \* whether sqlite open / drop_mpt_table may fail
    NoThread, NoPath

ASSUME MaxOpen \in Nat \ {0}
ASSUME IsolatedMpt \in BOOLEAN /\ IoErrors \in BOOLEAN
ASSUME EpochPaths \cap TempPaths = {}

Paths == EpochPaths \cup TempPaths

VARIABLES
    reg,        \* already_open_snapshots: "absent" | "writer" (None) | "shared" (Some(weak))
    strong,     \* Arc strong count of the shared database of each path
    removeFlag, \* remove_on_close of the live database of each path
    dbOpen,     \* number of SnapshotDbSqlite objects of each path not yet dropped
    exists,     \* whether the directory of each path is on disk
    removing,   \* paths whose fs_remove_snapshot thread has not yet run
    permits,    \* available permits of open_snapshot_semaphore
    lock,       \* holder of open_create_delete_lock
    pc,         \* program counter of each thread
    call,       \* arguments of each thread's current call
    guard,      \* whether a thread holds a not yet forgotten SemaphorePermit
    held,       \* shared handles (Arc) each thread holds
    wheld       \* the database each thread holds open for write

vars == <<reg, strong, removeFlag, dbOpen, exists, removing, permits, lock,
          pc, call, guard, held, wheld>>

PCs == {"idle", "r_acquire", "r_lock", "r_loop", "r_open",
        "w_acquire", "w_lock", "w_open", "d_loop", "d_drop",
        "c_remove", "c_release"}

NoCall == [path |-> NoPath, tryOpen |-> FALSE, readMpt |-> FALSE, create |-> FALSE]

Call == [path : Paths \cup {NoPath}, tryOpen : BOOLEAN, readMpt : BOOLEAN,
         create : BOOLEAN]

TypeOK ==
    /\ reg \in [Paths -> {"absent", "writer", "shared"}]
    /\ strong \in [Paths -> 0 .. 2 * Cardinality(Threads)]
    /\ removeFlag \in [Paths -> BOOLEAN]
    /\ dbOpen \in [Paths -> Nat]
    /\ exists \in [Paths -> BOOLEAN]
    /\ removing \subseteq Paths
    /\ permits \in Nat
    /\ lock \in Threads \cup {NoThread}
    /\ pc \in [Threads -> PCs]
    /\ call \in [Threads -> Call]
    /\ guard \in [Threads -> BOOLEAN]
    /\ held \in [Threads -> SUBSET EpochPaths]
    /\ wheld \in [Threads -> TempPaths \cup {NoPath}]

-----------------------------------------------------------------------------
(* Helpers *)

\* Weak::upgrade succeeds: the key maps to Some(weak) and an owner remains.
Upgradable(p) == reg[p] = "shared" /\ strong[p] > 0

\* The drain window: Some(weak) whose strong count already dropped to zero.
Draining(p) == reg[p] = "shared" /\ strong[p] = 0

Goto(t, l) == pc' = [pc EXCEPT ![t] = l]

\* Return from the current call.
Return(t) == /\ pc' = [pc EXCEPT ![t] = "idle"]
             /\ call' = [call EXCEPT ![t] = NoCall]

\* Take one more Arc of the shared database of p.
Attach(t, p) == /\ strong' = [strong EXCEPT ![p] = @ + 1]
                /\ held' = [held EXCEPT ![t] = @ \cup {p}]

-----------------------------------------------------------------------------
(* open_snapshot_readonly(path, try_open, read_mpt_snapshot) *)

\* A call that may block on the semaphore is made by a thread holding no
\* database (consensus-initiated opens); a try_open call may be made while
\* holding others (RPC). Holding a writer while blocking is what
\* new_snapshot_by_merging does itself, and is examined with it.
HoldsNothing(t) == held[t] = {} /\ wheld[t] = NoPath

\* Lines 105-124: the unlocked fast path, then the existence check.
ReadStart(t, p, tryOpen, readMpt) ==
    /\ pc[t] = "idle"
    /\ p \notin held[t]
    /\ tryOpen \/ HoldsNothing(t)
    /\ \/ /\ Upgradable(p)
          /\ Attach(t, p)
          /\ UNCHANGED <<pc, call>>
       \/ /\ ~Upgradable(p)
          /\ ~exists[p]
          /\ UNCHANGED <<pc, call, strong, held>>
       \/ /\ ~Upgradable(p)
          /\ exists[p]
          /\ Goto(t, "r_acquire")
          /\ call' = [call EXCEPT ![t] = [NoCall EXCEPT !.path = p,
                          !.tryOpen = tryOpen, !.readMpt = readMpt]]
          /\ UNCHANGED <<strong, held>>
    /\ UNCHANGED <<reg, removeFlag, dbOpen, exists, removing, permits, lock,
                   guard, wheld>>

\* Mutation of ReadAcquire: try_acquire that goes ahead without a permit.
ReadAcquireNoTryCheck(t) ==
    /\ pc[t] = "r_acquire"
    /\ permits' = permits - 1
    /\ guard' = [guard EXCEPT ![t] = TRUE]
    /\ Goto(t, "r_lock")
    /\ UNCHANGED <<reg, strong, removeFlag, dbOpen, exists, removing, lock,
                   call, held, wheld>>

\* Lines 125-133: try_acquire fails at once, acquire waits for a permit.
ReadAcquire(t) ==
    /\ pc[t] = "r_acquire"
    /\ \/ /\ permits > 0
          /\ permits' = permits - 1
          /\ guard' = [guard EXCEPT ![t] = TRUE]
          /\ Goto(t, "r_lock")
          /\ UNCHANGED call
       \/ /\ permits = 0
          /\ call[t].tryOpen
          /\ Return(t)
          /\ UNCHANGED <<permits, guard>>
    /\ UNCHANGED <<reg, strong, removeFlag, dbOpen, exists, removing, lock,
                   held, wheld>>

\* Line 136.
ReadLock(t) ==
    /\ pc[t] = "r_lock"
    /\ lock = NoThread
    /\ lock' = t
    /\ Goto(t, "r_loop")
    /\ UNCHANGED <<reg, strong, removeFlag, dbOpen, exists, removing, permits,
                   call, guard, held, wheld>>

\* Mutation of ReadLoop: a Some(weak) that fails to upgrade is taken for a
\* closed database instead of being waited out.
ReadLoopNoDrainWait(t) ==
    LET p == call[t].path IN
    /\ pc[t] = "r_loop"
    /\ \/ /\ Upgradable(p)
          /\ Attach(t, p)
          /\ permits' = permits + 1
          /\ guard' = [guard EXCEPT ![t] = FALSE]
          /\ lock' = NoThread
          /\ Return(t)
       \/ /\ ~Upgradable(p)
          /\ Goto(t, "r_open")
          /\ UNCHANGED <<strong, held, permits, guard, lock, call>>
    /\ UNCHANGED <<reg, removeFlag, dbOpen, exists, removing, wheld>>

\* Lines 139-170, under the lock. The 5 ms sleep-and-retry on a draining
\* entry is an await: the step is disabled until the entry changes.
ReadLoop(t) ==
    LET p == call[t].path IN
    /\ pc[t] = "r_loop"
    /\ ~Draining(p)
    /\ \/ /\ Upgradable(p)
          /\ Attach(t, p)
          /\ permits' = permits + 1
          /\ guard' = [guard EXCEPT ![t] = FALSE]
          /\ lock' = NoThread
          /\ Return(t)
       \/ /\ reg[p] = "absent"
          /\ Goto(t, "r_open")
          /\ UNCHANGED <<strong, held, permits, guard, lock, call>>
    /\ UNCHANGED <<reg, removeFlag, dbOpen, exists, removing, wheld>>

\* Lines 172-217, under the lock. SnapshotDbSqlite::open fails on a missing
\* directory or an I/O error (the permit guard is released once); attaching
\* the isolated MPT database (lines 180-207) may fail after the database
\* object exists: dropping it runs on_close, which adds a permit, and the
\* unforgotten guard releases another one.
ReadOpen(t) ==
    LET p == call[t].path IN
    /\ pc[t] = "r_open"
    /\ \/ /\ exists[p]
          /\ reg' = [reg EXCEPT ![p] = "shared"]
          /\ dbOpen' = [dbOpen EXCEPT ![p] = @ + 1]
          /\ removeFlag' = [removeFlag EXCEPT ![p] = FALSE]
          /\ Attach(t, p)
          /\ UNCHANGED permits
       \/ /\ ~exists[p] \/ IoErrors
          /\ permits' = permits + 1
          /\ UNCHANGED <<reg, dbOpen, removeFlag, strong, held>>
       \/ /\ exists[p] /\ IsolatedMpt /\ call[t].readMpt
          /\ permits' = permits + 2
          /\ UNCHANGED <<reg, dbOpen, removeFlag, strong, held>>
    /\ guard' = [guard EXCEPT ![t] = FALSE]
    /\ lock' = NoThread
    /\ Return(t)
    /\ UNCHANGED <<exists, removing, wheld>>

-----------------------------------------------------------------------------
(* open_snapshot_write(path, create, ...) *)

\* Lines 228-235: the unlocked check for an already open path.
WriteStart(t, p, create) ==
    /\ pc[t] = "idle"
    /\ HoldsNothing(t)
    /\ \/ /\ reg[p] # "absent"
          /\ UNCHANGED <<pc, call>>
       \/ /\ reg[p] = "absent"
          /\ Goto(t, "w_acquire")
          /\ call' = [call EXCEPT ![t] = [NoCall EXCEPT !.path = p,
                                                        !.create = create]]
    /\ UNCHANGED <<reg, strong, removeFlag, dbOpen, exists, removing, permits,
                   lock, guard, held, wheld>>

\* Lines 237-238: a blocking acquire.
WriteAcquire(t) ==
    /\ pc[t] = "w_acquire"
    /\ permits > 0
    /\ permits' = permits - 1
    /\ guard' = [guard EXCEPT ![t] = TRUE]
    /\ Goto(t, "w_lock")
    /\ UNCHANGED <<reg, strong, removeFlag, dbOpen, exists, removing, lock,
                   call, held, wheld>>

\* Line 241.
WriteLock(t) ==
    /\ pc[t] = "w_lock"
    /\ lock = NoThread
    /\ lock' = t
    /\ Goto(t, "w_open")
    /\ UNCHANGED <<reg, strong, removeFlag, dbOpen, exists, removing, permits,
                   call, guard, held, wheld>>

\* Mutation of WriteOpen: the None entry is never inserted (lines 308-310).
WriteOpenNoInsert(t) ==
    LET p == call[t].path IN
    /\ pc[t] = "w_open"
    /\ reg[p] = "absent"
    /\ call[t].create \/ exists[p]
    /\ dbOpen' = [dbOpen EXCEPT ![p] = @ + 1]
    /\ exists' = [exists EXCEPT ![p] = TRUE]
    /\ wheld' = [wheld EXCEPT ![t] = p]
    /\ guard' = [guard EXCEPT ![t] = FALSE]
    /\ lock' = NoThread
    /\ Return(t)
    /\ UNCHANGED <<reg, strong, removeFlag, removing, held, permits>>

\* Lines 244-311, under the lock. Outcomes: SnapshotAlreadyExists on the
\* re-check; the isolated MPT writer or the sqlite create/open failing
\* before the database object exists (one release); SnapshotNotFound;
\* drop_mpt_table failing after it exists (on_close plus the guard: two
\* releases); success, which forgets the permit and inserts None.
WriteOpen(t) ==
    LET p == call[t].path
        Fail(n) == /\ permits' = permits + n
                   /\ UNCHANGED <<reg, dbOpen, exists, wheld>>
    IN
    /\ pc[t] = "w_open"
    /\ \/ /\ reg[p] # "absent"
          /\ Fail(1)
       \/ /\ reg[p] = "absent"
          /\ \/ /\ IsolatedMpt \/ IoErrors
                /\ Fail(1)
             \/ /\ ~call[t].create /\ ~exists[p]
                /\ Fail(1)
             \/ /\ ~call[t].create /\ exists[p] /\ IsolatedMpt /\ IoErrors
                /\ Fail(2)
             \/ /\ call[t].create \/ exists[p]
                /\ reg' = [reg EXCEPT ![p] = "writer"]
                /\ dbOpen' = [dbOpen EXCEPT ![p] = @ + 1]
                /\ exists' = [exists EXCEPT ![p] = TRUE]
                /\ wheld' = [wheld EXCEPT ![t] = p]
                /\ UNCHANGED permits
    /\ guard' = [guard EXCEPT ![t] = FALSE]
    /\ lock' = NoThread
    /\ Return(t)
    /\ UNCHANGED <<strong, removeFlag, removing, held>>

-----------------------------------------------------------------------------
(* Dropping handles: Arc::drop and the destructor of SnapshotDbSqlite       *)
(* (outside src/, from the destructor contract of the spec) that calls      *)
(* on_close once the last Arc is gone. The drain window is the time a       *)
(* thread spends between the last drop and CloseRemove.                     *)

DropShared(t, p) ==
    /\ pc[t] = "idle"
    /\ p \in held[t]
    /\ held' = [held EXCEPT ![t] = @ \ {p}]
    /\ strong' = [strong EXCEPT ![p] = @ - 1]
    /\ IF strong[p] = 1
         THEN /\ Goto(t, "c_remove")
              /\ call' = [call EXCEPT ![t] = [NoCall EXCEPT !.path = p]]
         ELSE UNCHANGED <<pc, call>>
    /\ UNCHANGED <<reg, removeFlag, dbOpen, exists, removing, permits, lock,
                   guard, wheld>>

DropWriter(t) ==
    /\ pc[t] = "idle"
    /\ wheld[t] # NoPath
    /\ wheld' = [wheld EXCEPT ![t] = NoPath]
    /\ Goto(t, "c_remove")
    /\ call' = [call EXCEPT ![t] = [NoCall EXCEPT !.path = wheld[t]]]
    /\ UNCHANGED <<reg, strong, removeFlag, dbOpen, exists, removing, permits,
                   lock, guard, held>>

\* on_close, lines 480-491: the connections close, a removal thread is
\* spawned if remove_on_close is set, the key leaves the registry. The
\* manager lock is not taken.
CloseRemove(t) ==
    LET p == call[t].path IN
    /\ pc[t] = "c_remove"
    /\ removing' = IF removeFlag[p] THEN removing \cup {p} ELSE removing
    /\ reg' = [reg EXCEPT ![p] = "absent"]
    /\ dbOpen' = [dbOpen EXCEPT ![p] = @ - 1]
    /\ removeFlag' = [removeFlag EXCEPT ![p] = FALSE]
    /\ Goto(t, "c_release")
    /\ UNCHANGED <<strong, exists, permits, lock, call, guard, held, wheld>>

\* on_close, line 492.
CloseRelease(t) ==
    /\ pc[t] = "c_release"
    /\ permits' = permits + 1
    /\ Return(t)
    /\ UNCHANGED <<reg, strong, removeFlag, dbOpen, exists, removing, lock,
                   guard, held, wheld>>

-----------------------------------------------------------------------------
(* destroy_snapshot(epoch), the data-snapshot half (lines 973-1014) *)

DestroyStart(t, p) ==
    /\ pc[t] = "idle"
    /\ Goto(t, "d_loop")
    /\ call' = [call EXCEPT ![t] = [NoCall EXCEPT !.path = p]]
    /\ UNCHANGED <<reg, strong, removeFlag, dbOpen, exists, removing, permits,
                   lock, guard, held, wheld>>

\* Lines 976-1003: wait out a draining entry, upgrade a live one, or find
\* none and spawn the removal at once (lines 1005-1010). Some(None) cannot
\* occur: canonical paths are never opened for write.
DestroyLoop(t) ==
    LET p == call[t].path IN
    /\ pc[t] = "d_loop"
    /\ ~Draining(p)
    /\ \/ /\ Upgradable(p)
          /\ strong' = [strong EXCEPT ![p] = @ + 1]
          /\ Goto(t, "d_drop")
          /\ UNCHANGED <<removing, call>>
       \/ /\ reg[p] = "absent"
          /\ removing' = removing \cup {p}
          /\ Return(t)
          /\ UNCHANGED strong
    /\ UNCHANGED <<reg, removeFlag, dbOpen, exists, permits, lock, guard,
                   held, wheld>>

\* Lines 1011-1013: set_remove_on_last_close, then the upgraded Arc is
\* dropped at the end of the match arm, possibly as the last owner.
DestroyDrop(t) ==
    LET p == call[t].path IN
    /\ pc[t] = "d_drop"
    /\ removeFlag' = [removeFlag EXCEPT ![p] = TRUE]
    /\ strong' = [strong EXCEPT ![p] = @ - 1]
    /\ IF strong[p] = 1
         THEN Goto(t, "c_remove") /\ UNCHANGED call
         ELSE Return(t)
    /\ UNCHANGED <<reg, dbOpen, exists, removing, permits, lock, guard, held,
                   wheld>>

\* fs_remove_snapshot's thread, lines 519-524.
FsRemove(p) ==
    /\ p \in removing
    /\ removing' = removing \ {p}
    /\ exists' = [exists EXCEPT ![p] = FALSE]
    /\ UNCHANGED <<reg, strong, removeFlag, dbOpen, permits, lock, pc, call,
                   guard, held, wheld>>

-----------------------------------------------------------------------------

\* After SnapshotDbManagerSqlite::new: nothing open, the canonical snapshots
\* on disk, orphan temporaries removed by the startup clean-up.
Init ==
    /\ reg = [p \in Paths |-> "absent"]
    /\ strong = [p \in Paths |-> 0]
    /\ removeFlag = [p \in Paths |-> FALSE]
    /\ dbOpen = [p \in Paths |-> 0]
    /\ exists = [p \in Paths |-> p \in EpochPaths]
    /\ removing = {}
    /\ permits = MaxOpen
    /\ lock = NoThread
    /\ pc = [t \in Threads |-> "idle"]
    /\ call = [t \in Threads |-> NoCall]
    /\ guard = [t \in Threads |-> FALSE]
    /\ held = [t \in Threads |-> {}]
    /\ wheld = [t \in Threads |-> NoPath]

Next ==
    \/ \E t \in Threads :
          \/ \E p \in EpochPaths, tryOpen, readMpt \in BOOLEAN :
                ReadStart(t, p, tryOpen, readMpt)
          \/ ReadAcquire(t) \/ ReadLock(t) \/ ReadLoop(t) \/ ReadOpen(t)
          \/ \E p \in TempPaths, create \in BOOLEAN : WriteStart(t, p, create)
          \/ WriteAcquire(t) \/ WriteLock(t) \/ WriteOpen(t)
          \/ \E p \in EpochPaths : DropShared(t, p) \/ DestroyStart(t, p)
          \/ DropWriter(t)
          \/ CloseRemove(t) \/ CloseRelease(t)
          \/ DestroyLoop(t) \/ DestroyDrop(t)
    \/ \E p \in Paths : FsRemove(p)

Spec == Init /\ [][Next]_vars

-----------------------------------------------------------------------------
(* Properties *)

\* Arcs of the shared database of p: one per holder, and one per
\* destroy_snapshot between its upgrade and the end of its match arm.
ArcCount(p) ==
    Quantify(Threads, LAMBDA t : p \in held[t])
      + Quantify(Threads, LAMBDA t : pc[t] = "d_drop" /\ call[t].path = p)

\* Threads that dropped the writer of p and are inside its on_close.
ClosingWriter(p) == {t \in Threads : pc[t] = "c_remove" /\ call[t].path = p}

\* (C1, I3) No path is ever open twice: a fresh sqlite open of p happens only
\* after every earlier database object of p, the one draining included,
\* has closed. This is what the drain-window wait in open_snapshot_readonly
\* and the locked re-check in open_snapshot_write are for.
SingleDbPerPath == \A p \in Paths : dbOpen[p] <= 1

\* (I1) A registry key is present exactly while a database object of its
\* path is open; a None entry belongs to the thread holding (or closing) the
\* writer; a Some(weak) entry is upgradable exactly while some thread owns
\* an Arc of it, so the drain window is the only time it cannot be upgraded.
RegistryMatchesOpenDb ==
    \A p \in Paths :
        /\ reg[p] # "absent" <=> dbOpen[p] = 1
        /\ reg[p] = "writer" <=>
              /\ p \in TempPaths
              /\ \E t \in Threads : wheld[t] = p \/ t \in ClosingWriter(p)
        /\ reg[p] = "shared" => strong[p] = ArcCount(p)

\* (I4) The number of open snapshot databases never exceeds
\* max_open_snapshots: every open holds a permit of open_snapshot_semaphore
\* that its on_close gives back.
OpenBound == SumFunction(dbOpen) <= MaxOpen

=============================================================================
