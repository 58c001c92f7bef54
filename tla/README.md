# Verification of cardano-lsm-rust

TLA+ models of the LSM tree in `src/`, the TLC runs that check them and the
TLAPS proofs about them. Paths like `lib.rs:1071` are under `src/src/`.

Contents: 1 the system, 2 the modules, 3 the runs and their bounds, 4 fairness,
5 what is proved, 6 where code and documentation disagree, 7 what is not
modelled, 8 plan.

## 1. The system

The library is an embedded key-value store, a log-structured merge tree without
a write-ahead log: unsaved data does not survive, durability comes from explicit
snapshots. One process opens a directory (session lock); in it one caller owns
`&mut LsmTree`, and one background thread compacts.

| component | state | operations | interacts with |
|---|---|---|---|
| `LsmTree`, writes (`lib.rs`) | memtable, levels, run counter, generation, credits, signal, shutdown flag | `insert`, `delete`, their batches, `flush_memtable` with back-pressure | shares all but the memtable with the background thread |
| readers (`lib.rs`, `sstable.rs`) | none | `get`, `range`, `scan_prefix`, `LsmSnapshot::{get,iter}` | read memtable, levels and, through filter and index, the files |
| compaction (`compaction.rs`, `lib.rs`) | clone of the levels, selected job, output run | `run_compaction`, `compact`, `compact_all`, `background_compact_loop` | both threads may compact; results go back under the levels lock if the generation is unchanged |
| in-memory snapshots (`lib.rs`) | clones of memtable and levels | `snapshot`, `rollback` | a rollback bumps the generation, so a compaction in progress is thrown away |
| persistent snapshots (`snapshot.rs`, `lib.rs`) | `snapshots/<name>/` with hard links and metadata | `save_snapshot`, `delete_snapshot`, `open_snapshot`, `list_snapshots` | links run files of `active/`, rebuilds levels from metadata |
| run files (`sstable.rs`) | five files per run in `active/`, a refcount per handle | `SsTableWriter::finish`, clone, drop, `hard_link_to`, `open` | the last drop deletes files by path |
| session lock (`session_lock.rs`) | lock file, `flock` | `acquire`, `Drop` | other processes |
| file format, checksums, atomic writer, I/O backend | bytes | encode, verify, fsync, rename | used by run files and snapshots |
| incremental Merkle tree, monoidal values | their own | insert, prove; folds over ranges | used next to the tree |

Hard to test, and what the models are for:

* the background thread works on a clone of the levels and writes back **by
  index** into levels the caller has meanwhile flushed into or rolled back;
* three orders that need not agree: position in a level's `Vec` (used by `get`),
  run number (used by `range`, both merges) and age of the data;
* tombstones, which must hide older values until nothing older is left;
* the writer waits for the compactor, which waits for a signal only writers send;
* runs are restored into levels from their metadata, after a close or a crash;
* files are deleted by whoever drops the last handle, while snapshots link them;
* processes racing between open, flock, write and unlink of the lock file;
* a run is five files and a snapshot a directory of links with two more: a
  crash, an error or a power loss can fall between any two system calls;
* two readers find an entry in a run's files on different ways, and each reader
  with bounds merges on its own;
* a Merkle tree that keeps its root by updating one path per insert.

What makes each part correct: the tree is a map and no flush or compaction
shows (`ImplementsKvStore`); a write-back removes exactly what was merged
(`CompactionJobCurrent`); levels ascend (`LevelsAscend`); L0 is bounded and a
stalled writer gets on (`L0Bounded`, `StallEnds`); run numbers name one run
(`RunNumbersUnique`); saved copies come back as saved
(`ImplementsDurableKvStore`); files live exactly as long as somebody needs them
(`HeldRunsReadable`, `SavedRunsIntact`, `SaveFindsItsRuns`, `NoOrphanFiles`);
the lock is exclusive but for `Drop` and never stuck (`HoldersApart`,
`FreeLockCanBeTaken`); what is held or saved is durable (`HeldRunsDurable`,
`SavedSurvivesCrash`, `PowerLossCosts`); the readers find what was written
(`TablesAnswer`, `ScanPrefixShows`); the Merkle root is that of the leaves
(`RootIsReference`).

## 2. The modules

    KvStore        abstract: a map, snapshots of it, named copies on disk
      ^ implemented by
    LsmTree        the tree of one session and its two threads
      extends LsmRuns      data and pure functions: runs, readers, merges
      extended by LsmSessions   saved snapshots, crash, restore, open
      extended by Queries       range bounds, scan_prefix, iter, folds
        extends SsTable         the bytes of a run's files
    SessionLock    processes and the lock file
    RunFiles       handles, refcounts, hard links, sessions
    DiskFiles      system calls, crash, failed calls, power loss
    MerkleTree     the incremental Merkle tree
    MC*            instances for TLC

    LsmTreeProofs           lemmas on runs, readers and merges (LsmRuns); types,
                            numbers, L0, jobs, level order
      extended by LsmContentsProofs   LsmTree implements KvStore
        extended by LsmSessionsProofs   LsmSessions implements it with named copies
        extended by QueriesProofs       the readers of Queries, down to the bytes
    RunFilesProofs, DiskFilesProofs, SessionLockProofs, MerkleTreeProofs
                            theorems of RunFiles, DiskFiles, SessionLock, MerkleTree

**LsmRuns.** An entry map (`Data`) is a total function from keys to a value,
`Tombstone` or `Absent`: `BTreeMap<Key, Option<Value>>`. A run has its number,
the level field it was written with and its entries. `RangeData` and `GetData`
are the two readers, each in the order the code walks; `CompactLevels` and
`CompactAllRuns` the two merges; `SelectLevel` the choice of
`select_level_compaction` and the L0 count of `run_compaction`. Keys stand for
byte strings in order; lengths are constants, so memtable sizes are real sums.
`range` is read over all keys at once; its bounds are in Queries.

**LsmTree.** A step is what happens under one lock or one atomic operation.
`pc["user"]` and `pc["bg"]` say where the two threads are.

| code | steps |
|---|---|
| `insert`, `delete`, batches | one step up to the swap in `flush_memtable`; the caller alone sees the memtable |
| `flush_memtable` | `StartFlush` (swap, number, write), `FlushPush`, `FlushCredit`, `FlushSignal`, then `FlushPoll`/`FlushResume` for back-pressure; `FlushFail` for an error of the write, with what it leaves (`LeaveBehind`) |
| `run_compaction(t)` | `LoadGeneration`, `CloneAndSelect`, `Merge` or `MergeFail`, `WriteBack`, in either thread |
| `background_compact_loop` | `BgWake`, `RunCompaction("bg")`, `BgCredit`, `BgExit` |
| `compact`, `compact_all` | `Compact` and `RunCompaction("user")`; `CompactAll`, `MergeAll` or `MergeAllFail`, `WriteAll` |
| `snapshot`, `rollback` | one step each: levels and generation change under one lock |
| `save_snapshot` | `SaveSnapshot`, the flush, `Link` |
| `Drop`, `open` | `Drop`, `Joined`; `Open` of the runs that failed writes have left whole |

What is in `active/` and no handle's is `left`: whole runs, and the highest
number of a run that is not whole. `finish` may fail at any of its system calls;
a flush or merge whose `finish` fails leaves nothing, a part of a run or, when
only the last sync of the directory failed (`sstable.rs:232-234`), a whole one
(`LeaveBehind`). It outlives a clean close, which deletes only what handles stand
for. `Open` puts the whole runs left into L0 in any order (the order of
`read_dir` and keys that are not ordered here leave it open), and counts on after
every number. `found` is a history variable, the runs a session started with:
they come in the order of their smallest keys, not of their age, so what is said
of a level's order and of L0's length makes an exception of them.

**LsmSessions** adds to it the levels each saved name was made from,
`DeleteSnapshot`, `OpenSnapshot` (runs go to the level their metadata names,
sorted by smallest key, counter after the greatest number; `active/` is cleared),
`Crash` and `OpenActive`. A crash may fall between any two steps, in a flush or a
merge too; it leaves every run that a handle stood for, any part of those being
written in either thread (`Unfinished`), and what failed writes had left before.
`OpenActive` is `LsmTree::open` with its sort by smallest key. That a crash may
also cut off the deletion of files is in RunFiles and DiskFiles.

**SsTable and Queries.** Keys and values are byte strings here. `Table(d)` is
what `finish` writes for the entries `d`: keyops and blobs as bytes, the index
with its offsets, the filter's bits under any hash. `Written` is the loop of
`finish`, a `WriteEntry` for each entry. `GetBackend` reads through filter, index
and offsets; `RangeWithTombstones` is the loop that walks the keyops file, a
`ParseEntry` for each entry it meets there. Queries has
the readers on top, as functions of memtable and levels: `TreeRange`,
`ScanPrefix`, `SnapshotIter`, and the folds of a monoidal tree over `u64`. They
change no state, so their properties are invariants of LsmTree's states, with a
snapshot taken at once standing for any snapshot.

**DiskFiles.** An operation is the sequence of its system calls (`WriteRun`,
`Save`, `DeleteRun`, `Restore` ...), `Step` makes the next one. The disk has
directory entries and file contents twice, as the kernel shows them and as far
as they are synced. `Crash` keeps the first, `PowerLoss` keeps of each unsynced
change what it likes, `Abort` lets a call fail, and `CutUnlinkAll` stops a
directory's removal half-way. A rename is one change of its directory, so a power
loss keeps both its names or neither (`RenamesWhole`): the atomic writer relies
on that (`atomic_file.rs:10`). Inodes are as many as a path can name in memory
and on disk, and one to spare. Contents are a run, a snapshot's metadata, or
`Torn`; opening compares every file with the checksums file. One process, one
operation at a time: the interleaving of threads is in RunFiles, where a run's
files are there whole or in part.

**MerkleTree.** Trees of any height with `Insert`, `Snapshot`, `Rollback`, also
across trees; `Prove`, `VerifyProof` and `Diff` as functions. A hash is the term
that was hashed, with key and value joined by their separator as the code joins
them; `Reference` computes a tree from its leaves alone.

**SessionLock.** One step per system call of `acquire` and `Drop`: look at the
file, open with truncation, flock, write the info, unlink, close, and the rest
of the tree's fields, which are dropped after the lock. A process may die
anywhere. A pid is not used again.

**RunFiles.** What data and order do not matter for: which handles exist, in
the levels, a job, a snapshot or a save in progress, which files are in
`active/` and `snapshots/<name>/`, and which files a dropped last handle
deletes. `Settle` is the common end of every step: new holders, and directories
less the files of every handle nobody holds any more. A file carries the session
that wrote it, so a file of the same name and other contents is told apart. The
compactor may select any runs. A run is written in two steps (`StartFlush` and
`EndFlush`, `StartOutput` and `EndOutput`) with steps of the other thread between
them: it is in `parts` until all its files are written, then in `active`.
`FlushFail` and `OutputFail` leave no file, a part or the whole run without a
handle (`Abandon`), and so may a crash in the middle. `Open` takes handles on the
whole runs, skips the parts, and leaves their files. A crash may also fall
inside `delete_files`: of the handles that a step under way may be dropping
(`Dropping`, a few more than can drop at once) any are deleted whole or left
without their `.keyops` (`remains`), which the next writer of that number meets
(`Free`). `strays` is a history variable: which of the files in `active/` are
those of a write or a deletion that did not end.

**KvStore** has one action per call. `ImplementsKvStore` is checked call by
call: `Insert(k, v)` is `Put` of that key and value, `Rollback(s)` is `Rollback`
of that snapshot, and every step of a flush, a compaction or a save is a stutter
of the store. An open that finds whole runs, left by a crash or by a write that
failed, is `Adopt`, which leaves the contents open; any other open is `Open`, of
an empty map. The mapping takes `map` to `View`, what `range` shows of the
memtable, the memtable being flushed and the levels.

## 3. The runs

| run | module | properties | what it shows |
|---|---|---|---|
| `core` | LsmTree | `CompactionJobCurrent` `LevelsAscend` `GetAgreesWithRange` `ImplementsKvStore` | writes, snapshot and rollback against the background thread |
| `manual` | Queries | `TablesAnswer` `ScanPrefixShows` `IterShowsContents` `FoldsAddUp` `ImplementsKvStore` | deletes, batches, `compact`, `compact_all` with a quiet background thread, merges that fail and sessions that open what they have left; the readers with bounds in every state on the way |
| `liveness` | LsmTree | `TypeOK` `RunNumbersUnique` `L0Bounded` `StallEnds` `DropReturns` | both compactors, rollback, saves, failing flushes, whose runs later sessions may open; back-pressure ends and the tree closes, under fair threads |
| `sessions` | LsmSessions | `SessionTypeOK` `RunNumbersUnique` `ImplementsDurableKvStore` | saves, deletes of saves, restores, closes, crashes at any step, failing merges, opens of what is left |
| `lock` | SessionLock | `HoldersApart` `FreeLockCanBeTaken` | sessions end by drop or crash at any system call, writes may fail |
| `files` | RunFiles | `TypeOK` `HeldRunsReadable` `SavedRunsIntact` `SaveFindsItsRuns` `NoOrphanFiles` | up to three sessions on one directory, with writes that fail, and writes and deletions that a crash cuts off |
| `disk` | DiskFiles | `TypeOK` `HeldRunsDurable` `NumbersFresh` `AtomicFilesWhole` `SavedSurvivesCrash` `PowerLossCosts` | crash, failed call or power loss at any system call |
| `merkle` | MerkleTree | `TypeOK` `RootIsReference` `ProofsVerify` `ProofsBind` `DiffFindsChanges` `InsertProves` | two trees, past their capacity, rollbacks across them |
| `v_get_tombstone`, `v_compaction_race`, `v_backpressure`, `v_lock_unlink` | | see section 6 | the code does what a comment denies |

Bounds, each a constant of the module:

* `MaxRun`: a call that may write a run starts only up to this run number;
  compactions already running go on. `core` has 5 with an entry target of 0, so
  that a run is merged into the bottom level twice and a rollback can fall in
  every gap of that; `manual` 4, where a merge that drops a tombstone
  too early first brings a deleted key back; `liveness` 4, enough to stall
  and one more than L0 needs to pass its limit; `sessions` 2 per session,
  `files` 3 in all, `disk` 2: a run that is replaced by another.
* `MaxGen`: one rollback per session. The generation is only tested for equality
  with an earlier value, and one change makes every older job stale.
* `MaxSession`: three in `files`, so that a session can follow a session that
  restored; two in `disk`, a session and the one after its end (three were run
  as well, with the same result).
* `MaxCut`: one run at a time in `files` whose deletion a crash cut off.
* `MaxMishaps`, `MaxOdd`: one crash, failed call or power loss in `disk`; of what
  is not synced, one change may fare unlike all the others. The order that
  matters is that of one unsynced change against the rest.
* `Aux`: of the filter and the index, which are written alike one after the
  other, `disk` has one.
* `MaxLeaves`, `Heights`: four leaves over two trees of height 0 to 2, so that a
  tree may hold up to four times its capacity.
* `MaxByte`, `KeyLen`, `NumHashes`, `BitsPerKey`, `ScanAllLen` in `manual`: two-byte
  keys over two bytes, so that a prefix may end in the largest byte, its
  successor may be a key, and filters have collisions. Bounds and prefixes are
  all strings up to a key's length, or all keys. Values are two bytes, `u64` is
  scaled to them, and two values overflow it.
* `Keys`, `Values`: one or two. Merges work key by key; two keys matter where a
  run holds one of them (`manual`). Two values tell old from new;
  values are interchangeable, which the symmetry of `core` uses.
* `MaxLevel` 2 or 3: an L0, tiered levels and a bottom level. `manual` stays
  above the bottom level (`SizeRatio` 100) but for `compact_all`: there are
  deletes, and a merge into the bottom level may forget them (section 6). Merges
  into it are in `core`, which calls the same `run_compaction`; `core` has no
  failing ones, so of the exception that `GetAgreesWithRange` makes for runs found
  only the theorem speaks.
* `MemtableSize`, `BaseTarget`, `SizeRatio`, `L0Trigger`, `MergeBatch`,
  `StallMult`, `ResumeMult`: the code's parameters, scaled down so that one or
  two inserts fill a memtable and a few runs fill a level. `ResumeMult` is below
  `StallMult`, as 2 is below 4 in the code.
* `Calls`, `Faults`, `Ends`, `KeepSnapshots`: which calls this caller makes and
  what may fail. A restriction here is an assumption of the run: `core` and
  `sessions` have no caller that compacts by hand, `manual` no background
  round, because section 6 shows that both together lose data; `manual` and
  `sessions` compare what `range` shows, as `get` differs on tombstones.
  `liveness` has failing flushes, `manual` and `sessions` failing merges; no run
  that compares contents has failing flushes, which lose the memtable;
  `files` has a caller that drops its snapshots with the tree.
* three processes and four lock-file inodes: one process may hold the lock, one
  be waiting on an inode already unlinked, and one arrive.

Deadlock is checked in all runs of the tree and in `merkle`. `lock`, `files` and
`disk` may really stop: all processes are dead, or the last session is over.

Every property of a passing run has a mutant: a definition with a plausible bug
(no second look at the generation, output at the wrong end, tombstones dropped
too early, numbers from 1 after a restore, flock's result ignored) under which
the run reports that property violated. Mutants stand before the definition they
replace and are used nowhere else.

## 4. Fairness

`FairSpec` is weakly fair to the background thread, which the scheduler runs and
whose steps need no one else, and to the caller's thread inside a call it has
started: a call goes on until it returns. Nothing makes the caller call
again, and no locks are held across steps. The poll of the back-pressure loop
is a stuttering step: it changes nothing, so only the background thread can
end the wait.

`liveness` has every level below its entry target (`BaseTarget` 100). That is
needed: `v_backpressure` shows the stall lasting for ever without it.

## 5. What is proved

For every set of keys and values (finite keys), every configuration, any number
of runs, levels, rollbacks, sessions, processes. The theorems rest on the named
ASSUMEs of the modules only: finite keys, markers (`Tombstone`, `Absent`, `None`,
`Torn`, the directory `active/`) that are none of what they mark, snapshot names
that are finitely many and no other directory's, auxiliary files that differ, natural parameters, a
level besides L0, resume not above stall, keys that are numbers in LsmSessions, byte
strings of one length in Queries, byte strings without the separator in
MerkleTree. TLC evaluates each of them in the runs.

| theorem | says | argument |
|---|---|---|
| `TypeCorrect` | `Spec => []TypeOK` | `TypeInv`: `TypeOK`, all run numbers below the counter (`NumsBelow`), a run in flight where it is read (`FlightHeld`). A merge picks the newest run of a key with CHOOSE; it exists because the numbers are bounded |
| `RunsHaveTheirNumbers` | `Spec => []RunNumbersUnique` | inductive with `TypeInv`. `HeldStep`: a step has runs, held or left by failed writes, that it had before and at most one more, whose number is the counter; `NumsBelow` says that no run has it. It covers both compactors, discarded and failed outputs, rollbacks, which put back what the snapshot holds, and an open, which counts on from above every number left |
| `BackPressureBoundsL0` | `Spec => []L0Bounded` | the limit is that of the back-pressure, or the number of runs found if that is higher. `L0Inv`: L0 is above it only between the push that saw it and the end of the wait, and no snapshot held is above it, so no rollback brings a longer L0 back |
| `JobsStayCurrent` | `SoloCompactor => (Spec => []CompactionJobCurrent)` | `JobInv`: the job's generation is not ahead; with the generation unchanged only flushes touch the levels, and they append to L0 |
| `LevelsStayAscending` | `SoloCompactor => (Spec => []LevelsAscend)` | but for pairs of runs that the session started with. `AscInv`: also for snapshots, for the run in flight against L0 and for the output of a current job against its target; rests on `JobInv` and `NumsBelow` |
| `TreeImplementsKvStore` | solo compactor, no failing flush: `Spec /\ [][~ForgetsTombstones]_vars => ImplementsKvStore` | below; merges may fail, and an open that finds a whole run left is `Adopt` |
| `PlainTreeImplementsKvStore` | the same and a caller that deletes nothing: `Spec => ImplementsKvStore /\ KV!Spec` | `PlainInv`: no tombstone in a memtable, a snapshot or a run, one that a failed write left or an open found too, and no run is empty, so a merge always leaves an entry and forgets nothing |
| `GetAndRangeAgree` | solo compactor, no deletes: `Spec => []GetAgreesWithRange` | of levels with one of the runs found at most. By `AscInv` the order in which `get` walks a level is that of the numbers, and by `PlainInv` the first run with the key has a value, where `get` stops |
| `CallByCallRefines` | `Spec /\ ImplementsKvStore => KV!Spec` | the call-by-call property covers every step of `Next`, so it is a refinement of the abstract specification and leaves out no step |
| `SessionTypeCorrect` | `SSpec => []SessionTypeOK` | `SessionInv`, below |
| `SessionsKeepRunNumbersUnique` | `SSpec => []RunNumbersUnique` | `SessionInv`; a session counts on from above every run it starts with |
| `SessionsImplementDurableKvStore` | solo compactor, no failing flush: `SSpec /\ [][~ForgetsTombstones]_svars => ImplementsDurableKvStore /\ DurableKV!Spec` | below |
| `PlainSessionsImplementDurableKvStore` | the same and a caller that deletes nothing: `SSpec => ImplementsDurableKvStore /\ DurableKV!Spec` | `PlainSessionInv`: `PlainInv`, and neither saved runs nor those left by a crash or a failed write have tombstones |
| `FilesTypeCorrect` | RunFiles: `Spec => []TypeOK` | `HandlesInv`: all handles are on `active/`, a job, a save and a run being written belong to an open tree, a merge finds a number for its output |
| `SavedRunsStay` | RunFiles: `Spec => []SavedRunsIntact` | all handles are on `active/`, so no drop deletes in a snapshot's directory; and a save writes its metadata when it has nothing left to link |
| `NoFilesLeak` | RunFiles: `Spec => []NoOrphanFiles` | `OrphansInv`: a whole run in `active/` has a handle or is of a write that failed or was cut off; a run in part is being written or is such a one; what a cut-off deletion left is listed as that. A step that drops the last handle on a file deletes it, one that completes a run makes its handle, `open` takes handles on all whole runs, after which only parts and remains are without one, and `open_snapshot` clears `active/` |
| `HeldRunsStayReadable` | `~KeepSnapshots => (Spec => []HeldRunsReadable)` | `SessionInv`: between sessions nothing is held; in one, every handle is the session's own and finds its file; numbers tell the runs in `active/` and those being written apart, and those a saved snapshot lists, and the next number is on none. So a handle dropped deletes no file of another |
| `SavesFindTheirRuns` | `~KeepSnapshots => (Spec => []SaveFindsItsRuns)` | `SessionInv`: what is to be linked is held by the save itself |
| `LockTypeCorrect` | SessionLock: `Spec => []TypeOK` | one case per system call |
| `LockIsExclusive` | no `Drop`, then `Spec => []OneHolder` | `ExclusiveInv`: nothing is unlinked, so all descriptors are on the path's inode, and its flock has one owner |
| `HoldersAreApart` | `Spec => []HoldersApart` | an inode's flock has one owner, and a holder has the flock of the inode it opened |
| `FreeLockIsFree` | `Spec => []FreeLockCanBeTaken` | `FreeInv`: a live pid in the file at the path belongs to a process that has the file open or has unlinked it |
| `MerkleTypeCorrect` | MerkleTree: `Spec => []TypeOK` | `WellFormed`, a part of `MerkleInv`, below |
| `RootsAreTheReference` | `Spec => []RootIsReference` | `MerkleInv`; the recursion of `Reference` agrees with the stored hashes (`ReferenceIs`) |
| `ProofsAreVerified` | `Spec => []ProofsVerify` | a proof climbs along the stored hashes (`ClimbsNodes`) to the key's own subtree; two subtrees with equal hashes would hold the key's last leaf twice (`SameLeaves`) |
| `ProofsAreBinding` | `Spec => []ProofsBind` | two climbs past the same siblings end apart if they start apart (`ClimbsApart`), and `LeafBinds`: leaves tell pairs apart when no key holds the separator |
| `InsertsAreProved` | `Spec => InsertProves` | the proof returned climbs along the hashes that `insert` stores; before it no node on the path has the hash it gets (`PathIsNew`) |
| `DiffsAreFound` | `Spec => []DiffFindsChanges` | equal roots are of equal leaves in equal places (`LeavesDetermined`), and of nodes of one level (`SameLevel`) |
| `TablesAnswerAlways` | Queries: `Spec => []TablesAnswer` | `TableStands`, `PointRead`, `RangeRead`, below |
| `PrefixScansShow` | `KeyLen < ScanAllLen => (Spec => []ScanPrefixShows)` | reading every layer within bounds is reading all of it and then looking within bounds (`TreeRangeIs`); which keys lie between a prefix and its end (`PrefixWithin`, `OthersOutside`) |
| `IteratorsShowContents` | Queries: `Spec => []IterShowsContents` | the runs in the iterator's order are all runs (`UpwardsAll`), and of a key in one of them no other run has a say (`LoneEntry`) |
| `FoldsAddUpAlways` | `KeyLen <= ScanAllLen => (Spec => []FoldsAddUp)` | a fold is a loop over the keys in order (`FoldLeftIs`), a sum over a set takes its elements in any order (`SumAny`), and to saturate at each step is to saturate once at the end (`LoopAdds`) |
| `TypesCorrect` | DiskFiles: `Spec => []TypeOK` | `FullInv`, below, as for the next five |
| `RunsDurable` | DiskFiles: `Spec => []HeldRunsDurable` | `TreeHeld`: the five files of a run held are synced, in name and contents, and no other call names them |
| `FreshNumbers` | DiskFiles: `Spec => []NumbersFresh` | `NumbersAhead`: no `.keyops` file has a number not yet given, whatever was torn or left |
| `AtomicWritesWhole` | DiskFiles: `Spec => []AtomicFilesWhole` | `Whole`: what a rename moves is synced, and no call writes to its inode again |
| `SavedSurvives` | DiskFiles: `Spec => []SavedSurvivesCrash` | `SavedInv`: from the return of a save to its deletion the snapshot's files are as they were saved, linked to inodes nothing writes to again |
| `PowerLossBounded` | DiskFiles: `Spec => []PowerLossCosts` | the same: all but `metadata.checksum` and the name in `snapshots/` is synced |

**The tree is a map.** `View` is what `range` shows of the memtable, the run in
flight and the levels. LsmTreeProofs says when two states show the same: for each
key, `range` takes the newest entry among the runs (`NewestCases`,
`NewestUnion`), level by level (`RangeIs`). A flush moves the memtable into a run
newer than any in L0. A write-back needs more: the job is current (`JobInv`), so
the runs it removes are those it merged; runs flushed meanwhile are newer than
the merged ones, and the output is newer than all of its target (`OrderInv`, the
part of `AscInv` that does not speak of a level's own order, which a restored
tree does not have). Then the output stands for the merged runs, if it holds what
the merge gives and the bottom level has one run at most: that is `ContentInv`.
It also says that a closed tree is empty, which `Drop` and `Open` need; what an
open adopts goes to L0, above nothing, so all of this holds of it as well.

**Sessions.** What the tree's proofs ask of the first state, a restored or
adopted tree must bring. `SessionInv` says that the runs of the tree, of every
saved copy and of what crashes and failed writes left have at least one entry each and a number of
their own, and that the counter that comes with them is above them. An entry
each, because a run is sorted into its level by its smallest key. For
`open_snapshot` the sort is proved to be one: sorting by smallest key, then by
place, orders the places of a level totally (`SortsBeforeOrder`), so each index
belongs to one place (`SortedIndexIsOrder`) and the level restored holds the
saved runs with that level field, each once (`RestoredType`). That these are the
runs that were in the level is `PlacedInv`, through every flush, write-back and
rollback: a run's level field names the level it is in. It holds without
`compact_all`, whose run has field 0 in the bottom level (section 6). `range`
looks at a level as a set, so a restore shows what was saved. That what is saved
is what `range` showed is `FlushedInv`: from the flush of `save_snapshot` to its
links the memtable is empty, whatever the other thread does. `TreeInv` collects
the tree's own invariants; TLC checked it, `OrderInv` and `CopiesInv`, on the
instances of `core` and `sessions` before the proofs.

**Merkle trees.** `MerkleInv` says of each tree and of the snapshot: the nodes
stored are those over a leaf (`WellFormed`); a node is the hash of its two
children, an absent one counting as `Empty` (`NodesJoin`); a leaf is the hash of
a key inserted there or again later (`LeavesHeld`), and at a key's index that of
its value (`KeysHeld`); the root is the top of the newest leaf's subtree
(`RootHeld`). TLC checked it on the instance of `merkle` before the proof. The
loops of `insert`, `prove` and `verify_proof` are recursive functions over the
levels. What they compute is proved by an induction over sets of numbers
(`AllNumbers`: a set with 0 that is closed under successor holds every number, by
`WFMin`), which needs no operator as a parameter. That hashes are terms, so that
`hash_node` and `hash_leaf` have no collisions, is the assumption on blake3.

**The bytes of a run.** The two loops of the file format are recursive functions
over the number of entries, shown to exist (`LoopExists`) and then followed by
the same induction over sets of numbers. Of the writer: the offset it counts is
the length of the file so far, what it has written stays, and the entry it adds
stands at that offset (`WriteGrows`, `Laid`). Hence in a finished file every entry
stands at its offset in the index, and one begins where the last ends
(`TableStands`). Of the readers: an entry that stands somewhere is read back as
it was written (`EntryRead`); `get` gets there by the index, past a filter that
has the key's bits whatever the hash (`PointRead`); the parser's position after n
entries is the writer's offset then (`ParseMore`, `ParserReads`). `Ord` on byte
strings is total and transitive (`KeyOrder`), so counting the keys up to a key
sorts them (`SortedKeysAre`). What a scan shows follows from where the first
different byte of a key, its prefix and the end key is. The field of a number is
its lowest byte and zeros: lengths that need more than that byte are taken to be
decoded as they were encoded.

**The disk.** An invariant of what is on disk does not stand alone, as an
operation in progress has left some of its files unwritten or unsynced. `FullInv`
has both sides. `StateInv` is about the disk between any two calls: which path
may hold what (`Classes`), the temporary file of a run's checksums shares its
inode with its target alone (`TmpApart`), atomic files are whole (`Whole`), of a run
that has its checksums all files are synced (`Committed`); the runs held are durable
(`TreeHeld`), numbers and births of data not yet given are on no file
(`NumbersAhead`, `Births`), saved snapshots are kept (`SavedInv`). `TaskInv` is about
the sequence of calls that is left: which calls can still come and in what order
(`Never`: no sync of a file before its write; `Later`: after a write comes a sync;
`EndsWith`: the last call is the directory's sync), and what the calls already
made have left. Each system call is followed once, with the paths it spares
(`Keeps`) and the contents it spares (`Fades`), and then per operation; that
an operation's plan meets `TaskInv` when it starts is proved from its sequence.
A crash or a power loss ends the operation, so only `StateInv` need survive it.
TLC checked `FullInv` on the instance of `disk`, and on longer ones without
auxiliary files, before the proof. One of these, with four sessions and two
mishaps, showed `AtomicFilesWhole` violated in an earlier model where a power loss
could undo half a rename; hence `RenamesWhole`. What sync and rename promise
is the assumption on the file system here.

The hypotheses are what the code lacks:

* `SoloCompactor`, no `compact` or `compact_all` by the caller: `v_compaction_race`.
* no failing flush: `flush_memtable` drops the memtable it could not write
  (section 6). That takes in the flush that is refused because of files that a
  cut-off `delete_files` left there.
* `[][~ForgetsTombstones]_vars`: no merge into the bottom level whose tombstones
  cancel every entry, as that one does not clear the level (section 6). All other
  merges with deletes are covered.
* a caller that deletes nothing, for `get`: `v_get_tombstone`.
* `~KeepSnapshots`, no `LsmSnapshot` that outlives its tree: one that does deletes
  a later session's files by path (section 6). `SavedRunsStay` and `NoFilesLeak`
  hold even so.
* no `Drop`, for exclusion: `v_lock_unlink`.
* `KeyLen < ScanAllLen`, for `scan_prefix`: the scan of the empty prefix ends at 20
  bytes 0xFF (`lib.rs:1048`), so a key past that, 21 such bytes, is not in it;
  `KeyLen <= ScanAllLen` for the folds, of which the one over everything ends there
  too.

Only model-checked: liveness, that is `StallEnds` and `DropReturns` under the
fairness of section 4 (fairness and ENABLED are out of TLAPS' reach here). Every
invariant, action property and refinement that a passing run checks is stated
by a theorem above.

## 6. Where code and documentation disagree

Kept as runs, each a counterexample TLC finds:

* `v_get_tombstone`: `SsTableHandle::get` returns `None` for a tombstone and
  `LsmTree::get` goes on to older runs (`lib.rs:882`). A deleted key is found
  again once the tombstone is flushed; `range` hides it.
* `v_compaction_race`: `compact` in the caller's thread and the background thread
  merge from clones of the same levels with the same generation. Between
  the two write-backs a flush pushes a run, which the second removes by index.
* `v_backpressure`: the stalled writer has signalled once; the round goes
  to a level over its target, L0 stays long, and nobody signals again.
* `v_lock_unlink`: `Drop` unlinks by name; a process that had opened the file
  locks an inode without a name, and the next creates and locks a new one.

Read off the code while modelling, not kept as runs:

* A compaction into the bottom level in which tombstones cancel every entry has
  no output, and the target level is not cleared (`compaction.rs:404`): the
  deleted keys come back. In the model, `Applied` with `out = None`; TLC finds
  `CompactionKeepsContents` violated with `MaxLevel = 1`, one key and
  `Calls = {"delete"}`. `compaction.rs:121` says of the bottom level "merge
  everything into single run, remove tombstones".
* An output is numbered when its merge starts (`compaction.rs:373`), after
  flushes with newer data that stay above it; `compact_all` merges by number
  and keeps the older value (`compaction.rs:220`).
* `flush_memtable` drops the swapped-out memtable when the write fails
  (`lib.rs:1072`); in the model, `FlushFail`.
* A flush or a merge whose `finish` fails at the sync of the directory
  (`sstable.rs:232-234`, or in the checksums' atomic write,
  `checksum.rs:201-205`) returns an error with all five files in place and no
  handle. No one deletes them; the next `open` loads the run into L0, also after
  a clean close. In the model, `LeaveBehind`; `manual` and `sessions` have it, and
  with `Open` required to be that of an empty map they fail.
* A background round whose merge fails is only logged: its signal is consumed and
  its credits are paid (`lib.rs:1397`), so a writer stalled at that moment waits for
  ever. `liveness` with `Faults = {"compaction"}` violates `StallEnds`.
* `LsmSnapshot::iter` visits the deepest level and the oldest run first with
  `or_insert` and reads runs without their tombstones (`lib.rs:1498`): of a key
  in two runs the oldest value is shown, deleted or not, and
  `MonoidalSnapshot::range_fold` adds it up. `IterShowsContents` without `Alone`
  fails.
* `scan_prefix` of a prefix that ends in 0xFF stops at that prefix and a zero
  byte, and misses the keys after it; of any other prefix it also shows the key
  that equals the incremented prefix (`lib.rs:1049`).
* `open_snapshot` sorts each level by `min_key` (`lib.rs:767`) while `get` takes a
  level's order for age (`lib.rs:878`).
* The run of `compact_all` sits in the bottom level with level field 0
  (`lib.rs:1196`), and a restore puts it into L0, above newer runs.
* `_session_lock` is the first field dropped (`lib.rs:458`), before the handles
  that delete files in `active/`; stages `unlinked` and `cleanup` of SessionLock.
* `acquire` that fails at `sync_all` leaves a file naming a live process
  (`session_lock.rs:137`); in the model, `WriteFail`.
* A `LsmSnapshot` kept after its tree was dropped deletes, when it goes, files
  of the same path that a later session has put there (`sstable.rs:648`);
  `files` with `KeepSnapshots = TRUE`.
* A crash in `save_snapshot` before the metadata leaves a name that is listed and
  can be neither opened, deleted nor saved again (`snapshot.rs:84`); so does a
  deletion that stops half-way (`snapshot.rs:295`).
* `snapshot.rs:65` says "Fsyncs everything": `metadata.checksum` is written
  without a sync and `snapshots/` is not synced, so a power loss after
  `save_snapshot` has returned may leave a snapshot that does not load, or none.
* `sstable.rs:93` says "Files are written to temporary paths (.tmp) until finish()":
  they are created under their final names, and a crashed or failed flush leaves
  them there. `open` skips such a run and its number, and nothing ever deletes
  its files but an `open_snapshot`; `strays` in RunFiles.
* A crash inside `delete_files` leaves the files after the `.keyops`
  (`sstable.rs:609`). `open` finds no number there, gives it out again,
  `create_new` of the second file is refused, and the flush fails, after its
  memtable is gone.
* `open_snapshot` clears `active/` before it has linked one run (`lib.rs:702`): if
  the snapshot then does not open, the runs a crash had left are lost too.
* `open` after a crash puts inputs and outputs of compactions into L0 by number
  (`lib.rs:562`). `snapshot.rs:87` says of numbers "higher = newer", which an
  output is not: an old value may hide a newer flush.
* `IncrementalMerkleTree::insert` does not look at `max_leaves` (`merkle.rs:343`): past it
  the root speaks for the newest subtree alone, and earlier keys no longer
  verify. `rollback` takes over the height of another tree's snapshot.
* `hash_leaf` joins key and value with `:` (`merkle.rs:34`), so a key that holds
  one shares its leaf with another pair; the model's ASSUME leaves such keys out.
* `i64`'s `saturating_add` (`monoidal.rs:329`) is not associative, which the laws of
  `Monoidal` ask for (`monoidal.rs:49`): the maximum, 1 and -1 add up in two ways.
* `TESTING.md` lists the Merkle tree and monoidal values as not implemented.

## 7. What is not modelled

* Which value a session shows that adopts the runs a crash or a failed write
  left: the code promises none (section 6), so KvStore's `Adopt` allows any.
* What a crash inside `delete_files` leaves, in LsmSessions: its sessions adopt
  every run that a handle stood for. RunFiles and DiskFiles have the rest.
* CRC32C, hex, CBOR and bincode: contents are whole or torn, and a checksum tells
  one run's files from another's. Bits that flip by themselves are left out.
* Threads inside DiskFiles: a run written by the background thread while the
  caller saves is in RunFiles, where its files are whole or in part there.
* Merges read their inputs up to a key of 256 bytes 0xFF (`compaction.rs:146`,
  `162`, `228`); `CompactLevels` and `CompactAllRuns` read all keys, so keys past that
  are left out.
* The fallback of `get_backend` for a run without an index in its handle
  (`sstable.rs:423-429`): `finish` writes an index with every run.
* Collisions of the Merkle hash, and keys that hold its separator.
* `Vec`, `HashMap` and `i64` as monoids, and values that do not decode.
* Reads concurrent with a write: the borrow checker leaves the caller no such
  call, and a read takes its levels under one lock.
* io_uring (an optional feature; `LsmTree` always reads with the default
  backend), the conformance generator, benchmarks.
* Windows' half of the session lock, pids that are used again, and a process that
  may not be signalled (`kill` with EPERM), which the code takes for a dead one.

## 8. Plan

Done, in this order: LsmRuns and LsmTree with KvStore; LsmSessions; SessionLock;
RunFiles; proofs about LsmTree and SessionLock; MerkleTree; DiskFiles; crashes at
any step and open in LsmSessions; SsTable and Queries; what failed and cut-off
writes and deletions leave, in LsmTree, LsmSessions and RunFiles.

Done in proofs: types, numbers, L0, jobs and level order of LsmTree; LsmTree
implements KvStore; all of LsmSessions', RunFiles', SessionLock's, MerkleTree's
and DiskFiles' properties; the readers and folds of Queries down to the bytes of
a run.

Left: the background thread inside DiskFiles, so that two operations' system
calls interleave; the other monoids of `monoidal.rs`; liveness stays with TLC.
