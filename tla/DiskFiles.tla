----------------------------- MODULE DiskFiles -----------------------------
(* The files of runs and snapshots as the disk sees them: each operation   *)
(* is the sequence of system calls it makes, and between two calls the     *)
(* process may die, a call may fail, or the power may go, which takes      *)
(* whatever has not been synced.  One process, one operation at a time.    *)
EXTENDS Integers, Sequences, FiniteSets, FiniteSetsExt, SequencesExt

CONSTANTS
  Names,           \* names of saved snapshots; each is given once
  Aux,             \* the files written alike after the blobs: filter, index
  None,
  Torn,            \* contents that are not, or not all, there
  Faults,          \* calls may fail ("io"), the power may go ("power")
  MaxRun,          \* bound: run numbers
  MaxSession,      \* bound: sessions
  MaxMishaps,      \* bound: crashes, power losses and failed calls
  MaxOdd           \* bound: what a mishap loses, or keeps, unlike the rest

Components == <<"keyops", "blobs">> \o Aux \o <<"checksums">>
Runs == 1 .. MaxRun
Sessions == 1 .. MaxSession

ASSUME DiskAssumption ==
  /\ Aux \in Seq({"filter", "index"}) /\ IsInjective(Aux)
  /\ IsFiniteSet(Names) /\ {"active", "snapshots", None} \intersect Names = {}
  /\ Faults \subseteq {"io", "power"}
  /\ MaxRun \in Nat /\ MaxSession \in Nat \ {0} /\ MaxMishaps \in Nat /\ MaxOdd \in Nat

---------------------------------------------------------------------------
(* Paths are <<directory, run number or 0, file>>.                         *)

RunFile(d, r, c) == <<d, r, c>>
RunFiles(d, r) == {RunFile(d, r, c) : c \in Range(Components)}
ChecksumsTmp(r) == <<"active", r, "checksum.tmp">>
SnapshotDir(n) == <<"snapshots", 0, n>>
Metadata(n) == <<n, 0, "metadata">>
MetadataTmp(n) == <<n, 0, "metadata.tmp">>
MetadataChecksum(n) == <<n, 0, "metadata.checksum">>

Paths ==
  (UNION {RunFiles(d, r) : d \in {"active"} \union Names, r \in Runs})
    \union {ChecksumsTmp(r) : r \in Runs}
    \union (UNION {{SnapshotDir(n), Metadata(n), MetadataTmp(n), MetadataChecksum(n)}
                     : n \in Names})

\* Inodes: one for every path in memory and on disk, and one to spare.
Inodes == 1 .. 2 * Cardinality(Paths) + 1

\* A run, by the number in its file names and the session that wrote it: what
\* the checksums of its files tell apart.
Tags == [num : Runs, born : Sessions]

\* What a file can hold: a run's data, the metadata of a snapshot, a part.
Holdings == Tags \union [runs : SUBSET Runs] \union {Torn}

\* What is known of a snapshot: the runs it is of, whether it is saved, whether
\* the power has gone since.
Saves == [runs : SUBSET Tags, done : BOOLEAN, power : BOOLEAN]

ASSUME MarkAssumption ==
  /\ Torn \notin Tags \union [runs : SUBSET Runs]
  /\ None \notin Inodes \union Tags \union Saves

VARIABLES
  entries,         \* the inode each path names, or None
  disk_entries,    \* the same, as far as the directories are synced
  data,            \* the contents of each inode
  disk_data,       \* the same, as far as the files are synced
  tree,            \* runs the process holds handles on
  session,
  task,            \* the operation in progress
  next_run_number,
  saved,           \* what save_snapshot was called for, and what came of it
  mishaps

dvars == <<entries, disk_entries, data, disk_data, tree, session, task,
           next_run_number, saved, mishaps>>

Closed == [kind |-> "closed", todo |-> <<>>, run |-> None, drop |-> {}, name |-> None]
Ready == [Closed EXCEPT !.kind = "ready"]
Kinds == {"closed", "ready", "write", "delete", "close", "save", "remove", "open",
          "restore"}

TypeOK ==
  /\ entries \in [Paths -> Inodes \union {None}]
  /\ disk_entries \in [Paths -> Inodes \union {None}]
  /\ data \in [Inodes -> Holdings]
  /\ disk_data \in [Inodes -> Holdings]
  /\ tree \subseteq Tags
  /\ session \in Sessions
  /\ task.kind \in Kinds
  /\ task.run \in Tags \union {None} /\ task.drop \subseteq Tags
  /\ task.name \in Names \union {None}
  /\ next_run_number \in 1 .. MaxRun + 1
  /\ mishaps \in 0 .. MaxMishaps
  /\ saved \in [Names -> Saves \union {None}]

---------------------------------------------------------------------------
(* System calls.                                                           *)

Call(op, path, arg) == [op |-> op, path |-> path, arg |-> arg]
CreateNew(p) == Call("create_new", p, None)
OpenTruncate(p) == Call("truncate", p, None)
Write(p, x) == Call("write", p, x)
SyncFile(p) == Call("sync", p, None)
SyncDir(d) == Call("sync_dir", d, None)
Link(p, q) == Call("link", p, q)
Rename(p, q) == Call("rename", p, q)
Unlink(p) == Call("unlink", p, None)
\* Not one call, but an unlink of each file there is, in the order read_dir gives.
UnlinkAll(d) == Call("unlink_all", d, None)

\* The disk after a step; inodes that no path refers to are gone.
Disk(e, de, d, dd) ==
  LET used == {e[p] : p \in Paths} \union {de[p] : p \in Paths}
  IN  /\ entries' = e
      /\ disk_entries' = de
      /\ data' = [i \in Inodes |-> IF i \in used THEN d[i] ELSE Torn]
      /\ disk_data' = [i \in Inodes |-> IF i \in used THEN dd[i] ELSE Torn]

FreshInode ==
  CHOOSE i \in Inodes : \A p \in Paths : entries[p] # i /\ disk_entries[p] # i

\* A new file under the path, with nothing in it yet.
NewFile(p) ==
  Disk([entries EXCEPT ![p] = FreshInode], disk_entries,
       [data EXCEPT ![FreshInode] = Torn], [disk_data EXCEPT ![FreshInode] = Torn])

Truncate(p) == Disk(entries, disk_entries, [data EXCEPT ![entries[p]] = Torn], disk_data)

\* Mutant of DoCreateNew: File::create.
DoCreateTruncate(c) ==
  IF entries[c.path] = None THEN NewFile(c.path) ELSE Truncate(c.path)

DoCreateNew(c) == entries[c.path] = None /\ NewFile(c.path)

UnlinkSet(G) ==
  Disk([p \in Paths |-> IF p \in G THEN None ELSE entries[p]], disk_entries, data, disk_data)

\* What a call does when it succeeds.
Do(c) ==
  \/ c.op = "create_new" /\ DoCreateNew(c)
  \/ /\ c.op = "truncate"
     /\ IF entries[c.path] = None THEN NewFile(c.path) ELSE Truncate(c.path)
  \/ /\ c.op = "write"
     /\ Disk(entries, disk_entries, [data EXCEPT ![entries[c.path]] = c.arg], disk_data)
  \/ /\ c.op = "sync"
     /\ LET i == entries[c.path]
        IN  Disk(entries, disk_entries, data, [disk_data EXCEPT ![i] = data[i]])
  \/ /\ c.op = "sync_dir"
     /\ Disk(entries, [p \in Paths |-> IF p[1] = c.path THEN entries[p] ELSE disk_entries[p]],
             data, disk_data)
  \/ /\ c.op = "link"
     /\ entries[c.path] # None /\ entries[c.arg] = None
     /\ Disk([entries EXCEPT ![c.arg] = entries[c.path]], disk_entries, data, disk_data)
  \/ /\ c.op = "rename"
     /\ Disk([entries EXCEPT ![c.arg] = entries[c.path], ![c.path] = None],
             disk_entries, data, disk_data)
  \/ /\ c.op = "unlink"
     /\ Disk([entries EXCEPT ![c.path] = None], disk_entries, data, disk_data)

\* The calls the file system refuses.
Refused(c) ==
  \/ c.op = "create_new" /\ entries[c.path] # None
  \/ c.op = "link" /\ (entries[c.path] = None \/ entries[c.arg] # None)

---------------------------------------------------------------------------
(* The operations, as the calls they make.                                 *)

\* Mutant of WriteSynced: no sync_all.
WriteUnsynced(p, x) == <<CreateNew(p), Write(p, x)>>

\* ChecksumHandle: create_new, write, and sync_all in close.
WriteSynced(p, x) == <<CreateNew(p), Write(p, x), SyncFile(p)>>

\* Mutant of AtomicCommit: no sync_all before the rename.
AtomicCommitUnsynced(tmp, p, x) ==
  <<OpenTruncate(tmp), Write(tmp, x), Rename(tmp, p), SyncDir(p[1])>>

\* AtomicFileWriter and write_checksums_file: temporary file, sync, rename,
\* directory sync.
AtomicCommit(tmp, p, x) ==
  <<OpenTruncate(tmp), Write(tmp, x), SyncFile(tmp), Rename(tmp, p), SyncDir(p[1])>>

\* Mutant of WriteRun: the blobs are not synced.
WriteRunBlobsUnsynced(t) ==
  LET File(c) == RunFile("active", t.num, c)
  IN  <<CreateNew(File("keyops")), CreateNew(File("blobs")),
        Write(File("keyops"), t), Write(File("blobs"), t),
        SyncFile(File("keyops"))>>
      \o FlattenSeq([i \in DOMAIN Aux |-> WriteSynced(File(Aux[i]), t)])
      \o AtomicCommit(ChecksumsTmp(t.num), File("checksums"), t)
      \o <<SyncDir("active")>>

\* SsTableWriter::new and finish.
WriteRun(t) ==
  LET File(c) == RunFile("active", t.num, c)
  IN  <<CreateNew(File("keyops")), CreateNew(File("blobs")),
        Write(File("keyops"), t), Write(File("blobs"), t),
        SyncFile(File("keyops")), SyncFile(File("blobs"))>>
      \o FlattenSeq([i \in DOMAIN Aux |-> WriteSynced(File(Aux[i]), t)])
      \o AtomicCommit(ChecksumsTmp(t.num), File("checksums"), t)
      \o <<SyncDir("active")>>

\* The calls F(r) for each run number of the set R.
ForRuns(R, F(_)) == FlattenSeq(LET s == SetToSeq(R) IN [i \in DOMAIN s |-> F(s[i])])

\* delete_files
DeleteRun(r) == [i \in DOMAIN Components |-> Unlink(RunFile("active", r, Components[i]))]

\* Five hard links from directory d to directory e.
LinkRun(d, e, r) ==
  [i \in DOMAIN Components |->
    Link(RunFile(d, r, Components[i]), RunFile(e, r, Components[i]))]

\* PersistentSnapshot::create: the checksum of the metadata is not synced, and
\* neither is snapshots/.
Save(n, R) ==
  <<CreateNew(SnapshotDir(n))>>
    \o ForRuns(R, LAMBDA r : LinkRun("active", n, r) \o <<SyncDir(n)>>)
    \o AtomicCommit(MetadataTmp(n), Metadata(n), [runs |-> R])
    \o <<OpenTruncate(MetadataChecksum(n)), Write(MetadataChecksum(n), [runs |-> R]), SyncDir(n)>>

\* The files of directory d that exist.
Listing(d) == {p \in Paths : p[1] = d /\ entries[p] # None}

\* open_snapshot up to the opening of the handles: clear active/, link.
Restore(n, R) ==
  <<SyncDir("snapshots"), UnlinkAll("active")>>
    \o ForRuns(R, LAMBDA r : LinkRun(n, "active", r))
    \o <<SyncDir("active")>>

\* PersistentSnapshot::delete: remove_dir_all.
Delete(n) == <<UnlinkAll(n), Unlink(SnapshotDir(n))>>

---------------------------------------------------------------------------
(* What opening reads.                                                     *)

Contents(p) == IF entries[p] = None THEN Torn ELSE data[entries[p]]

\* SsTableHandle::open: all files exist, and every checksum matches.
Opens(d, r) ==
  /\ Contents(RunFile(d, r, "checksums")) # Torn
  /\ \A p \in RunFiles(d, r) : Contents(p) = Contents(RunFile(d, r, "checksums"))

\* The run a handle on it stands for.
OpenedRun(d, r) == Contents(RunFile(d, r, "checksums"))

\* The runs a snapshot's metadata name.
NamedRuns(n) == Contents(Metadata(n)).runs

\* list_snapshots: the directories in snapshots/, of half-made snapshots too.
Listed == {n \in Names : entries[SnapshotDir(n)] # None}

\* PersistentSnapshot::load
Loads(n) ==
  /\ n \in Listed
  /\ Contents(Metadata(n)) # Torn
  /\ Contents(MetadataChecksum(n)) = Contents(Metadata(n))

\* PersistentSnapshot::validate
Validates(n) == \A r \in NamedRuns(n) : Opens(n, r)

---------------------------------------------------------------------------

Init ==
  /\ entries = [p \in Paths |-> None]
  /\ disk_entries = [p \in Paths |-> None]
  /\ data = [i \in Inodes |-> Torn]
  /\ disk_data = [i \in Inodes |-> Torn]
  /\ tree = {}
  /\ session = 1
  /\ task = Ready
  /\ next_run_number = 1
  /\ saved = [n \in Names |-> None]
  /\ mishaps = 0

\* The subsets of S that have, or lack, at most MaxOdd elements.
AlikeExceptFew(S) ==
  LET few == UNION {kSubset(k, S) : k \in 0 .. MaxOdd}
  IN  few \union {S \ X : X \in few}

\* Where a failed operation leaves the process: no session starts from a failed open.
Aborted == IF task.kind \in {"open", "restore"} THEN Closed ELSE Ready

Mishap == mishaps < MaxMishaps /\ mishaps' = mishaps + 1

DiskUnchanged == UNCHANGED <<entries, disk_entries, data, disk_data>>

\* flush_memtable, and a compaction of the runs D, which are dropped when the
\* new run is there.
StartWrite(D) ==
  /\ task.kind = "ready"
  /\ next_run_number <= MaxRun
  /\ LET t == [num |-> next_run_number, born |-> session]
     IN  task' = [Ready EXCEPT !.kind = "write", !.todo = WriteRun(t), !.run = t, !.drop = D]
  /\ next_run_number' = next_run_number + 1
  /\ DiskUnchanged
  /\ UNCHANGED <<tree, session, saved, mishaps>>

StartSave(n) ==
  /\ task.kind = "ready"
  /\ saved[n] = None
  /\ entries[SnapshotDir(n)] = None
  /\ task' = [Ready EXCEPT !.kind = "save", !.todo = Save(n, {t.num : t \in tree}), !.name = n]
  /\ saved' = [saved EXCEPT ![n] = [runs |-> tree, done |-> FALSE, power |-> FALSE]]
  /\ DiskUnchanged
  /\ UNCHANGED <<tree, session, next_run_number, mishaps>>

\* delete_snapshot: load, then remove.
StartRemove(n) ==
  /\ task.kind = "ready"
  /\ Loads(n)
  /\ task' = [Ready EXCEPT !.kind = "remove", !.todo = Delete(n), !.name = n]
  /\ saved' = [saved EXCEPT ![n].done = FALSE]
  /\ DiskUnchanged
  /\ UNCHANGED <<tree, session, next_run_number, mishaps>>

\* Drop for LsmTree
StartClose ==
  /\ task.kind = "ready"
  /\ task' = [Ready EXCEPT !.kind = "close", !.todo = ForRuns({t.num : t \in tree}, DeleteRun)]
  /\ tree' = {} /\ next_run_number' = 1
  /\ DiskUnchanged
  /\ UNCHANGED <<session, saved, mishaps>>

StartOpen ==
  /\ task.kind = "closed"
  /\ session < MaxSession
  /\ task' = [Ready EXCEPT !.kind = "open", !.todo = <<SyncDir("active"), SyncDir("snapshots")>>]
  /\ DiskUnchanged
  /\ UNCHANGED <<tree, session, next_run_number, saved, mishaps>>

StartRestore(n) ==
  /\ task.kind = "closed"
  /\ session < MaxSession
  /\ Loads(n)
  /\ task' = [Ready EXCEPT !.kind = "restore", !.todo = Restore(n, NamedRuns(n)),
                           !.name = n]
  /\ DiskUnchanged
  /\ UNCHANGED <<tree, session, next_run_number, saved, mishaps>>

\* The next call of the operation succeeds.
Step ==
  /\ task.todo # <<>>
  /\ Do(Head(task.todo))
  /\ task' = [task EXCEPT !.todo = Tail(@)]
  /\ UNCHANGED <<tree, session, next_run_number, saved, mishaps>>

\* All the unlinks of an unlink_all, which nothing else sees the middle of.
StepUnlinkAll ==
  /\ task.todo # <<>> /\ Head(task.todo).op = "unlink_all"
  /\ UnlinkSet(Listing(Head(task.todo).path))
  /\ task' = [task EXCEPT !.todo = Tail(@)]
  /\ UNCHANGED <<tree, session, next_run_number, saved, mishaps>>

\* The process dies, or a call fails, when only the files G are gone.
CutUnlinkAll ==
  /\ task.todo # <<>> /\ Head(task.todo).op = "unlink_all"
  /\ Mishap
  /\ \E G \in AlikeExceptFew(Listing(Head(task.todo).path)) : UnlinkSet(G)
  /\ \/ task' = Closed /\ tree' = {} /\ next_run_number' = 1
     \/ /\ "io" \in Faults /\ task' = Aborted
        /\ UNCHANGED <<tree, next_run_number>>
  /\ UNCHANGED <<session, saved>>

\* An unlink of delete_files fails, and the error is ignored.
SkipUnlink ==
  /\ "io" \in Faults
  /\ task.kind \in {"delete", "close"} /\ task.todo # <<>>
  /\ Mishap
  /\ task' = [task EXCEPT !.todo = Tail(@)]
  /\ DiskUnchanged
  /\ UNCHANGED <<tree, session, next_run_number, saved>>

\* A call fails and the operation returns its error; Drop for AtomicFileWriter
\* removes the temporary file.
Abort ==
  /\ task.kind \in {"write", "save", "remove", "open", "restore"} /\ task.todo # <<>>
  /\ \/ Refused(Head(task.todo)) /\ UNCHANGED mishaps
     \/ "io" \in Faults /\ Mishap
  /\ task' = Aborted
  /\ IF task.kind = "save" THEN Do(Unlink(MetadataTmp(task.name))) ELSE DiskUnchanged
  /\ UNCHANGED <<tree, session, next_run_number, saved>>

FinishWrite ==
  /\ task.kind = "write" /\ task.todo = <<>>
  /\ tree' = (tree \ task.drop) \union {task.run}
  /\ task' = [Ready EXCEPT !.kind = "delete",
                           !.todo = ForRuns({t.num : t \in task.drop}, DeleteRun)]
  /\ DiskUnchanged
  /\ UNCHANGED <<session, next_run_number, saved, mishaps>>

FinishSave ==
  /\ task.kind = "save" /\ task.todo = <<>>
  /\ saved' = [saved EXCEPT ![task.name].done = TRUE]
  /\ task' = Ready
  /\ DiskUnchanged
  /\ UNCHANGED <<tree, session, next_run_number, mishaps>>

FinishDelete ==
  /\ task.kind \in {"delete", "remove", "close"} /\ task.todo = <<>>
  /\ task' = IF task.kind = "close" THEN Closed ELSE Ready
  /\ DiskUnchanged
  /\ UNCHANGED <<tree, session, next_run_number, saved, mishaps>>

\* Mutant of FoundNumbers: of the runs that open.
FoundOpening == {r \in Runs : Opens("active", r)}

\* The numbers of the .keyops files in active/, and the next number after them.
FoundNumbers == {r \in Runs : entries[RunFile("active", r, "keyops")] # None}

\* Mutant of NumberAfter: the highest number itself.
NumberAtLast(R) == Max({0} \union R)

NumberAfter(R) == Max({0} \union R) + 1

\* LsmTree::open: the runs that open; the others are reported and left there.
FinishOpen ==
  /\ task.kind = "open" /\ task.todo = <<>>
  /\ tree' = {OpenedRun("active", r) : r \in {x \in FoundNumbers : Opens("active", x)}}
  /\ next_run_number' = NumberAfter(FoundNumbers)
  /\ session' = session + 1
  /\ task' = Ready
  /\ DiskUnchanged
  /\ UNCHANGED <<saved, mishaps>>

\* open_snapshot: every run of the metadata, or none, and then the handles
\* opened before the one that failed delete their files.
FinishRestore ==
  /\ task.kind = "restore" /\ task.todo = <<>>
  /\ LET R == NamedRuns(task.name)
         good == {r \in R : Opens("active", r)}
     IN  IF good = R
           THEN /\ tree' = {OpenedRun("active", r) : r \in R}
                /\ next_run_number' = NumberAfter(R)
                /\ session' = session + 1
                /\ task' = Ready
           ELSE /\ \E S \in SUBSET good :
                     task' = [Ready EXCEPT !.kind = "close", !.todo = ForRuns(S, DeleteRun)]
                /\ UNCHANGED <<tree, session, next_run_number>>
  /\ DiskUnchanged
  /\ UNCHANGED <<saved, mishaps>>

\* The process dies; the kernel keeps what it was given.
Crash ==
  /\ task.kind # "closed"
  /\ Mishap
  /\ task' = Closed /\ tree' = {} /\ next_run_number' = 1
  /\ DiskUnchanged
  /\ UNCHANGED <<session, saved>>

\* The renames of atomic commits.
Renames ==
  {<<ChecksumsTmp(r), RunFile("active", r, "checksums")>> : r \in Runs}
    \union {<<MetadataTmp(n), Metadata(n)>> : n \in Names}

\* A rename is one change of its directory: of the entries L that are lost, both
\* its names are one, or neither.
RenamesWhole(L) ==
  \A m \in Renames :
    disk_entries[m[1]] # None /\ disk_entries[m[1]] = entries[m[2]]
      => (m[1] \in L <=> m[2] \in L)

\* The power goes: each change of a directory that is not synced is there or
\* not, and contents that are not synced are there, or torn.
PowerLoss ==
  /\ "power" \in Faults
  /\ Mishap
  /\ task' = Closed /\ tree' = {} /\ next_run_number' = 1
  /\ \E lostEntries \in AlikeExceptFew({p \in Paths : entries[p] # disk_entries[p]}),
        lostData \in AlikeExceptFew({i \in Inodes : data[i] # disk_data[i]}) :
       /\ RenamesWhole(lostEntries)
       /\ LET e == [p \in Paths |-> IF p \in lostEntries THEN disk_entries[p] ELSE entries[p]]
              d == [i \in Inodes |-> IF i \in lostData THEN Torn ELSE data[i]]
          IN  Disk(e, e, d, d)
  /\ saved' = [n \in Names |-> IF saved[n] = None THEN None ELSE [saved[n] EXCEPT !.power = TRUE]]
  /\ UNCHANGED session

Next ==
  \/ \E D \in SUBSET tree : StartWrite(D)
  \/ \E n \in Names : StartSave(n) \/ StartRemove(n) \/ StartRestore(n)
  \/ StartClose \/ StartOpen
  \/ Step \/ StepUnlinkAll \/ CutUnlinkAll \/ SkipUnlink \/ Abort
  \/ FinishWrite \/ FinishSave \/ FinishDelete \/ FinishOpen \/ FinishRestore
  \/ Crash \/ PowerLoss

Spec == Init /\ [][Next]_dvars

---------------------------------------------------------------------------
(* Properties.                                                             *)

\* The runs of directory d that would open, among the numbers R.
OpenedRuns(d, R) == {OpenedRun(d, r) : r \in {x \in R : Opens(d, x)}}

\* A run the tree holds is on disk, whole and synced: a flush that has
\* returned, or a restore, outlives a power loss (sstable.rs:111-246).
HeldRunsDurable ==
  \A t \in tree : \A p \in RunFiles("active", t.num) :
    /\ entries[p] # None /\ disk_entries[p] = entries[p]
    /\ disk_data[entries[p]] = t

\* A run number never names a .keyops file that is there already, be it the
\* torn rest of a crashed or failed flush: the first create_new of a run is not
\* refused (lib.rs:526-556, checksum_handle.rs:33-34).
NumbersFresh ==
  task.kind = "write" =>
    LET first == CreateNew(RunFile("active", task.run.num, "keyops"))
    IN  task.todo # <<>> /\ Head(task.todo) = first => ~Refused(first)

\* The file an atomic write leaves under its name is whole, after a crash or a
\* power loss at any point too (atomic_file.rs:10-11, checksum.rs:175-178).
AtomicFilesWhole ==
  /\ \A n \in Names : entries[Metadata(n)] # None => Contents(Metadata(n)) # Torn
  /\ \A r \in Runs : LET p == RunFile("active", r, "checksums")
                     IN  entries[p] # None => Contents(p) # Torn

\* A snapshot whose save has returned loads and validates until it is deleted:
\* crashes, failed calls, closed sessions and later runs that get one of its
\* numbers again do not touch it (snapshot.rs:66-142, checksum_handle.rs:28-40).
SavedSurvivesCrash ==
  \A n \in Names :
    saved[n] # None /\ saved[n].done /\ ~saved[n].power => Loads(n) /\ Validates(n)

\* A power loss can cost such a snapshot its metadata.checksum, or its name in
\* snapshots/, and nothing else: where list_snapshots has it, the metadata and
\* every run are there, whole (snapshot.rs:129-136).
PowerLossCosts ==
  \A n \in Listed :
    saved[n] # None /\ saved[n].done =>
      /\ Contents(Metadata(n)) = [runs |-> {t.num : t \in saved[n].runs}]
      /\ OpenedRuns(n, NamedRuns(n)) = saved[n].runs
      /\ Contents(MetadataChecksum(n)) \in {Torn, Contents(Metadata(n))}
=============================================================================
