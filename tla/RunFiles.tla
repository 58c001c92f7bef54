------------------------------ MODULE RunFiles -----------------------------
(* The files of sorted runs on disk: who holds a SsTableHandle, when the   *)
(* last drop deletes files, and what save_snapshot, open_snapshot and open *)
(* link, clear and load.  The five files of a run are whole or in part     *)
(* there; the data in them, and what the runs mean to the tree, are        *)
(* LsmTree's.                                                              *)
EXTENDS Naturals, FiniteSets

CONSTANTS
  SnapIds,         \* LsmSnapshots the caller can hold
  Names,           \* names of saved snapshots
  Active,          \* the directory active/
  None,
  KeepSnapshots,   \* the caller may keep LsmSnapshots after it drops the tree
  MaxRun,          \* bound: flushes and compactions start up to this number
  MaxSession,      \* bound: sessions
  MaxCut           \* bound: runs in active/ whose deletion was cut off

VARIABLES
  active,          \* runs whose files are in active/, whole
  parts,           \* runs that have some files there, or files not whole
  remains,         \* runs there whose deletion was cut off: all files but the first
  strays,          \* runs there whose write failed or was cut off, and remains
                   \* (history)
  dirs,            \* snapshots/<name>/: its run files and its metadata, or None
  open,            \* a LsmTree exists
  session,         \* number of the session
  next_run_number,
  flushing,        \* the run flush_memtable is writing
  tree,            \* handles in the levels
  job,             \* the background thread's run_compaction
  snaps,           \* handles in each LsmSnapshot, or None
  saving           \* save_snapshot in PersistentSnapshot::create, or None

fvars == <<active, parts, remains, strays, dirs, open, session, next_run_number,
           flushing, tree, job, snaps, saving>>

Nums == 1 .. MaxRun + 1
Sessions == 1 .. MaxSession

\* A run's files: its number, part of their names, and the session that wrote
\* them (hard links keep the contents).
File == [num : Nums, born : Sessions]

\* The handles that share one refcount: where their files are, and the session
\* that wrote or opened them.
Handle == [dir : Names \union {Active}, file : File, opened : Sessions]

\* snapshots/<name>/: its run files, and in its metadata, when there is one,
\* the runs it lists.
SavedDir == [files : SUBSET File, runs : SUBSET File, meta : BOOLEAN]

\* save_snapshot's clone of the levels, and the runs still to be linked.
Saving == [name : Names, hold : SUBSET Handle, left : SUBSET Handle]

ASSUME FilesAssumption ==
  /\ Active \notin Names
  /\ None \notin SavedDir
  /\ KeepSnapshots \in BOOLEAN
  /\ MaxRun \in Nat /\ MaxSession \in Nat \ {0} /\ MaxCut \in Nat

\* run_compaction: its clone of the levels, the runs it merges, the run it is
\* writing, its output, and whether a rollback made its result stale.
Job == [stage : {"none", "merge", "output", "write"}, snap : SUBSET Handle,
        inputs : SUBSET Handle, writing : SUBSET File, out : SUBSET Handle,
        stale : BOOLEAN]

NoJob == [stage |-> "none", snap |-> {}, inputs |-> {}, writing |-> {}, out |-> {},
          stale |-> FALSE]

TypeOK ==
  /\ active \subseteq File /\ parts \subseteq File
  /\ remains \subseteq File /\ strays \subseteq File
  /\ dirs \in [Names -> SavedDir \union {None}]
  /\ open \in BOOLEAN
  /\ session \in Sessions
  /\ next_run_number \in 1 .. MaxRun + 2
  /\ flushing \subseteq File
  /\ tree \subseteq Handle
  /\ job \in Job
  /\ snaps \in [SnapIds -> (SUBSET Handle) \union {None}]
  /\ saving \in Saving \union {None}

\* The handles that exist, each the reason why its refcount is not zero.
HeldBy(t, j, s, sv) ==
  t \union j.snap \union j.out
    \union (UNION {s[i] : i \in {x \in SnapIds : s[x] # None}})
    \union (IF sv = None THEN {} ELSE sv.hold)

Held == HeldBy(tree, job, snaps, saving)

\* delete_files of the handles in H, on the files of directory d.
DeleteFiles(d, files, H) ==
  {f \in files : ~\E h \in H : h.dir = d /\ h.file.num = f.num}

\* Mutant of Settle: files go when the first reference is dropped by a job.
SettleEager(t, j, s, sv, act, pts, ds) ==
  LET gone == (Held \ HeldBy(t, j, s, sv)) \union (job.snap \ (t \union j.snap))
  IN  /\ tree' = t /\ job' = j /\ snaps' = s /\ saving' = sv
      /\ active' = DeleteFiles(Active, act, gone)
      /\ parts' = DeleteFiles(Active, pts, gone)
      /\ dirs' = ds

\* What a step leaves: the new holders, and the directories after the step's
\* own changes less the files of every handle whose last reference it dropped.
Settle(t, j, s, sv, act, pts, ds) ==
  LET gone == Held \ HeldBy(t, j, s, sv)
  IN  /\ tree' = t /\ job' = j /\ snaps' = s /\ saving' = sv
      /\ active' = DeleteFiles(Active, act, gone)
      /\ parts' = DeleteFiles(Active, pts, gone)
      /\ dirs' = [n \in Names |->
                    IF ds[n] = None THEN None
                    ELSE [ds[n] EXCEPT !.files = DeleteFiles(n, @, gone)]]

Init ==
  /\ active = {} /\ parts = {} /\ remains = {} /\ strays = {}
  /\ dirs = [n \in Names |-> None]
  /\ open = TRUE
  /\ session = 1
  /\ next_run_number = 1
  /\ flushing = {}
  /\ tree = {}
  /\ job = NoJob
  /\ snaps = [s \in SnapIds |-> None]
  /\ saving = None

---------------------------------------------------------------------------
(* The caller and the background thread in a session.                      *)

Idle == open /\ saving = None /\ flushing = {}

\* The run whose files a writer creates now, and the handle on run f that finish
\* returns.
NewFile == [num |-> next_run_number, born |-> session]
NewHandle(f) == [dir |-> Active, file |-> f, opened |-> session]

\* create_new succeeds for all files of run f.
Free(f) == \A g \in remains : g.num # f.num

\* finish fails and returns no handle: no file of run f is there, some are, or all.
Abandon(f, t, j) ==
  \/ /\ Settle(t, j, snaps, saving, active, parts \ {f}, dirs)
     /\ UNCHANGED strays
  \/ /\ Settle(t, j, snaps, saving, active, parts, dirs)
     /\ strays' = strays \union {f}
  \/ /\ Free(f)
     /\ Settle(t, j, snaps, saving, active \union {f}, parts \ {f}, dirs)
     /\ strays' = strays \union {f}

\* flush_memtable takes a number and starts to write its run ...
StartFlush ==
  /\ Idle
  /\ next_run_number <= MaxRun
  /\ flushing' = {NewFile}
  /\ Settle(tree, job, snaps, saving, active, parts \union {NewFile}, dirs)
  /\ next_run_number' = next_run_number + 1
  /\ UNCHANGED <<open, session, remains, strays>>

\* ... which finish completes, and which is pushed to L0 ...
EndFlush ==
  \E f \in flushing :
    /\ Free(f)
    /\ flushing' = {}
    /\ Settle(tree \union {NewHandle(f)}, job, snaps, saving, active \union {f},
              parts \ {f}, dirs)
    /\ UNCHANGED <<open, session, next_run_number, remains, strays>>

\* ... or does not.
FlushFail ==
  \E f \in flushing :
    /\ flushing' = {}
    /\ Abandon(f, tree, job)
    /\ UNCHANGED <<open, session, next_run_number, remains>>

\* run_compaction clones the levels and selects some of the runs.
StartCompaction(I) ==
  /\ open
  /\ job.stage = "none"
  /\ next_run_number <= MaxRun
  /\ I # {}
  /\ Settle(tree, [job EXCEPT !.stage = "merge", !.snap = tree, !.inputs = I],
            snaps, saving, active, parts, dirs)
  /\ UNCHANGED <<open, session, next_run_number, flushing, remains, strays>>

\* The number is taken; then the merged run is begun, no entry is left, or an
\* input cannot be read.
StartOutput ==
  /\ job.stage = "merge"
  /\ \/ Settle(tree, [job EXCEPT !.stage = "output", !.writing = {NewFile}],
               snaps, saving, active, parts \union {NewFile}, dirs)
     \/ Settle(tree, [job EXCEPT !.stage = "write"], snaps, saving, active, parts, dirs)
     \/ Settle(tree, NoJob, snaps, saving, active, parts, dirs)
  /\ next_run_number' = next_run_number + 1
  /\ UNCHANGED <<open, session, flushing, remains, strays>>

EndOutput ==
  \E f \in job.writing :
    /\ Free(f)
    /\ Settle(tree,
              [job EXCEPT !.stage = "write", !.writing = {}, !.out = {NewHandle(f)}],
              snaps, saving, active \union {f}, parts \ {f}, dirs)
    /\ UNCHANGED <<open, session, next_run_number, flushing, remains, strays>>

\* finish fails: run_compaction returns and drops its clone of the levels.
OutputFail ==
  \E f \in job.writing :
    /\ Abandon(f, tree, NoJob)
    /\ UNCHANGED <<open, session, next_run_number, flushing, remains>>

\* The write-back, or the discard of a stale result, and the end of the clone.
EndCompaction ==
  /\ job.stage = "write"
  /\ Settle(IF job.stale THEN tree ELSE (tree \ job.inputs) \union job.out,
            NoJob, snaps, saving, active, parts, dirs)
  /\ UNCHANGED <<open, session, next_run_number, flushing, remains, strays>>

Snapshot(s) ==
  /\ Idle
  /\ Settle(tree, job, [snaps EXCEPT ![s] = tree], saving, active, parts, dirs)
  /\ UNCHANGED <<open, session, next_run_number, flushing, remains, strays>>

DropSnapshot(s) ==
  /\ snaps[s] # None
  /\ Settle(tree, job, [snaps EXCEPT ![s] = None], saving, active, parts, dirs)
  /\ UNCHANGED <<open, session, next_run_number, flushing, remains, strays>>

\* To a snapshot of this session; a compaction in progress becomes stale.
Rollback(s) ==
  /\ Idle
  /\ snaps[s] # None
  /\ \A h \in snaps[s] : h.opened = session
  /\ Settle(snaps[s], [job EXCEPT !.stale = (job.stage # "none")], snaps,
            saving, active, parts, dirs)
  /\ UNCHANGED <<open, session, next_run_number, flushing, remains, strays>>

---------------------------------------------------------------------------
(* PersistentSnapshot.                                                     *)

\* Mutant of SaveStart: the levels' runs are listed, not cloned.
SaveStartNoClone(n) ==
  /\ Idle
  /\ dirs[n] = None
  /\ Settle(tree, job, snaps, [name |-> n, hold |-> {}, left |-> tree],
            active, parts,
            [dirs EXCEPT ![n] = [files |-> {}, runs |-> {}, meta |-> FALSE]])
  /\ UNCHANGED <<open, session, next_run_number, flushing, remains, strays>>

\* Clone the handles of all levels and create the directory; a name that is
\* taken is refused.
SaveStart(n) ==
  /\ Idle
  /\ dirs[n] = None
  /\ Settle(tree, job, snaps, [name |-> n, hold |-> tree, left |-> tree],
            active, parts,
            [dirs EXCEPT ![n] = [files |-> {}, runs |-> {}, meta |-> FALSE]])
  /\ UNCHANGED <<open, session, next_run_number, flushing, remains, strays>>

\* hard_link_to of one run, found in active/ under its number.  The handle it
\* returns shares the run's refcount and is dropped at once.
SaveLink(h) ==
  /\ saving # None
  /\ h \in saving.left
  /\ \E f \in active :
       /\ f.num = h.file.num
       /\ Settle(tree, job, snaps, [saving EXCEPT !.left = @ \ {h}], active, parts,
                 [dirs EXCEPT ![saving.name].files = @ \union {f}])
  /\ UNCHANGED <<open, session, next_run_number, flushing, remains, strays>>

\* metadata and metadata.checksum; the clones are dropped.
SaveMeta ==
  /\ saving # None
  /\ saving.left = {}
  /\ LET n == saving.name
     IN  Settle(tree, job, snaps, None, active, parts,
                [dirs EXCEPT ![n].runs = dirs[n].files, ![n].meta = TRUE])
  /\ UNCHANGED <<open, session, next_run_number, flushing, remains, strays>>

\* load succeeds when both metadata files are there.
Loads(n) == dirs[n] # None /\ dirs[n].meta

DeleteSnapshot(n) ==
  /\ Idle
  /\ Loads(n)
  /\ Settle(tree, job, snaps, saving, active, parts, [dirs EXCEPT ![n] = None])
  /\ UNCHANGED <<open, session, next_run_number, flushing, remains, strays>>

---------------------------------------------------------------------------
(* Sessions.                                                               *)

\* Drop for LsmTree: join the thread, then drop the handles of the levels.
Close ==
  /\ Idle
  /\ job.stage = "none"
  /\ KeepSnapshots \/ \A s \in SnapIds : snaps[s] = None
  /\ Settle({}, job, snaps, saving, active, parts, dirs)
  /\ open' = FALSE
  /\ UNCHANGED <<session, next_run_number, flushing, remains, strays>>

\* The greatest number among files, 0 when there are none.
MaxNumber(F) ==
  CHOOSE m \in 0 .. MaxRun + 1 :
    /\ \A f \in F : f.num <= m
    /\ m = 0 \/ \E f \in F : f.num = m

\* Mutant of Begin: the next number is the greatest one in use.
BeginAtMax(d, F, act, pts) ==
  /\ ~open
  /\ session < MaxSession
  /\ open' = TRUE
  /\ session' = session + 1
  /\ next_run_number' = MaxNumber(F \union pts)
  /\ strays' = strays \intersect (pts \union remains')
  /\ Settle({[dir |-> d, file |-> f, opened |-> session + 1] : f \in F},
            job, snaps, saving, act, pts, dirs)
  /\ UNCHANGED flushing

\* A new session whose levels hold a fresh handle on each of the runs F of
\* directory d, while active/ holds act, and parts of pts.
Begin(d, F, act, pts) ==
  /\ ~open
  /\ session < MaxSession
  /\ open' = TRUE
  /\ session' = session + 1
  /\ next_run_number' = MaxNumber(F \union pts) + 1
  /\ strays' = strays \intersect (pts \union remains')
  /\ Settle({[dir |-> d, file |-> f, opened |-> session + 1] : f \in F},
            job, snaps, saving, act, pts, dirs)
  /\ UNCHANGED flushing

\* LsmTree::open adopts the whole runs it finds in active/ and skips the others,
\* whose files stay; without a .keyops it sees no run and counts no number.
Open == UNCHANGED remains /\ Begin(Active, active, active, parts)

\* Mutants of OpenSnapshot: handles on the files of snapshots/<name>/; active/
\* is not cleared.
OpenSnapshotInPlace(n) ==
  /\ Loads(n)
  /\ dirs[n].runs \subseteq dirs[n].files
  /\ remains' = {}
  /\ Begin(n, dirs[n].runs, {}, {})

OpenSnapshotNoClear(n) ==
  /\ Loads(n)
  /\ dirs[n].runs \subseteq dirs[n].files
  /\ UNCHANGED remains
  /\ Begin(Active, dirs[n].runs, active \union dirs[n].runs, parts)

\* LsmTree::open_snapshot: clear active/, link every run of the metadata into
\* it, and open the runs there.
OpenSnapshot(n) ==
  /\ Loads(n)
  /\ dirs[n].runs \subseteq dirs[n].files
  /\ remains' = {}
  /\ Begin(Active, dirs[n].runs, dirs[n].runs, {})

\* The runs whose last handle a step under way may be dropping: the end of a
\* clone, a snapshot or a save, a write-back, a rollback or a close.
Dropping ==
  {f \in active : \E h \in Held :
     /\ h.dir = Active /\ h.file = f
     /\ \/ h \notin tree
        \/ job.stage = "write" /\ h \in job.inputs
        \/ Idle /\ (job.stage = "none" \/ \E s \in SnapIds : snaps[s] # None)}

\* The process dies: no Drop runs any more, and what was being written stays as
\* it is.  Of the runs being dropped some are deleted, whole or without the files
\* after the .keyops.
Crash ==
  /\ open
  /\ open' = FALSE
  /\ \E gone \in SUBSET Dropping : \E cut \in SUBSET gone :
       /\ Cardinality(remains \union cut) <= MaxCut
       /\ active' = active \ gone
       /\ remains' = remains \union cut
       /\ strays' = strays \union flushing \union job.writing \union cut
  /\ flushing' = {} /\ tree' = {} /\ job' = NoJob /\ saving' = None
  /\ snaps' = [s \in SnapIds |-> None]
  /\ UNCHANGED <<parts, dirs, session, next_run_number>>

Next ==
  \/ StartFlush \/ EndFlush \/ FlushFail
  \/ \E I \in SUBSET tree : StartCompaction(I)
  \/ StartOutput \/ EndOutput \/ OutputFail \/ EndCompaction
  \/ \E s \in SnapIds : Snapshot(s) \/ DropSnapshot(s) \/ Rollback(s)
  \/ \E n \in Names : SaveStart(n) \/ DeleteSnapshot(n) \/ OpenSnapshot(n)
  \/ \E h \in Held : SaveLink(h)
  \/ SaveMeta
  \/ Close \/ Open \/ Crash

Spec == Init /\ [][Next]_fvars

---------------------------------------------------------------------------
(* Properties.                                                             *)

\* Whoever holds a handle can read the run: its files are there and they are
\* the ones the handle was made for (sstable.rs:253-255).
HeldRunsReadable ==
  \A h \in Held : h.dir = Active => h.file \in active

\* A saved snapshot keeps every run its metadata lists, whatever the tree, its
\* compactions and later sessions drop (lib.rs:686-699).
SavedRunsIntact ==
  \A n \in Names : Loads(n) => dirs[n].runs \subseteq dirs[n].files

\* Every run that save_snapshot still has to link is there to be linked, and
\* what it has linked are the runs of the levels it cloned (lib.rs:1297-1301).
SaveFindsItsRuns ==
  saving # None =>
    /\ \A h \in saving.left : h.file \in active
    /\ dirs[saving.name].files \subseteq {h.file : h \in saving.hold}

\* A session leaves no file in active/ that no handle will delete, but those of
\* writes that failed or were cut off and of deletions a crash cut off: the disk
\* space of dropped and discarded runs is given back (sstable.rs:641-652), and no
\* file of these stays through an open but of runs that do not load
\* (lib.rs:543-547).
NoOrphanFiles ==
  open =>
    \A f \in active \union parts \union remains :
      \/ \E h \in Held : h.dir = Active /\ h.file = f
      \/ f \in flushing \union job.writing
      \/ f \in strays
=============================================================================
