--------------------------- MODULE RunFilesProofs --------------------------
(* Theorems about RunFiles, for any numbers of runs, sessions, snapshots   *)
(* and names.                                                              *)
EXTENDS RunFiles, WellFoundedInduction, TLAPS

---------------------------------------------------------------------------
(* Numbers.                                                                *)

\* The greatest number of a set of run files bounds the others: the next
\* session starts above it (lib.rs:555-556).
LEMMA MaxNumberBounds ==
  ASSUME NEW F \in SUBSET File
  PROVE  /\ MaxNumber(F) \in 0 .. MaxRun + 1
         /\ \A f \in F : f.num <= MaxNumber(F)
PROOF
  <1> DEFINE P(m) == /\ \A f \in F : f.num <= m
                     /\ m = 0 \/ \E f \in F : f.num = m
             G == {m \in 0 .. MaxRun + 1 : \A f \in F : f.num <= m}
  <1>1. \A f \in F : f.num \in 1 .. MaxRun + 1
    BY DEF File, Nums
  <1>2. MaxRun + 1 \in G /\ G \subseteq Nat
    BY <1>1, FilesAssumption
  <1>3. PICK m \in G : \A x \in G : <<x, m>> \notin OpToRel(<, Nat)
    <2> HIDE DEF G
    <2> QED BY <1>2, NatLessThanWellFounded, WFMin
  <1>4. ASSUME m # 0, \A f \in F : f.num # m PROVE FALSE
    <2>1. m \in 0 .. MaxRun + 1 /\ \A f \in F : f.num <= m
      BY <1>3
    <2>2. m - 1 \in G
      BY <1>1, <1>4, <2>1, FilesAssumption
    <2>3. <<m - 1, m>> \in OpToRel(<, Nat)
      BY <1>2, <2>2, <1>4, FilesAssumption DEF OpToRel
    <2> QED BY <1>3, <2>2, <2>3
  <1>5. m \in 0 .. MaxRun + 1 /\ P(m)
    BY <1>3, <1>4
  <1>6. MaxNumber(F) = CHOOSE x \in 0 .. MaxRun + 1 : P(x)
    BY DEF MaxNumber
  <1> HIDE DEF P, G
  <1>7. MaxNumber(F) \in 0 .. MaxRun + 1 /\ P(MaxNumber(F))
    BY <1>5, <1>6
  <1> QED BY <1>7 DEF P

---------------------------------------------------------------------------
(* Holders.                                                                *)

\* A handle is held by the levels, the job's clone or output, a snapshot or
\* the save in progress, and by nothing else.
LEMMA HeldByMember ==
  ASSUME NEW t, NEW j, NEW s, NEW sv, NEW h
  PROVE  h \in HeldBy(t, j, s, sv) <=>
           \/ h \in t \/ h \in j.snap \/ h \in j.out
           \/ \E i \in SnapIds : s[i] # None /\ h \in s[i]
           \/ sv # None /\ h \in sv.hold
PROOF
  <1> DEFINE I == {x \in SnapIds : s[x] # None}
             U == UNION {s[i] : i \in I}
             V == IF sv = None THEN {} ELSE sv.hold
  <1>1. h \in U <=> \E i \in SnapIds : s[i] # None /\ h \in s[i]
    OBVIOUS
  <1>2. h \in V <=> sv # None /\ h \in sv.hold
    OBVIOUS
  <1>3. HeldBy(t, j, s, sv) = t \union j.snap \union j.out \union U \union V
    BY DEF HeldBy
  <1> HIDE DEF U, V
  <1> QED BY <1>1, <1>2, <1>3

\* What a step leaves held is what it passes to Settle; the files in active/
\* lose those of the handles it dropped (Drop for the run, sstable.rs:641-652).
LEMMA SettleHeld ==
  ASSUME NEW t, NEW j, NEW s, NEW sv, NEW act, NEW pts, NEW ds,
         Settle(t, j, s, sv, act, pts, ds)
  PROVE  /\ tree' = t /\ job' = j /\ snaps' = s /\ saving' = sv
         /\ Held' = HeldBy(t, j, s, sv)
         /\ active' = DeleteFiles(Active, act, Held \ Held')
         /\ parts' = DeleteFiles(Active, pts, Held \ Held')
PROOF
  <1>1. tree' = t /\ job' = j /\ snaps' = s /\ saving' = sv
    BY DEF Settle
  <1>2. Held' = HeldBy(t, j, s, sv)
    BY <1>1 DEF Held
  <1> QED BY <1>1, <1>2 DEF Settle

\* Handles are on files of active/ only.
AllActive == \A h \in Held : h.dir = Active

\* So no drop touches snapshots/<name>/: its files are the hard links that
\* save_snapshot made, and they have no handle.
LEMMA SettleDirs ==
  ASSUME NEW t, NEW j, NEW s, NEW sv, NEW act, NEW pts, NEW ds,
         Settle(t, j, s, sv, act, pts, ds),
         AllActive, ds \in [Names -> SavedDir \union {None}]
  PROVE  dirs' = ds
PROOF
  <1> DEFINE gone == Held \ HeldBy(t, j, s, sv)
  <1>1. \A n \in Names : \A F : DeleteFiles(n, F, gone) = F
    BY FilesAssumption DEF AllActive, DeleteFiles
  <1>2. dirs' = [n \in Names |-> IF ds[n] = None THEN None
                   ELSE [ds[n] EXCEPT !.files = DeleteFiles(n, @, gone)]]
    BY DEF Settle
  <1> HIDE DEF gone
  <1>3. ASSUME NEW n \in Names, ds[n] # None
        PROVE  [ds[n] EXCEPT !.files = DeleteFiles(n, @, gone)] = ds[n]
    <2>1. ds[n] \in SavedDir
      BY <1>3
    <2>2. DeleteFiles(n, ds[n].files, gone) = ds[n].files
      BY <1>1
    <2> QED BY <2>1, <2>2 DEF SavedDir
  <1>4. dirs' = [n \in Names |-> ds[n]]
    BY <1>2, <1>3
  <1> QED BY <1>4

---------------------------------------------------------------------------
(* The handles, in every use of the tree and its snapshots.                *)

\* One writer writes at most one run.
AtMostOne(S) == \A f, g \in S : f = g

\* The background thread holds nothing before it starts, finds a number for its
\* output, and writes at its own stage only.
JobInv(j, n) ==
  /\ j.stage = "none" => j.snap = {} /\ j.out = {}
  /\ j.stage = "merge" => n <= MaxRun + 1
  /\ j.stage # "output" => j.writing = {}
  /\ AtMostOne(j.writing)

\* Every handle is on a file of active/; flush_memtable, the background thread
\* and a save belong to an open tree; a save has made its directory and links
\* runs it holds.
HandlesInv ==
  /\ AllActive
  /\ JobInv(job, next_run_number) /\ AtMostOne(flushing)
  /\ job.stage # "none" \/ flushing # {} => open
  /\ saving # None => /\ open
                      /\ dirs[saving.name] # None
                      /\ saving.left \subseteq saving.hold

\* The holders a step leaves have their types when those it passes to Settle
\* have them.
LEMMA SettleTypes ==
  ASSUME AllActive,
         NEW t \in SUBSET Handle, NEW j \in Job,
         NEW s \in [SnapIds -> (SUBSET Handle) \union {None}],
         NEW sv \in Saving \union {None},
         NEW act \in SUBSET File, NEW pts \in SUBSET File,
         NEW ds \in [Names -> SavedDir \union {None}],
         Settle(t, j, s, sv, act, pts, ds)
  PROVE  /\ tree' \subseteq Handle /\ job' \in Job
         /\ snaps' \in [SnapIds -> (SUBSET Handle) \union {None}]
         /\ saving' \in Saving \union {None}
         /\ active' \subseteq File /\ parts' \subseteq File
         /\ dirs' \in [Names -> SavedDir \union {None}]
PROOF
  <1>1. dirs' = ds
    BY SettleDirs
  <1>2. active' \subseteq act /\ parts' \subseteq pts
    BY SettleHeld DEF DeleteFiles
  <1> QED BY <1>1, <1>2, SettleHeld

---------------------------------------------------------------------------
(* What a step does to the handles and to active/.                         *)

\* The runs being written.
Writing == flushing \union job.writing

\* It takes the handles outside Held' out of use, and the files of those away
\* from the files act and pts it leaves in active/.
Leaves(act, pts) ==
  /\ active' = DeleteFiles(Active, act, Held \ Held')
  /\ parts' = DeleteFiles(Active, pts, Held \ Held')
  /\ session' = session /\ remains' = remains

\* It only drops handles.
Drops ==
  /\ Held' \subseteq Held
  /\ Leaves(active, parts)
  /\ next_run_number' \in {next_run_number, next_run_number + 1}
  /\ Writing' = Writing /\ strays' = strays

\* It starts to write a run (SsTableWriter::finish).
Begins ==
  /\ next_run_number <= MaxRun + 1
  /\ Held' \subseteq Held
  /\ Leaves(active, parts \union {NewFile})
  /\ next_run_number' = next_run_number + 1
  /\ Writing' = Writing \union {NewFile} /\ strays' = strays

\* The writing of run f ends.
Ends(f) ==
  /\ f \in Writing /\ Writing' \subseteq Writing /\ Writing \subseteq Writing' \union {f}
  /\ next_run_number' = next_run_number

\* finish returns the handle on the run.
Finishes(f) ==
  /\ Ends(f)
  /\ Held' \subseteq Held \union {NewHandle(f)}
  /\ NewHandle(f) \in Held'
  /\ Leaves(active \union {f}, parts \ {f})
  /\ strays' = strays

\* finish fails, and leaves nothing, some files of the run, or all of them.
Abandons(f) ==
  /\ Ends(f)
  /\ Held' \subseteq Held
  /\ \/ Leaves(active, parts \ {f}) /\ strays' = strays
     \/ Leaves(active, parts) /\ strays' = strays \union {f}
     \/ Leaves(active \union {f}, parts \ {f}) /\ strays' = strays \union {f}

\* The handles a new session makes on the files F.
Loaded(F) == {[dir |-> Active, file |-> f, opened |-> session + 1] : f \in F}

\* It opens the tree on the runs F of active/, which it has cleared or not.
OpensOn(F, pts) ==
  /\ ~open /\ open' /\ session < MaxSession
  /\ Held' \subseteq Held \union Loaded(F)
  /\ Loaded(F) \subseteq Held'
  /\ active' = DeleteFiles(Active, F, Held \ Held')
  /\ parts' = DeleteFiles(Active, pts, Held \ Held')
  /\ strays' = strays \intersect (pts \union remains')
  /\ remains' \subseteq remains
  /\ Writing' = Writing
  /\ next_run_number' = MaxNumber(F \union pts) + 1
  /\ session' = session + 1

\* A level's, a clone's or a snapshot's handles are held.
LEMMA HeldParts ==
  /\ tree \subseteq Held /\ job.snap \subseteq Held /\ job.out \subseteq Held
  /\ \A s \in SnapIds : snaps[s] # None => snaps[s] \subseteq Held
  /\ saving # None => saving.hold \subseteq Held
PROOF
  BY HeldByMember DEF Held

\* What Settle is given to hold is what is held after the step.
LEMMA SettleHands ==
  ASSUME NEW t, NEW j, NEW s, NEW sv, NEW act, NEW pts, NEW ds,
         Settle(t, j, s, sv, act, pts, ds),
         NEW N,
         t \subseteq Held \union N, j.snap \subseteq Held \union N,
         j.out \subseteq Held \union N,
         \A i \in SnapIds : s[i] # None => s[i] \subseteq Held \union N,
         sv # None => sv.hold \subseteq Held \union N
  PROVE  Held' \subseteq Held \union N
PROOF
  <1>1. SUFFICES ASSUME NEW h \in HeldBy(t, j, s, sv) PROVE h \in Held \union N
    BY SettleHeld
  <1>2. \/ h \in t \/ h \in j.snap \/ h \in j.out
        \/ \E i \in SnapIds : s[i] # None /\ h \in s[i]
        \/ sv # None /\ h \in sv.hold
    BY <1>1, HeldByMember
  <1> QED BY <1>2

\* A step that hands on what is held.
LEMMA SettleLeaves ==
  ASSUME NEW t, NEW j, NEW s, NEW sv, NEW act, NEW pts, NEW ds,
         Settle(t, j, s, sv, act, pts, ds),
         t \subseteq Held, j.snap \subseteq Held, j.out \subseteq Held,
         \A i \in SnapIds : s[i] # None => s[i] \subseteq Held,
         sv # None => sv.hold \subseteq Held,
         session' = session, remains' = remains
  PROVE  Held' \subseteq Held /\ Leaves(act, pts) /\ Writing' = flushing' \union j.writing
PROOF
  <1>1. Held' \subseteq Held \union {}
    BY SettleHands
  <1> QED BY <1>1, SettleHeld DEF Leaves, Writing

\* A step that does so, and changes active/ by that only.
LEMMA SettleDrops ==
  ASSUME NEW t, NEW j, NEW s, NEW sv, NEW ds, Settle(t, j, s, sv, active, parts, ds),
         t \subseteq Held, j.snap \subseteq Held, j.out \subseteq Held,
         \A i \in SnapIds : s[i] # None => s[i] \subseteq Held,
         sv # None => sv.hold \subseteq Held,
         j.writing = job.writing, UNCHANGED <<flushing, remains, strays>>,
         next_run_number' \in {next_run_number, next_run_number + 1},
         session' = session
  PROVE  Drops
PROOF
  BY SettleLeaves DEF Drops, Writing

\* The steps of the caller in a session and of the background thread, but for
\* those that write a run.
LEMMA DropSteps ==
  ASSUME TypeOK, HandlesInv
  PROVE  /\ \A I \in SUBSET tree : StartCompaction(I) => Drops
         /\ EndCompaction => Drops
         /\ \A s \in SnapIds : Snapshot(s) \/ DropSnapshot(s) \/ Rollback(s) => Drops
         /\ \A n \in Names : SaveStart(n) \/ DeleteSnapshot(n) => Drops
         /\ \A h \in Held : SaveLink(h) => Drops
         /\ SaveMeta \/ Close => Drops
PROOF
  <1>0. /\ job \in Job /\ saving \in Saving \union {None}
        /\ snaps \in [SnapIds -> (SUBSET Handle) \union {None}]
    BY DEF TypeOK
  <1> USE HeldParts, SettleDrops
  <1>1. ASSUME NEW I \in SUBSET tree, StartCompaction(I) PROVE Drops
    <2> DEFINE j == [job EXCEPT !.stage = "merge", !.snap = tree, !.inputs = I]
    <2>1. Settle(tree, j, snaps, saving, active, parts, dirs)
      BY <1>1 DEF StartCompaction
    <2>2. j.snap = tree /\ j.out = job.out /\ j.writing = job.writing
      BY <1>0 DEF Job
    <2> HIDE DEF j
    <2> QED BY <1>1, <2>1, <2>2 DEF StartCompaction
  <1>2. ASSUME EndCompaction PROVE Drops
    <2> DEFINE t == IF job.stale THEN tree ELSE (tree \ job.inputs) \union job.out
    <2>1. Settle(t, NoJob, snaps, saving, active, parts, dirs)
      BY <1>2 DEF EndCompaction
    <2>2. /\ NoJob.snap = {} /\ NoJob.out = {} /\ t \subseteq tree \union job.out
          /\ NoJob.writing = job.writing
      BY <1>2 DEF NoJob, EndCompaction, HandlesInv, JobInv
    <2> HIDE DEF t
    <2> QED BY <1>2, <2>1, <2>2 DEF EndCompaction
  <1>3. ASSUME NEW s \in SnapIds, NEW S, Settle(tree, job, [snaps EXCEPT ![s] = S], saving, active, parts, dirs),
               S = None \/ S = tree, UNCHANGED <<session, next_run_number, flushing, remains, strays>>
        PROVE  Drops
    <2> DEFINE r == [snaps EXCEPT ![s] = S]
    <2>1. \A i \in SnapIds : r[i] # None => r[i] \subseteq Held
      BY <1>0, <1>3
    <2>2. Settle(tree, job, r, saving, active, parts, dirs)
      BY <1>3
    <2> HIDE DEF r
    <2> QED BY <1>3, <2>1, <2>2
  <1>4. ASSUME NEW s \in SnapIds, Snapshot(s) PROVE Drops
    BY <1>3, <1>4 DEF Snapshot
  <1>5. ASSUME NEW s \in SnapIds, DropSnapshot(s) PROVE Drops
    BY <1>3, <1>5 DEF DropSnapshot
  <1>6. ASSUME NEW s \in SnapIds, Rollback(s) PROVE Drops
    <2> DEFINE j == [job EXCEPT !.stale = (job.stage # "none")]
    <2>1. Settle(snaps[s], j, snaps, saving, active, parts, dirs)
      BY <1>6 DEF Rollback
    <2>2. j.snap = job.snap /\ j.out = job.out /\ j.writing = job.writing
      BY <1>0 DEF Job
    <2> HIDE DEF j
    <2> QED BY <1>6, <2>1, <2>2 DEF Rollback
  <1>7. ASSUME NEW n \in Names, SaveStart(n) PROVE Drops
    <2> DEFINE v == [name |-> n, hold |-> tree, left |-> tree]
               d == [dirs EXCEPT ![n] = [files |-> {}, runs |-> {}, meta |-> FALSE]]
    <2>1. Settle(tree, job, snaps, v, active, parts, d)
      BY <1>7 DEF SaveStart
    <2>2. v.hold = tree
      OBVIOUS
    <2> HIDE DEF v, d
    <2> QED BY <1>7, <2>1, <2>2 DEF SaveStart
  <1>8. ASSUME NEW n \in Names, DeleteSnapshot(n) PROVE Drops
    <2>1. Settle(tree, job, snaps, saving, active, parts, [dirs EXCEPT ![n] = None])
      BY <1>8 DEF DeleteSnapshot
    <2> QED BY <1>8, <2>1 DEF DeleteSnapshot
  <1>9. ASSUME NEW h \in Held, SaveLink(h) PROVE Drops
    <2> DEFINE v == [saving EXCEPT !.left = @ \ {h}]
    <2>1. PICK f \in active :
            Settle(tree, job, snaps, v, active, parts,
                   [dirs EXCEPT ![saving.name].files = @ \union {f}])
      BY <1>9 DEF SaveLink
    <2>2. saving # None /\ v.hold = saving.hold
      BY <1>0, <1>9 DEF SaveLink, Saving
    <2> HIDE DEF v
    <2> QED BY <1>9, <2>1, <2>2 DEF SaveLink
  <1>10. ASSUME SaveMeta PROVE Drops
    <2>1. PICK d : Settle(tree, job, snaps, None, active, parts, d)
      BY <1>10 DEF SaveMeta
    <2> QED BY <1>10, <2>1 DEF SaveMeta
  <1>11. ASSUME Close PROVE Drops
    <2>1. Settle({}, job, snaps, saving, active, parts, dirs)
      BY <1>11 DEF Close
    <2> QED BY <1>11, <2>1 DEF Close
  <1> QED BY <1>1, <1>2, <1>4, <1>5, <1>6, <1>7, <1>8, <1>9, <1>10, <1>11

\* The steps that write a run, for a flush or for a merge with an output.
LEMMA WriteSteps ==
  ASSUME TypeOK, HandlesInv
  PROVE  /\ StartFlush => Begins
         /\ StartOutput => Drops \/ Begins
         /\ EndFlush \/ EndOutput => \E f \in Writing : Finishes(f)
         /\ FlushFail \/ OutputFail => \E f \in Writing : Abandons(f)
PROOF
  <1>0. /\ job \in Job /\ next_run_number \in 1 .. MaxRun + 2
        /\ AtMostOne(flushing) /\ AtMostOne(job.writing)
    BY DEF TypeOK, HandlesInv, JobInv
  <1>1. ASSUME StartFlush PROVE Begins
    <2>1. /\ Settle(tree, job, snaps, saving, active, parts \union {NewFile}, dirs)
          /\ flushing = {} /\ flushing' = {NewFile} /\ UNCHANGED <<session, remains, strays>>
          /\ next_run_number' = next_run_number + 1 /\ next_run_number <= MaxRun + 1
      BY <1>0, <1>1, FilesAssumption DEF StartFlush, Idle
    <2>2. /\ Held' \subseteq Held /\ Leaves(active, parts \union {NewFile})
          /\ Writing' = flushing' \union job.writing
      BY <2>1, HeldParts, SettleLeaves
    <2> QED BY <2>1, <2>2 DEF Begins, Writing
  <1>2. ASSUME StartOutput PROVE Drops \/ Begins
    <2> DEFINE w == [job EXCEPT !.stage = "output", !.writing = {NewFile}]
               e == [job EXCEPT !.stage = "write"]
    <2>1. /\ next_run_number' = next_run_number + 1 /\ next_run_number <= MaxRun + 1
          /\ UNCHANGED <<session, flushing, remains, strays>> /\ job.writing = {}
      BY <1>2 DEF StartOutput, HandlesInv, JobInv
    <2>2. /\ w.snap = job.snap /\ w.out = job.out /\ w.writing = {NewFile}
          /\ e.snap = job.snap /\ e.out = job.out /\ e.writing = {}
          /\ NoJob.snap = {} /\ NoJob.out = {} /\ NoJob.writing = {}
      BY <1>0, <2>1 DEF Job, NoJob
    <2>3. \/ Settle(tree, w, snaps, saving, active, parts \union {NewFile}, dirs)
          \/ Settle(tree, e, snaps, saving, active, parts, dirs)
          \/ Settle(tree, NoJob, snaps, saving, active, parts, dirs)
      BY <1>2 DEF StartOutput
    <2> HIDE DEF w, e
    <2>4. ASSUME Settle(tree, w, snaps, saving, active, parts \union {NewFile}, dirs)
          PROVE  Begins
      <3>1. /\ Held' \subseteq Held /\ Leaves(active, parts \union {NewFile})
            /\ Writing' = flushing' \union w.writing
        BY <2>1, <2>2, <2>4, HeldParts, SettleLeaves
      <3> QED BY <2>1, <2>2, <3>1 DEF Begins, Writing
    <2>5. ASSUME NEW j, Settle(tree, j, snaps, saving, active, parts, dirs),
                 j.snap \subseteq job.snap, j.out \subseteq job.out, j.writing = {}
          PROVE  Drops
      BY <2>1, <2>5, HeldParts, SettleDrops
    <2> QED BY <2>2, <2>3, <2>4, <2>5
  <1>3. ASSUME EndFlush PROVE \E f \in Writing : Finishes(f)
    <2>1. PICK f \in flushing :
            /\ flushing' = {} /\ UNCHANGED <<session, next_run_number, remains, strays>>
            /\ Settle(tree \union {NewHandle(f)}, job, snaps, saving, active \union {f},
                      parts \ {f}, dirs)
      BY <1>3 DEF EndFlush
    <2> DEFINE t == tree \union {NewHandle(f)}
    <2>2. t \subseteq Held \union {NewHandle(f)} /\ NewHandle(f) \in t
      BY HeldParts
    <2>3. Settle(t, job, snaps, saving, active \union {f}, parts \ {f}, dirs)
      BY <2>1
    <2> HIDE DEF t
    <2>4. Held' \subseteq Held \union {NewHandle(f)}
      BY <2>2, <2>3, HeldParts, SettleHands
    <2>5. NewHandle(f) \in Held' /\ job' = job
      BY <2>2, <2>3, SettleHeld, HeldByMember
    <2>6. Leaves(active \union {f}, parts \ {f})
      BY <2>1, <2>3, SettleHeld DEF Leaves
    <2>7. Ends(f)
      BY <1>0, <2>1, <2>5 DEF Ends, Writing, AtMostOne
    <2> QED BY <2>1, <2>4, <2>5, <2>6, <2>7 DEF Finishes, Ends
  <1>4. ASSUME EndOutput PROVE \E f \in Writing : Finishes(f)
    <2>1. PICK f \in job.writing :
            /\ UNCHANGED <<session, next_run_number, flushing, remains, strays>>
            /\ Settle(tree, [job EXCEPT !.stage = "write", !.writing = {},
                                        !.out = {NewHandle(f)}],
                      snaps, saving, active \union {f}, parts \ {f}, dirs)
      BY <1>4 DEF EndOutput
    <2> DEFINE j == [job EXCEPT !.stage = "write", !.writing = {}, !.out = {NewHandle(f)}]
    <2>2. j.snap = job.snap /\ j.out = {NewHandle(f)} /\ j.writing = {}
      BY <1>0 DEF Job
    <2>3. Settle(tree, j, snaps, saving, active \union {f}, parts \ {f}, dirs)
      BY <2>1
    <2> HIDE DEF j
    <2>4. Held' \subseteq Held \union {NewHandle(f)}
      BY <2>2, <2>3, HeldParts, SettleHands
    <2>5. NewHandle(f) \in Held' /\ job' = j
      BY <2>2, <2>3, SettleHeld, HeldByMember
    <2>6. Leaves(active \union {f}, parts \ {f})
      BY <2>1, <2>3, SettleHeld DEF Leaves
    <2>7. Ends(f)
      BY <1>0, <2>1, <2>2, <2>5 DEF Ends, Writing, AtMostOne
    <2> QED BY <2>1, <2>4, <2>5, <2>6, <2>7 DEF Finishes, Ends
  <1>5. ASSUME NEW f \in Writing, NEW j, Abandon(f, tree, j),
               j.snap \subseteq job.snap, j.out \subseteq job.out, j.writing \subseteq job.writing,
               flushing' \subseteq flushing, Writing \subseteq flushing' \union j.writing \union {f},
               UNCHANGED <<session, next_run_number, remains>>
        PROVE  Abandons(f)
    <2>1. ASSUME NEW act, NEW pts, Settle(tree, j, snaps, saving, act, pts, dirs)
          PROVE  Held' \subseteq Held /\ Leaves(act, pts) /\ Writing' = flushing' \union j.writing
      BY <1>5, <2>1, HeldParts, SettleLeaves
    <2>2. Held' \subseteq Held /\ Writing' = flushing' \union j.writing
      BY <1>5, <2>1 DEF Abandon
    <2>3. \/ Leaves(active, parts \ {f}) /\ strays' = strays
          \/ Leaves(active, parts) /\ strays' = strays \union {f}
          \/ Leaves(active \union {f}, parts \ {f}) /\ strays' = strays \union {f}
      BY <1>5, <2>1 DEF Abandon
    <2>4. Ends(f)
      BY <1>5, <2>2 DEF Ends, Writing
    <2> QED BY <2>2, <2>3, <2>4 DEF Abandons
  <1>6. ASSUME FlushFail PROVE \E f \in Writing : Abandons(f)
    <2>1. PICK f \in flushing : /\ flushing' = {} /\ Abandon(f, tree, job)
                                /\ UNCHANGED <<session, next_run_number, remains>>
      BY <1>6 DEF FlushFail
    <2>2. Writing \subseteq flushing' \union job.writing \union {f}
      BY <1>0 DEF Writing, AtMostOne
    <2> QED BY <1>5, <2>1, <2>2 DEF Writing
  <1>7. ASSUME OutputFail PROVE \E f \in Writing : Abandons(f)
    <2>1. PICK f \in job.writing : /\ Abandon(f, tree, NoJob)
                                   /\ UNCHANGED <<session, next_run_number, flushing, remains>>
      BY <1>7 DEF OutputFail
    <2>2. NoJob.snap = {} /\ NoJob.out = {} /\ NoJob.writing = {}
      BY DEF NoJob
    <2>3. Writing \subseteq flushing' \union NoJob.writing \union {f}
      BY <1>0, <2>1 DEF Writing, AtMostOne
    <2> QED BY <1>5, <2>1, <2>2, <2>3 DEF Writing
  <1> QED BY <1>1, <1>2, <1>3, <1>4, <1>6, <1>7

\* The steps that open a tree, on active/ as it is or on a saved snapshot.
LEMMA OpenSteps ==
  /\ Open => OpensOn(active, parts)
  /\ \A n \in Names : OpenSnapshot(n) => OpensOn(dirs[n].runs, {})
PROOF
  <1>1. ASSUME NEW F, NEW pts, Begin(Active, F, F, pts), remains' \subseteq remains
        PROVE  OpensOn(F, pts)
    <2>1. Settle(Loaded(F), job, snaps, saving, F, pts, dirs)
      BY <1>1 DEF Begin, Loaded
    <2>2. Held' \subseteq Held \union Loaded(F)
      BY <2>1, HeldParts, SettleHands
    <2>3. Loaded(F) \subseteq Held'
      BY <2>1, SettleHeld, HeldByMember
    <2>4. Writing' = Writing
      BY <1>1, <2>1, SettleHeld DEF Begin, Writing
    <2> QED BY <1>1, <2>1, <2>2, <2>3, <2>4, SettleHeld DEF Begin, OpensOn
  <1> QED BY <1>1 DEF Open, OpenSnapshot

---------------------------------------------------------------------------
(* Types and handles are inductive.                                        *)

\* At first nothing is held.
LEMMA HandlesInit == Init => TypeOK /\ HandlesInv
PROOF
  <1> SUFFICES ASSUME Init PROVE TypeOK /\ HandlesInv
    OBVIOUS
  <1>1. TypeOK
    BY FilesAssumption DEF Init, TypeOK, Sessions, NoJob, Job
  <1>2. Held = {}
    BY HeldByMember DEF Init, Held, NoJob
  <1> QED BY <1>1, <1>2 DEF Init, HandlesInv, JobInv, AtMostOne, AllActive, NoJob

\* The handles a step makes are in active/.
LEMMA ActiveNext ==
  ASSUME AllActive
  PROVE  /\ Drops \/ Begins => AllActive'
         /\ \A f : Finishes(f) \/ Abandons(f) => AllActive'
         /\ \A F, pts : OpensOn(F, pts) => AllActive'
PROOF
  BY DEF AllActive, Drops, Begins, Finishes, Abandons, OpensOn, NewHandle, Loaded

\* A new file and the handle on a written one have their types.
LEMMA NewTypes ==
  ASSUME TypeOK
  PROVE  /\ next_run_number <= MaxRun + 1 => NewFile \in File
         /\ \A f \in File : NewHandle(f) \in Handle
PROOF
  BY FilesAssumption DEF TypeOK, NewFile, NewHandle, File, Handle, Nums, Sessions

\* A step that leaves snapshots/ and the save alone.
LEMMA SettleInv ==
  ASSUME TypeOK, HandlesInv, AllActive',
         NEW t \in SUBSET Handle, NEW j \in Job,
         NEW s \in [SnapIds -> (SUBSET Handle) \union {None}],
         NEW act \in SUBSET File, NEW pts \in SUBSET File,
         Settle(t, j, s, saving, act, pts, dirs),
         open' \in BOOLEAN, session' \in Sessions,
         next_run_number' \in 1 .. MaxRun + 2,
         flushing' \in SUBSET File, strays' \in SUBSET File, remains' \in SUBSET File,
         JobInv(j, next_run_number'), AtMostOne(flushing'),
         (j.stage # "none" \/ flushing' # {} \/ saving # None) => open'
  PROVE  TypeOK' /\ HandlesInv'
PROOF
  <1>1. /\ AllActive /\ dirs \in [Names -> SavedDir \union {None}]
        /\ saving \in Saving \union {None}
    BY DEF TypeOK, HandlesInv
  <1>2. dirs' = dirs /\ saving' = saving /\ job' = j
    BY <1>1, SettleDirs, SettleHeld
  <1>3. TypeOK'
    BY <1>1, SettleTypes DEF TypeOK
  <1>4. HandlesInv'
    BY <1>2 DEF HandlesInv
  <1> QED BY <1>3, <1>4

\* finish fails.
LEMMA AbandonInv ==
  ASSUME TypeOK, HandlesInv, AllActive', NEW f \in File, NEW j \in Job,
         Abandon(f, tree, j), UNCHANGED <<open, session, next_run_number, remains>>,
         flushing' \subseteq flushing, JobInv(j, next_run_number),
         j.stage \in {"none", job.stage}
  PROVE  TypeOK' /\ HandlesInv'
PROOF
  <1>1. /\ tree \in SUBSET Handle /\ snaps \in [SnapIds -> (SUBSET Handle) \union {None}]
        /\ active \in SUBSET File /\ active \union {f} \in SUBSET File
        /\ parts \in SUBSET File /\ parts \ {f} \in SUBSET File
        /\ open \in BOOLEAN /\ session \in Sessions /\ next_run_number \in 1 .. MaxRun + 2
        /\ strays \in SUBSET File /\ flushing \in SUBSET File
        /\ remains \in SUBSET File
    BY DEF TypeOK
  <1>2. PICK act \in SUBSET File, pts \in SUBSET File :
          /\ Settle(tree, j, snaps, saving, act, pts, dirs)
          /\ strays' = strays \/ strays' = strays \union {f}
    BY <1>1 DEF Abandon
  <1>3. strays' \in SUBSET File /\ flushing' \in SUBSET File /\ AtMostOne(flushing')
    BY <1>1, <1>2 DEF HandlesInv, AtMostOne
  <1>4. j.stage # "none" \/ flushing' # {} \/ saving # None => open'
    BY DEF HandlesInv
  <1> QED BY <1>1, <1>2, <1>3, <1>4, SettleInv

\* The background thread's steps.
LEMMA JobTypes ==
  ASSUME TypeOK, HandlesInv,
         \/ \E I \in SUBSET tree : StartCompaction(I)
         \/ StartOutput \/ EndOutput \/ OutputFail \/ EndCompaction
  PROVE  TypeOK' /\ HandlesInv'
PROOF
  <1>0. /\ job \in Job /\ next_run_number \in 1 .. MaxRun + 2 /\ JobInv(job, next_run_number)
        /\ active \in SUBSET File /\ parts \in SUBSET File
        /\ tree \in SUBSET Handle /\ open \in BOOLEAN /\ session \in Sessions
        /\ flushing \in SUBSET File /\ strays \in SUBSET File /\ remains \in SUBSET File
        /\ snaps \in [SnapIds -> (SUBSET Handle) \union {None}]
        /\ AtMostOne(flushing)
        /\ (job.stage # "none" \/ flushing # {} \/ saving # None => open)
    BY DEF TypeOK, HandlesInv
  <1>1. AllActive'
    BY ActiveNext, WriteSteps, DropSteps DEF HandlesInv
  <1>2. NoJob \in Job /\ NoJob.stage = "none" /\ JobInv(NoJob, next_run_number')
    BY DEF NoJob, Job, JobInv, AtMostOne
  <1>3. ASSUME NEW I \in SUBSET tree, StartCompaction(I)
        PROVE  TypeOK' /\ HandlesInv'
    <2> DEFINE j == [job EXCEPT !.stage = "merge", !.snap = tree, !.inputs = I]
    <2>1. /\ Settle(tree, j, snaps, saving, active, parts, dirs)
          /\ open /\ next_run_number <= MaxRun /\ job.stage = "none"
          /\ UNCHANGED <<open, session, next_run_number, flushing, remains, strays>>
      BY <1>3 DEF StartCompaction
    <2>2. next_run_number <= MaxRun + 1
      BY <1>0, <2>1, FilesAssumption
    <2>3. j \in Job /\ JobInv(j, next_run_number)
      BY <1>0, <2>1, <2>2 DEF Job, JobInv
    <2> HIDE DEF j
    <2> QED BY <1>0, <1>1, <2>1, <2>3, SettleInv
  <1>4. ASSUME StartOutput
        PROVE  TypeOK' /\ HandlesInv'
    <2>1. /\ job.stage = "merge" /\ open /\ next_run_number <= MaxRun + 1
          /\ next_run_number' = next_run_number + 1
          /\ UNCHANGED <<open, session, flushing, remains, strays>>
      BY <1>0, <1>4 DEF StartOutput, JobInv
    <2>2. next_run_number' \in 1 .. MaxRun + 2
      BY <1>0, <2>1, FilesAssumption
    <2>3. NewFile \in File
      BY <2>1, NewTypes
    <2> DEFINE w == [job EXCEPT !.stage = "output", !.writing = {NewFile}]
               e == [job EXCEPT !.stage = "write"]
    <2>4. w \in Job /\ JobInv(w, next_run_number')
      BY <1>0, <2>1, <2>3 DEF Job, JobInv, AtMostOne
    <2>5. e \in Job /\ JobInv(e, next_run_number')
      BY <1>0, <2>1 DEF Job, JobInv, AtMostOne
    <2>6. \/ Settle(tree, w, snaps, saving, active, parts \union {NewFile}, dirs)
          \/ Settle(tree, e, snaps, saving, active, parts, dirs)
          \/ Settle(tree, NoJob, snaps, saving, active, parts, dirs)
      BY <1>4 DEF StartOutput
    <2>7. parts \union {NewFile} \in SUBSET File
      BY <1>0, <2>3
    <2> HIDE DEF w, e
    <2>8. ASSUME NEW j \in Job, JobInv(j, next_run_number'), NEW pts \in SUBSET File,
                 Settle(tree, j, snaps, saving, active, pts, dirs)
          PROVE  TypeOK' /\ HandlesInv'
      BY <1>0, <1>1, <2>1, <2>2, <2>8, SettleInv
    <2> QED BY <1>0, <1>2, <2>4, <2>5, <2>6, <2>7, <2>8
  <1>5. ASSUME EndOutput
        PROVE  TypeOK' /\ HandlesInv'
    <2>1. PICK f \in job.writing :
            /\ Settle(tree, [job EXCEPT !.stage = "write", !.writing = {},
                                        !.out = {NewHandle(f)}],
                      snaps, saving, active \union {f}, parts \ {f}, dirs)
            /\ UNCHANGED <<open, session, next_run_number, flushing, remains, strays>>
      BY <1>5 DEF EndOutput
    <2>2. f \in File /\ NewHandle(f) \in Handle
      BY <1>0, <2>1, NewTypes DEF Job
    <2> DEFINE j == [job EXCEPT !.stage = "write", !.writing = {}, !.out = {NewHandle(f)}]
    <2>3. j \in Job /\ JobInv(j, next_run_number)
      BY <1>0, <2>2 DEF Job, JobInv, AtMostOne
    <2>4. Settle(tree, j, snaps, saving, active \union {f}, parts \ {f}, dirs)
      BY <2>1
    <2>5. active \union {f} \in SUBSET File /\ parts \ {f} \in SUBSET File
      BY <1>0, <2>2
    <2>6. open
      BY <1>0, <2>1 DEF JobInv
    <2> HIDE DEF j
    <2> QED BY <1>0, <1>1, <2>1, <2>3, <2>4, <2>5, <2>6, SettleInv
  <1>6. ASSUME OutputFail
        PROVE  TypeOK' /\ HandlesInv'
    <2>1. PICK f \in job.writing :
            /\ Abandon(f, tree, NoJob)
            /\ UNCHANGED <<open, session, next_run_number, flushing, remains>>
      BY <1>6 DEF OutputFail
    <2>2. f \in File
      BY <1>0, <2>1 DEF Job
    <2> QED BY <1>1, <1>2, <2>1, <2>2, AbandonInv
  <1>7. ASSUME EndCompaction
        PROVE  TypeOK' /\ HandlesInv'
    <2> DEFINE t == IF job.stale THEN tree ELSE (tree \ job.inputs) \union job.out
    <2>1. /\ Settle(t, NoJob, snaps, saving, active, parts, dirs)
          /\ UNCHANGED <<open, session, next_run_number, flushing, remains, strays>>
      BY <1>7 DEF EndCompaction
    <2>2. t \in SUBSET Handle
      BY <1>0 DEF Job
    <2> HIDE DEF t
    <2> QED BY <1>0, <1>1, <1>2, <2>1, <2>2, SettleInv
  <1> QED BY <1>3, <1>4, <1>5, <1>6, <1>7

\* The caller's steps that keep the holders' kinds: the levels and the
\* snapshots change, the directories do not.
LEMMA CallerTypes ==
  ASSUME TypeOK, HandlesInv,
         \/ StartFlush \/ EndFlush \/ FlushFail \/ Close
         \/ \E s \in SnapIds : Snapshot(s) \/ DropSnapshot(s) \/ Rollback(s)
  PROVE  TypeOK' /\ HandlesInv'
PROOF
  <1>0. /\ job \in Job /\ next_run_number \in 1 .. MaxRun + 2 /\ JobInv(job, next_run_number)
        /\ active \in SUBSET File /\ parts \in SUBSET File
        /\ tree \in SUBSET Handle /\ open \in BOOLEAN /\ session \in Sessions
        /\ flushing \in SUBSET File /\ strays \in SUBSET File /\ remains \in SUBSET File
        /\ snaps \in [SnapIds -> (SUBSET Handle) \union {None}]
        /\ AtMostOne(flushing) /\ AtMostOne({})
        /\ (job.stage # "none" \/ flushing # {} \/ saving # None => open)
    BY DEF TypeOK, HandlesInv, AtMostOne
  <1>1. AllActive'
    BY ActiveNext, WriteSteps, DropSteps DEF HandlesInv
  <1>2. CASE StartFlush
    <2>1. /\ Settle(tree, job, snaps, saving, active, parts \union {NewFile}, dirs)
          /\ flushing' = {NewFile} /\ next_run_number <= MaxRun
          /\ next_run_number' = next_run_number + 1 /\ open
          /\ UNCHANGED <<open, session, remains, strays>>
      BY <1>2 DEF StartFlush, Idle
    <2>2. /\ next_run_number' \in 1 .. MaxRun + 2 /\ next_run_number <= MaxRun + 1
          /\ next_run_number' <= MaxRun + 1
      BY <1>0, <2>1, FilesAssumption
    <2>3. NewFile \in File /\ parts \union {NewFile} \in SUBSET File
      BY <1>0, <2>2, NewTypes
    <2>4. flushing' \in SUBSET File /\ AtMostOne(flushing') /\ JobInv(job, next_run_number')
      BY <1>0, <2>1, <2>2, <2>3 DEF AtMostOne, JobInv
    <2> QED BY <1>0, <1>1, <2>1, <2>2, <2>3, <2>4, SettleInv
  <1>3. CASE EndFlush
    <2>1. PICK f \in flushing :
            /\ flushing' = {}
            /\ Settle(tree \union {NewHandle(f)}, job, snaps, saving, active \union {f},
                      parts \ {f}, dirs)
            /\ UNCHANGED <<open, session, next_run_number, remains, strays>>
      BY <1>3 DEF EndFlush
    <2>2. /\ f \in File /\ tree \union {NewHandle(f)} \in SUBSET Handle
          /\ active \union {f} \in SUBSET File /\ parts \ {f} \in SUBSET File
      BY <1>0, <2>1, NewTypes
    <2> QED BY <1>0, <1>1, <2>1, <2>2, SettleInv
  <1>4. CASE FlushFail
    <2>1. PICK f \in flushing :
            /\ flushing' = {} /\ Abandon(f, tree, job)
            /\ UNCHANGED <<open, session, next_run_number, remains>>
      BY <1>4 DEF FlushFail
    <2> QED BY <1>0, <1>1, <2>1, AbandonInv
  <1>5. CASE Close
    <2>1. /\ Settle({}, job, snaps, saving, active, parts, dirs)
          /\ UNCHANGED <<session, next_run_number, flushing, remains, strays>> /\ open' = FALSE
          /\ job.stage = "none" /\ saving = None /\ flushing = {}
      BY <1>5 DEF Close, Idle
    <2> QED BY <1>0, <1>1, <2>1, SettleInv
  <1>6. ASSUME NEW s \in SnapIds, Snapshot(s) \/ DropSnapshot(s)
        PROVE  TypeOK' /\ HandlesInv'
    <2>1. PICK S \in {None, tree} :
            Settle(tree, job, [snaps EXCEPT ![s] = S], saving, active, parts, dirs)
      BY <1>6 DEF Snapshot, DropSnapshot
    <2> DEFINE r == [snaps EXCEPT ![s] = S]
    <2>2. r \in [SnapIds -> (SUBSET Handle) \union {None}]
      BY <1>0
    <2>3. Settle(tree, job, r, saving, active, parts, dirs)
      BY <2>1
    <2> HIDE DEF r
    <2>4. UNCHANGED <<open, session, next_run_number, flushing, remains, strays>>
      BY <1>6 DEF Snapshot, DropSnapshot
    <2> QED BY <1>0, <1>1, <2>2, <2>3, <2>4, SettleInv
  <1>7. ASSUME NEW s \in SnapIds, Rollback(s)
        PROVE  TypeOK' /\ HandlesInv'
    <2> DEFINE j == [job EXCEPT !.stale = (job.stage # "none")]
    <2>1. /\ Settle(snaps[s], j, snaps, saving, active, parts, dirs) /\ snaps[s] # None
          /\ UNCHANGED <<open, session, next_run_number, flushing, remains, strays>>
      BY <1>7 DEF Rollback
    <2>2. /\ j \in Job /\ j.stage = job.stage /\ JobInv(j, next_run_number)
          /\ snaps[s] \in SUBSET Handle
      BY <1>0, <2>1 DEF Job, JobInv
    <2> HIDE DEF j
    <2> QED BY <1>0, <1>1, <2>1, <2>2, SettleInv
  <1> QED BY <1>2, <1>3, <1>4, <1>5, <1>6, <1>7

\* An empty snapshot directory, and what linking a file and writing the
\* metadata make of one.
EmptyDir == [files |-> {}, runs |-> {}, meta |-> FALSE]

LEMMA SavedDirChanges ==
  ASSUME NEW d \in SavedDir, NEW f \in File
  PROVE  /\ EmptyDir \in SavedDir
         /\ [d EXCEPT !.files = @ \union {f}] \in SavedDir
         /\ [d EXCEPT !.files = @ \union {f}].files = d.files \union {f}
         /\ [d EXCEPT !.files = @ \union {f}].runs = d.runs
         /\ [d EXCEPT !.runs = d.files, !.meta = TRUE] \in SavedDir
         /\ [d EXCEPT !.runs = d.files, !.meta = TRUE].files = d.files
         /\ [d EXCEPT !.runs = d.files, !.meta = TRUE].runs = d.files
PROOF
  BY DEF SavedDir, EmptyDir

\* What save_snapshot and delete_snapshot do to the directories; no other step
\* changes them.
LEMMA DirSteps ==
  ASSUME TypeOK, HandlesInv
  PROVE  /\ \A n \in Names : SaveStart(n) => dirs' = [dirs EXCEPT ![n] = EmptyDir]
         /\ \A h \in Held : SaveLink(h) =>
              \E f \in active :
                /\ f.num = h.file.num
                /\ dirs' = [dirs EXCEPT ![saving.name] =
                              [dirs[saving.name] EXCEPT !.files = @ \union {f}]]
         /\ SaveMeta =>
              dirs' = [dirs EXCEPT ![saving.name] =
                         [dirs[saving.name] EXCEPT !.runs = dirs[saving.name].files,
                                                   !.meta = TRUE]]
         /\ \A n \in Names : DeleteSnapshot(n) => dirs' = [dirs EXCEPT ![n] = None]
PROOF
  <1>0. /\ AllActive /\ dirs \in [Names -> SavedDir \union {None}]
        /\ active \subseteq File
        /\ saving # None => saving \in Saving /\ saving.name \in Names
                            /\ dirs[saving.name] \in SavedDir
    BY DEF TypeOK, HandlesInv, Saving
  <1>1. ASSUME NEW n \in Names, SaveStart(n)
        PROVE  dirs' = [dirs EXCEPT ![n] = EmptyDir]
    <2> DEFINE d == [dirs EXCEPT ![n] = EmptyDir]
               v == [name |-> n, hold |-> tree, left |-> tree]
    <2>1. Settle(tree, job, snaps, v, active, parts, d)
      BY <1>1 DEF SaveStart, EmptyDir
    <2>2. d \in [Names -> SavedDir \union {None}]
      <3>1. EmptyDir \in SavedDir
        BY DEF EmptyDir, SavedDir
      <3> QED BY <1>0, <3>1
    <2> HIDE DEF d, v
    <2>3. dirs' = d
      BY <1>0, <2>1, <2>2, SettleDirs
    <2> QED BY <2>3 DEF d
  <1>2. ASSUME NEW h \in Held, SaveLink(h)
        PROVE  \E f \in active :
                 /\ f.num = h.file.num
                 /\ dirs' = [dirs EXCEPT ![saving.name] =
                               [dirs[saving.name] EXCEPT !.files = @ \union {f}]]
    <2>1. PICK f \in active :
            /\ f.num = h.file.num
            /\ Settle(tree, job, snaps, [saving EXCEPT !.left = @ \ {h}], active, parts,
                      [dirs EXCEPT ![saving.name].files = @ \union {f}])
      BY <1>2 DEF SaveLink
    <2> DEFINE d == [dirs EXCEPT ![saving.name].files = @ \union {f}]
               v == [saving EXCEPT !.left = @ \ {h}]
               r == [dirs[saving.name] EXCEPT !.files = @ \union {f}]
    <2>2. r \in SavedDir /\ saving.name \in Names
      BY <1>0, <1>2, <2>1, SavedDirChanges DEF SaveLink
    <2>3. d = [dirs EXCEPT ![saving.name] = r]
      BY <1>0
    <2> HIDE DEF r
    <2>4. d \in [Names -> SavedDir \union {None}]
      BY <1>0, <2>2, <2>3
    <2>5. Settle(tree, job, snaps, v, active, parts, d)
      BY <2>1
    <2> HIDE DEF d, v
    <2>6. dirs' = d
      BY <1>0, <2>4, <2>5, SettleDirs
    <2> QED BY <2>1, <2>3, <2>6 DEF r
  <1>3. ASSUME SaveMeta
        PROVE  dirs' = [dirs EXCEPT ![saving.name] =
                          [dirs[saving.name] EXCEPT !.runs = dirs[saving.name].files,
                                                    !.meta = TRUE]]
    <2> DEFINE r == [dirs[saving.name] EXCEPT !.runs = dirs[saving.name].files,
                                              !.meta = TRUE]
               d == [dirs EXCEPT ![saving.name].runs = dirs[saving.name].files,
                                 ![saving.name].meta = TRUE]
    <2>1. Settle(tree, job, snaps, None, active, parts, d)
      BY <1>3 DEF SaveMeta
    <2>2. saving.name \in Names /\ dirs[saving.name] \in SavedDir
      BY <1>0, <1>3 DEF SaveMeta
    <2>3. d = [dirs EXCEPT ![saving.name] = r]
      BY <1>0, <2>2
    <2>4. r \in SavedDir
      BY <2>2 DEF SavedDir
    <2> HIDE DEF r
    <2>5. d \in [Names -> SavedDir \union {None}]
      BY <1>0, <2>2, <2>3, <2>4
    <2> HIDE DEF d
    <2>6. dirs' = d
      BY <1>0, <2>1, <2>5, SettleDirs
    <2> QED BY <2>3, <2>6 DEF r
  <1>4. ASSUME NEW n \in Names, DeleteSnapshot(n)
        PROVE  dirs' = [dirs EXCEPT ![n] = None]
    <2> DEFINE d == [dirs EXCEPT ![n] = None]
    <2>1. Settle(tree, job, snaps, saving, active, parts, d)
      BY <1>4 DEF DeleteSnapshot
    <2>2. d \in [Names -> SavedDir \union {None}]
      BY <1>0
    <2> HIDE DEF d
    <2>3. dirs' = d
      BY <1>0, <2>1, <2>2, SettleDirs
    <2> QED BY <2>3 DEF d
  <1> QED BY <1>1, <1>2, <1>3, <1>4

\* The steps of PersistentSnapshot.
LEMMA SaveTypes ==
  ASSUME TypeOK, HandlesInv,
         \/ \E n \in Names : SaveStart(n) \/ DeleteSnapshot(n)
         \/ \E h \in Held : SaveLink(h)
         \/ SaveMeta
  PROVE  TypeOK' /\ HandlesInv'
PROOF
  <1>0. /\ AllActive /\ job \in Job /\ next_run_number \in 1 .. MaxRun + 2
        /\ dirs \in [Names -> SavedDir \union {None}] /\ active \in SUBSET File
        /\ tree \in SUBSET Handle /\ saving \in Saving \union {None}
        /\ snaps \in [SnapIds -> (SUBSET Handle) \union {None}]
        /\ open \in BOOLEAN /\ session \in Sessions
    BY DEF TypeOK, HandlesInv
  <1>1. AllActive'
    BY <1>0, ActiveNext, DropSteps
  <1>2. UNCHANGED <<open, session, next_run_number, flushing, remains, strays>>
    BY DEF SaveStart, DeleteSnapshot, SaveLink, SaveMeta
  <1>3. ASSUME NEW sv \in Saving \union {None}, NEW ds,
               Settle(tree, job, snaps, sv, active, parts, ds),
               dirs' \in [Names -> SavedDir \union {None}],
               sv # None => /\ open /\ dirs'[sv.name] # None
                            /\ sv.left \subseteq sv.hold
        PROVE  TypeOK' /\ HandlesInv'
    <2>1. /\ tree' = tree /\ job' = job /\ snaps' = snaps /\ saving' = sv
          /\ active' \subseteq active /\ parts' \subseteq parts
      BY <1>3, SettleHeld DEF DeleteFiles
    <2>2. TypeOK'
      BY <1>0, <1>2, <1>3, <2>1 DEF TypeOK
    <2>3. HandlesInv'
      BY <1>1, <1>2, <1>3, <2>1 DEF HandlesInv
    <2> QED BY <2>2, <2>3
  <1>4. ASSUME NEW n \in Names, SaveStart(n)
        PROVE  TypeOK' /\ HandlesInv'
    <2> DEFINE v == [name |-> n, hold |-> tree, left |-> tree]
    <2>1. PICK d : Settle(tree, job, snaps, v, active, parts, d)
      BY <1>4 DEF SaveStart
    <2>2. dirs' = [dirs EXCEPT ![n] = EmptyDir] /\ open
      BY <1>4, DirSteps DEF SaveStart, Idle
    <2>3. EmptyDir \in SavedDir
      BY DEF EmptyDir, SavedDir
    <2>4. v \in Saving /\ v.name = n /\ v.left \subseteq v.hold
      BY <1>0 DEF Saving
    <2>5. dirs' \in [Names -> SavedDir \union {None}] /\ dirs'[n] # None
      BY <1>0, <2>2, <2>3, FilesAssumption
    <2> HIDE DEF v
    <2> QED BY <1>3, <2>1, <2>2, <2>4, <2>5
  <1>5. ASSUME NEW n \in Names, DeleteSnapshot(n)
        PROVE  TypeOK' /\ HandlesInv'
    <2>1. PICK d : Settle(tree, job, snaps, saving, active, parts, d)
      BY <1>5 DEF DeleteSnapshot
    <2>2. dirs' = [dirs EXCEPT ![n] = None] /\ saving = None
      BY <1>5, DirSteps DEF DeleteSnapshot, Idle
    <2>3. dirs' \in [Names -> SavedDir \union {None}]
      BY <1>0, <2>2
    <2> QED BY <1>0, <1>3, <2>1, <2>2, <2>3
  <1>6. ASSUME NEW h \in Held, SaveLink(h)
        PROVE  TypeOK' /\ HandlesInv'
    <2> DEFINE v == [saving EXCEPT !.left = @ \ {h}]
    <2>1. PICK d : Settle(tree, job, snaps, v, active, parts, d)
      BY <1>6 DEF SaveLink
    <2>2. /\ saving \in Saving /\ saving.name \in Names /\ open
          /\ dirs[saving.name] \in SavedDir
          /\ saving.left \subseteq saving.hold
      BY <1>0, <1>6 DEF SaveLink, HandlesInv, Saving
    <2>3. v \in Saving /\ v.name = saving.name /\ v.left \subseteq v.hold
      BY <2>2 DEF Saving
    <2>4. PICK f \in active :
            dirs' = [dirs EXCEPT ![saving.name] =
                       [dirs[saving.name] EXCEPT !.files = @ \union {f}]]
      BY <1>6, DirSteps
    <2> DEFINE r == [dirs[saving.name] EXCEPT !.files = @ \union {f}]
    <2>5. r \in SavedDir
      BY <1>0, <2>2, SavedDirChanges
    <2> HIDE DEF r, v
    <2>6. dirs' = [dirs EXCEPT ![saving.name] = r]
      BY <2>4 DEF r
    <2>7. dirs' \in [Names -> SavedDir \union {None}] /\ dirs'[saving.name] # None
      BY <1>0, <2>2, <2>5, <2>6, FilesAssumption
    <2> QED BY <1>3, <2>1, <2>2, <2>3, <2>7
  <1>7. ASSUME SaveMeta
        PROVE  TypeOK' /\ HandlesInv'
    <2>1. PICK d : Settle(tree, job, snaps, None, active, parts, d)
      BY <1>7 DEF SaveMeta
    <2>2. saving.name \in Names /\ dirs[saving.name] \in SavedDir
      BY <1>0, <1>7 DEF SaveMeta, HandlesInv, Saving
    <2> DEFINE r == [dirs[saving.name] EXCEPT !.runs = dirs[saving.name].files,
                                              !.meta = TRUE]
    <2>3. dirs' = [dirs EXCEPT ![saving.name] = r]
      BY <1>7, DirSteps
    <2>4. r \in SavedDir
      BY <2>2 DEF SavedDir
    <2> HIDE DEF r
    <2>5. dirs' \in [Names -> SavedDir \union {None}]
      BY <1>0, <2>2, <2>3, <2>4
    <2> QED BY <1>3, <2>1, <2>5
  <1> QED BY <1>4, <1>5, <1>6, <1>7

\* The steps that open a tree, and the crash.
LEMMA SessionTypes ==
  ASSUME TypeOK, HandlesInv,
         Open \/ (\E n \in Names : OpenSnapshot(n)) \/ Crash
  PROVE  TypeOK' /\ HandlesInv'
PROOF
  <1>0. /\ AllActive /\ job \in Job /\ JobInv(job, next_run_number)
        /\ dirs \in [Names -> SavedDir \union {None}] /\ active \in SUBSET File
        /\ parts \in SUBSET File /\ strays \in SUBSET File /\ flushing \in SUBSET File
        /\ remains \in SUBSET File
        /\ snaps \in [SnapIds -> (SUBSET Handle) \union {None}]
        /\ session \in Sessions
        /\ (job.stage # "none" \/ flushing # {} \/ saving # None => open)
    BY DEF TypeOK, HandlesInv
  <1>1. ASSUME NEW F \in SUBSET File, NEW pts \in SUBSET File,
               Begin(Active, F, F, pts), OpensOn(F, pts)
        PROVE  TypeOK' /\ HandlesInv'
    <2>1. /\ Settle(Loaded(F), job, snaps, saving, F, pts, dirs) /\ ~open /\ open' = TRUE
          /\ flushing' = flushing /\ strays' = strays \intersect (pts \union remains')
          /\ remains' \subseteq remains
      BY <1>1 DEF Begin, Loaded, OpensOn
    <2>2. session' \in Sessions /\ session + 1 \in Sessions
      BY <1>0, <1>1, FilesAssumption DEF OpensOn, Sessions
    <2>3. Loaded(F) \in SUBSET Handle
      BY <2>2 DEF Loaded, Handle
    <2>4. next_run_number' \in 1 .. MaxRun + 2
      BY <1>1, MaxNumberBounds, FilesAssumption DEF OpensOn
    <2>5. AllActive'
      BY <1>0, <1>1, ActiveNext
    <2>6. job.stage = "none" /\ flushing = {}
      BY <1>0, <2>1
    <2>7. JobInv(job, next_run_number') /\ AtMostOne(flushing')
      BY <1>0, <2>1, <2>6 DEF JobInv, AtMostOne
    <2>8. flushing' \in SUBSET File /\ strays' \in SUBSET File /\ remains' \in SUBSET File
      BY <1>0, <2>1
    <2> QED BY <1>0, <2>1, <2>2, <2>3, <2>4, <2>5, <2>7, <2>8, SettleInv
  <1>2. CASE Open
    BY <1>0, <1>1, <1>2, OpenSteps DEF Open
  <1>3. ASSUME NEW n \in Names, OpenSnapshot(n)
        PROVE  TypeOK' /\ HandlesInv'
    <2>1. dirs[n].runs \in SUBSET File
      BY <1>0, <1>3 DEF OpenSnapshot, Loads, SavedDir
    <2> QED BY <1>1, <1>3, <2>1, OpenSteps DEF OpenSnapshot
  <1>4. CASE Crash
    <2>1. NoJob \in Job /\ JobInv(NoJob, next_run_number) /\ NoJob.stage = "none"
      BY DEF NoJob, Job, JobInv, AtMostOne
    <2>2. TypeOK'
      <3>1. PICK gone, cut :
              /\ cut \subseteq gone /\ gone \subseteq active
              /\ active' = active \ gone /\ remains' = remains \union cut
              /\ strays' = strays \union flushing \union job.writing \union cut
        BY <1>4 DEF Crash, Dropping
      <3>2. /\ active' \in SUBSET File /\ remains' \in SUBSET File
            /\ strays' \in SUBSET File
        BY <1>0, <3>1 DEF Job
      <3> QED BY <1>0, <1>4, <2>1, <3>2 DEF Crash, TypeOK
    <2>3. Held' = {}
      BY <1>4, HeldByMember DEF Held, Crash, NoJob
    <2> QED BY <1>4, <2>1, <2>2, <2>3 DEF Crash, HandlesInv, AllActive, AtMostOne
  <1> QED BY <1>2, <1>3, <1>4

LEMMA HandlesNext ==
  TypeOK /\ HandlesInv /\ [Next]_fvars => TypeOK' /\ HandlesInv'
PROOF
  <1> SUFFICES ASSUME TypeOK, HandlesInv, [Next]_fvars PROVE TypeOK' /\ HandlesInv'
    OBVIOUS
  <1>1. CASE UNCHANGED fvars
    <2>1. Held' = Held
      BY <1>1 DEF fvars, Held
    <2> QED BY <1>1, <2>1 DEF fvars, TypeOK, HandlesInv, AllActive
  <1>2. CASE Next
    BY <1>2, JobTypes, CallerTypes, SaveTypes, SessionTypes DEF Next
  <1> QED BY <1>1, <1>2

\* The variables keep their types: numbers, handles and directories stay what
\* the code can make them through every flush, compaction, save, restore,
\* close, open and crash (sstable.rs, snapshot.rs, lib.rs).
THEOREM FilesTypeCorrect == Spec => []TypeOK
PROOF
  BY HandlesInit, HandlesNext, PTL DEF Spec

---------------------------------------------------------------------------
(* Saved snapshots.                                                        *)

\* The steps but those of PersistentSnapshot leave snapshots/ alone, and a save
\* goes on or dies with the process.
DirsStay == dirs' = dirs /\ (saving' = saving \/ saving' = None)

LEMMA DirsKept ==
  ASSUME TypeOK, HandlesInv, [Next]_fvars
  PROVE  \/ DirsStay
         \/ \E n \in Names : SaveStart(n) \/ DeleteSnapshot(n)
         \/ \E h \in Held : SaveLink(h)
         \/ SaveMeta
PROOF
  <1>0. AllActive /\ dirs \in [Names -> SavedDir \union {None}]
    BY DEF TypeOK, HandlesInv
  <1>1. \A t, j, s, act, pts : Settle(t, j, s, saving, act, pts, dirs) => DirsStay
    BY <1>0, SettleDirs, SettleHeld DEF DirsStay
  <1>2. ASSUME NEW I \in SUBSET tree, StartCompaction(I) PROVE DirsStay
    BY <1>1, <1>2 DEF StartCompaction
  <1>3. ASSUME StartFlush \/ EndFlush \/ StartOutput \/ EndOutput \/ EndCompaction \/ Close
        PROVE  DirsStay
    BY <1>1, <1>3 DEF StartFlush, EndFlush, StartOutput, EndOutput, EndCompaction, Close
  <1>7. ASSUME FlushFail \/ OutputFail PROVE DirsStay
    BY <1>1, <1>7 DEF FlushFail, OutputFail, Abandon
  <1>4. ASSUME NEW s \in SnapIds, Snapshot(s) \/ DropSnapshot(s) \/ Rollback(s)
        PROVE  DirsStay
    BY <1>1, <1>4 DEF Snapshot, DropSnapshot, Rollback
  <1>5. ASSUME Open \/ (\E n \in Names : OpenSnapshot(n)) PROVE DirsStay
    BY <1>1, <1>5 DEF Open, OpenSnapshot, Begin
  <1>6. ASSUME Crash \/ UNCHANGED fvars PROVE DirsStay
    BY <1>6 DEF Crash, fvars, DirsStay
  <1> QED BY <1>2, <1>3, <1>4, <1>5, <1>6, <1>7 DEF Next

LEMMA SavedNext ==
  TypeOK /\ HandlesInv /\ SavedRunsIntact /\ [Next]_fvars => SavedRunsIntact'
PROOF
  <1> SUFFICES ASSUME TypeOK, HandlesInv, SavedRunsIntact, [Next]_fvars,
                      NEW n \in Names, dirs'[n] # None, dirs'[n].meta
               PROVE  dirs'[n].runs \subseteq dirs'[n].files
    BY DEF SavedRunsIntact, Loads
  <1>0. /\ dirs \in [Names -> SavedDir \union {None}] /\ active \subseteq File
        /\ saving # None => saving.name \in Names /\ dirs[saving.name] \in SavedDir
    BY DEF TypeOK, HandlesInv, Saving
  <1>1. CASE DirsStay
    BY <1>1 DEF SavedRunsIntact, Loads, DirsStay
  <1>2. ASSUME NEW m \in Names, SaveStart(m)
        PROVE  dirs'[n].runs \subseteq dirs'[n].files
    BY <1>0, <1>2, DirSteps DEF SavedRunsIntact, Loads, EmptyDir
  <1>3. ASSUME NEW m \in Names, DeleteSnapshot(m)
        PROVE  dirs'[n].runs \subseteq dirs'[n].files
    BY <1>0, <1>3, DirSteps DEF SavedRunsIntact, Loads
  <1>4. ASSUME NEW h \in Held, SaveLink(h)
        PROVE  dirs'[n].runs \subseteq dirs'[n].files
    <2>1. PICK f \in active :
            dirs' = [dirs EXCEPT ![saving.name] =
                       [dirs[saving.name] EXCEPT !.files = @ \union {f}]]
      BY <1>4, DirSteps
    <2> DEFINE r == [dirs[saving.name] EXCEPT !.files = @ \union {f}]
    <2>2. /\ r.runs = dirs[saving.name].runs /\ r.meta = dirs[saving.name].meta
          /\ r.files = dirs[saving.name].files \union {f}
          /\ saving.name \in Names /\ dirs[saving.name] # None
      BY <1>0, <1>4, FilesAssumption DEF SaveLink, SavedDir
    <2> HIDE DEF r
    <2>3. dirs' = [dirs EXCEPT ![saving.name] = r]
      BY <2>1 DEF r
    <2>4. CASE n = saving.name
      <3>1. dirs'[n] = r
        BY <1>0, <2>3, <2>4
      <3> QED BY <2>2, <2>4, <3>1 DEF SavedRunsIntact, Loads
    <2>5. CASE n # saving.name
      BY <1>0, <2>3, <2>5 DEF SavedRunsIntact, Loads
    <2> QED BY <2>4, <2>5
  <1>5. ASSUME SaveMeta
        PROVE  dirs'[n].runs \subseteq dirs'[n].files
    <2> DEFINE r == [dirs[saving.name] EXCEPT !.runs = dirs[saving.name].files,
                                              !.meta = TRUE]
    <2>1. dirs' = [dirs EXCEPT ![saving.name] = r]
      BY <1>5, DirSteps
    <2>2. r.runs = r.files
      BY <1>0, <1>5 DEF SaveMeta, SavedDir
    <2> HIDE DEF r
    <2>3. saving.name \in Names
      BY <1>0, <1>5 DEF SaveMeta
    <2> QED BY <1>0, <2>1, <2>2, <2>3 DEF SavedRunsIntact, Loads
  <1> QED BY <1>1, <1>2, <1>3, <1>4, <1>5, DirsKept

\* A snapshot whose metadata can be loaded has every run the metadata lists,
\* whatever is flushed, compacted, rolled back or dropped, and whatever
\* sessions follow: also when the caller keeps LsmSnapshots after it has
\* dropped the tree (snapshot.rs:129-201, sstable.rs:641-652).
THEOREM SavedRunsStay == Spec => []SavedRunsIntact
PROOF
  <1>1. Init => SavedRunsIntact
    BY DEF Init, SavedRunsIntact, Loads
  <1> QED BY <1>1, HandlesInit, HandlesNext, SavedNext, PTL DEF Spec

---------------------------------------------------------------------------
(* The space of dropped runs.                                              *)

\* What a step does to the handles and to active/.
LEMMA StepHands ==
  ASSUME TypeOK, HandlesInv, [Next]_fvars
  PROVE  \/ Drops /\ open' = open
         \/ Drops /\ Close
         \/ Begins /\ open /\ open'
         \/ (\E f \in Writing : Finishes(f) \/ Abandons(f)) /\ open /\ open'
         \/ OpensOn(active, parts)
         \/ \E n \in Names : Loads(n) /\ OpensOn(dirs[n].runs, {})
         \/ Crash
PROOF
  <1>1. ASSUME NEW I \in SUBSET tree, StartCompaction(I)
        PROVE  Drops /\ open' = open
    BY <1>1, DropSteps DEF StartCompaction
  <1>2. ASSUME StartFlush PROVE Begins /\ open /\ open'
    BY <1>2, WriteSteps DEF StartFlush, Idle
  <1>3. ASSUME StartOutput PROVE (Drops \/ Begins) /\ open' = open /\ open
    BY <1>3, WriteSteps DEF StartOutput, HandlesInv
  <1>4. ASSUME EndCompaction \/ SaveMeta PROVE Drops /\ open' = open
    BY <1>4, DropSteps DEF EndCompaction, SaveMeta
  <1>5. ASSUME NEW s \in SnapIds, Snapshot(s) \/ DropSnapshot(s) \/ Rollback(s)
        PROVE  Drops /\ open' = open
    BY <1>5, DropSteps DEF Snapshot, DropSnapshot, Rollback
  <1>6. ASSUME NEW n \in Names, SaveStart(n) \/ DeleteSnapshot(n)
        PROVE  Drops /\ open' = open
    BY <1>6, DropSteps DEF SaveStart, DeleteSnapshot
  <1>7. ASSUME NEW h \in Held, SaveLink(h)
        PROVE  Drops /\ open' = open
    BY <1>7, DropSteps DEF SaveLink
  <1>8. ASSUME Close PROVE Drops
    BY <1>8, DropSteps
  <1>9. ASSUME NEW n \in Names, OpenSnapshot(n)
        PROVE  Loads(n) /\ OpensOn(dirs[n].runs, {})
    BY <1>9, OpenSteps DEF OpenSnapshot
  <1>10. ASSUME Open PROVE OpensOn(active, parts)
    BY <1>10, OpenSteps
  <1>11. ASSUME UNCHANGED fvars PROVE Drops /\ open' = open
    <2>1. Held' = Held /\ Writing' = Writing
      BY <1>11 DEF fvars, Held, Writing
    <2>2. DeleteFiles(Active, active, {}) = active /\ DeleteFiles(Active, parts, {}) = parts
      BY DEF DeleteFiles
    <2> QED BY <1>11, <2>1, <2>2 DEF fvars, Drops, Leaves
  <1>12. ASSUME EndFlush \/ EndOutput \/ FlushFail \/ OutputFail
         PROVE  (\E f \in Writing : Finishes(f) \/ Abandons(f)) /\ open /\ open'
    <2>1. \E f \in Writing : Finishes(f) \/ Abandons(f)
      BY <1>12, WriteSteps
    <2>2. open' = open /\ Writing # {}
      BY <1>12 DEF EndFlush, EndOutput, FlushFail, OutputFail, Writing
    <2>3. open
      BY <2>2 DEF Writing, HandlesInv, JobInv
    <2> QED BY <2>1, <2>2, <2>3
  <1> QED BY <1>1, <1>2, <1>3, <1>4, <1>5, <1>6, <1>7, <1>8, <1>9, <1>10, <1>11, <1>12
          DEF Next

\* Every file that no handle will delete is of a write that goes on, or of one
\* that failed or was cut off; between sessions, of one of the latter when it
\* is not a whole run.  What deletions have left is of none.
OrphansInv ==
  /\ open => \A f \in active : (\E h \in Held : h.dir = Active /\ h.file = f) \/ f \in strays
  /\ parts \subseteq Writing \union strays
  /\ remains \subseteq strays

LEMMA OrphansNext ==
  TypeOK /\ HandlesInv /\ OrphansInv /\ [Next]_fvars => OrphansInv'
PROOF
  <1> DEFINE Kept(H, f) == \E h \in H : h.dir = Active /\ h.file = f
  <1> SUFFICES ASSUME TypeOK, HandlesInv, OrphansInv, [Next]_fvars PROVE OrphansInv'
    OBVIOUS
  \* A file whose holder was dropped would have gone with it.
  <1>1. ASSUME NEW F, NEW S, active' = DeleteFiles(Active, F, Held \ Held'),
               \A f \in F : Kept(Held, f) \/ Kept(Held', f) \/ f \in S, NEW f \in active'
        PROVE  Kept(Held', f) \/ f \in S
    <2>1. f \in F /\ ~\E h \in Held \ Held' : h.dir = Active /\ h.file.num = f.num
      BY <1>1 DEF DeleteFiles
    <2> QED BY <1>1, <2>1
  <1>2. \A pts, H : DeleteFiles(Active, pts, H) \subseteq pts
    BY DEF DeleteFiles
  <1>3. ASSUME Drops PROVE /\ open => \A f \in active' : Kept(Held', f) \/ f \in strays'
                           /\ parts' \subseteq (Writing \union strays)'
                           /\ remains' \subseteq strays'
    <2>1. /\ active' = DeleteFiles(Active, active, Held \ Held') /\ parts' \subseteq parts
          /\ strays' = strays /\ remains' = remains /\ Writing' = Writing
      BY <1>2, <1>3 DEF Drops, Leaves
    <2>2. open => \A f \in active : Kept(Held, f) \/ Kept(Held', f) \/ f \in strays
      BY DEF OrphansInv
    <2> HIDE DEF Kept
    <2>3. open => \A f \in active' : Kept(Held', f) \/ f \in strays
      BY <1>1, <2>1, <2>2
    <2> QED BY <2>1, <2>3 DEF OrphansInv
  <1>4. CASE Drops /\ open' = open
    BY <1>3, <1>4 DEF OrphansInv
  <1>5. CASE Drops /\ Close
    BY <1>3, <1>5 DEF OrphansInv, Close
  <1>6. CASE Begins /\ open /\ open'
    <2>1. /\ active' = DeleteFiles(Active, active, Held \ Held')
          /\ parts' \subseteq parts \union {NewFile}
          /\ strays' = strays /\ remains' = remains /\ Writing' = Writing \union {NewFile}
      BY <1>2, <1>6 DEF Begins, Leaves
    <2>2. \A f \in active : Kept(Held, f) \/ Kept(Held', f) \/ f \in strays
      BY <1>6 DEF OrphansInv
    <2> HIDE DEF Kept
    <2>3. \A f \in active' : Kept(Held', f) \/ f \in strays
      BY <1>1, <2>1, <2>2
    <2> USE DEF Kept
    <2> QED BY <1>6, <2>1, <2>3 DEF OrphansInv
  <1>7. ASSUME NEW e \in Writing, Finishes(e), open, open' PROVE OrphansInv'
    <2>1. /\ active' = DeleteFiles(Active, active \union {e}, Held \ Held')
          /\ parts' \subseteq parts \ {e}
          /\ strays' = strays /\ remains' = remains /\ Writing \subseteq Writing' \union {e}
      BY <1>2, <1>7 DEF Finishes, Leaves, Ends
    <2>2. Kept(Held', e)
      BY <1>7 DEF Finishes, NewHandle
    <2>3. \A f \in active \union {e} : Kept(Held, f) \/ Kept(Held', f) \/ f \in strays
      BY <1>7, <2>2 DEF OrphansInv
    <2> HIDE DEF Kept
    <2>4. \A f \in active' : Kept(Held', f) \/ f \in strays
      BY <1>1, <2>1, <2>3
    <2> USE DEF Kept
    <2> QED BY <1>7, <2>1, <2>4 DEF OrphansInv
  <1>8. ASSUME NEW e \in Writing, Abandons(e), open, open' PROVE OrphansInv'
    <2>1. PICK act : /\ active' = DeleteFiles(Active, act, Held \ Held')
                     /\ act \subseteq active \union (strays' \intersect {e})
      BY <1>8 DEF Abandons, Leaves
    <2>2. /\ parts' \subseteq parts /\ strays \subseteq strays' /\ remains' = remains
          /\ Writing \subseteq Writing' \union {e}
          /\ e \notin parts' \/ e \in strays'
      BY <1>2, <1>8 DEF Abandons, Leaves, Ends
    <2>3. \A f \in act : Kept(Held, f) \/ Kept(Held', f) \/ f \in strays'
      BY <1>8, <2>1, <2>2 DEF OrphansInv
    <2> HIDE DEF Kept
    <2>4. \A f \in active' : Kept(Held', f) \/ f \in strays'
      BY <1>1, <2>1, <2>3
    <2> USE DEF Kept
    <2> QED BY <1>8, <2>2, <2>4 DEF OrphansInv
  <1>9. ASSUME NEW F, NEW pts \in SUBSET parts, OpensOn(F, pts) PROVE OrphansInv'
    <2>1. /\ active' = DeleteFiles(Active, F, Held \ Held') /\ parts' \subseteq pts
          /\ strays' = strays \intersect (pts \union remains') /\ ~open
          /\ remains' \subseteq remains
      BY <1>2, <1>9 DEF OpensOn
    <2>2. ASSUME NEW f \in F PROVE Kept(Held', f)
      <3> DEFINE l == [dir |-> Active, file |-> f, opened |-> session + 1]
      <3>1. l \in Loaded(F) /\ l.dir = Active /\ l.file = f
        BY <2>2 DEF Loaded
      <3> HIDE DEF l
      <3> QED BY <1>9, <3>1 DEF OpensOn
    <2>3. \A f \in F : Kept(Held, f) \/ Kept(Held', f) \/ f \in strays'
      BY <2>2
    <2> HIDE DEF Kept
    <2>4. \A f \in active' : Kept(Held', f) \/ f \in strays'
      BY <1>1, <2>1, <2>3
    <2> USE DEF Kept
    <2>5. parts \subseteq strays /\ remains \subseteq strays
      BY <2>1 DEF OrphansInv, Writing, HandlesInv, JobInv
    <2> QED BY <2>1, <2>4, <2>5 DEF OrphansInv
  <1>10. CASE Crash
    <2>1. PICK cut : /\ remains' = remains \union cut
                     /\ strays' = strays \union flushing \union job.writing \union cut
      BY <1>10 DEF Crash
    <2> QED BY <1>10, <2>1 DEF Crash, OrphansInv, Writing
  <1> QED BY <1>4, <1>5, <1>6, <1>7, <1>8, <1>9, <1>10, StepHands

\* While a tree is open, every file in active/ has a handle whose last drop
\* deletes it, is of a run that is being written, or of one whose write failed
\* or was cut off, or whose deletion a crash cut off: so the space of compacted, discarded and rolled-back runs is
\* given back, also when LsmSnapshots outlive the tree that made them
\* (sstable.rs:641-652), and of the rest an open keeps only what does not load
\* (lib.rs:543-547).
THEOREM NoFilesLeak == Spec => []NoOrphanFiles
PROOF
  <1>1. Init => OrphansInv
    BY DEF Init, OrphansInv
  <1>2. OrphansInv => NoOrphanFiles
    BY DEF OrphansInv, NoOrphanFiles, Writing
  <1> QED BY <1>1, <1>2, HandlesInit, HandlesNext, OrphansNext, PTL DEF Spec

---------------------------------------------------------------------------
(* The runs of the handles, while no LsmSnapshot outlives its tree.        *)

\* No two of the files have the same number.
NumsDiffer(F) == \A f, g \in F : f.num = g.num => f = g

\* What a set H of handles of session n guarantees on the files F: each one
\* finds its run.
OnFiles(H, F, n) == \A h \in H : h.opened = n /\ h.file \in F

\* Between sessions nothing is held; in one, every handle is the session's own
\* and finds its run; numbers tell the runs in active/ and those being written
\* apart, those a saved snapshot lists too, and the next number is a fresh one; a
\* save has linked runs it holds and no others.
SessionInv ==
  /\ ~open => Held = {}
  /\ OnFiles(Held, active, session)
  /\ NumsDiffer(active \union Writing)
  /\ open => \A f \in active \union Writing : f.num < next_run_number
  /\ \A n \in Names : dirs[n] # None => NumsDiffer(dirs[n].runs)
  /\ saving # None => dirs[saving.name].files \subseteq {h.file : h \in saving.hold}

\* Two handles in one session, on the same file, are the same.
LEMMA SameHandle ==
  ASSUME NEW g \in Handle, NEW h \in Handle,
         g.dir = h.dir, g.opened = h.opened, g.file = h.file
  PROVE  g = h
PROOF
  BY DEF Handle

LEMMA HeldTypes ==
  /\ TypeOK => Held \subseteq Handle
  /\ TypeOK' => Held' \subseteq Handle
PROOF
  <1>1. ASSUME NEW t \in SUBSET Handle, NEW j \in Job,
               NEW s \in [SnapIds -> (SUBSET Handle) \union {None}],
               NEW sv \in Saving \union {None}
        PROVE  HeldBy(t, j, s, sv) \subseteq Handle
    <2>1. SUFFICES ASSUME NEW h \in HeldBy(t, j, s, sv) PROVE h \in Handle
      OBVIOUS
    <2>2. \/ h \in t \/ h \in j.snap \/ h \in j.out
          \/ \E i \in SnapIds : s[i] # None /\ h \in s[i]
          \/ sv # None /\ h \in sv.hold
      BY <2>1, HeldByMember
    <2> QED BY <2>2 DEF Job, Saving
  <1> QED BY <1>1 DEF Held, TypeOK

\* A drop deletes no file that a remaining handle needs: the numbers differ.
LEMMA DropKeeps ==
  ASSUME NEW F, NumsDiffer(F), AllActive, AllActive', NEW n,
         OnFiles(Held, F, n), OnFiles(Held', F, n),
         Held \subseteq Handle, Held' \subseteq Handle,
         active' = DeleteFiles(Active, F, Held \ Held')
  PROVE  OnFiles(Held', active', n) /\ NumsDiffer(active')
PROOF
  <1>1. active' \subseteq F
    BY DEF DeleteFiles
  <1>2. ASSUME NEW h \in Held' PROVE h.file \in active'
    <2>1. SUFFICES ASSUME NEW g \in Held \ Held', g.file.num = h.file.num PROVE FALSE
      BY DEF OnFiles, DeleteFiles
    <2>2. g.file = h.file /\ g.dir = h.dir /\ g.opened = h.opened
      BY <2>1 DEF OnFiles, NumsDiffer, AllActive
    <2>3. g = h
      BY <2>1, <2>2, SameHandle
    <2> QED BY <2>1, <2>3
  <1> QED BY <1>1, <1>2 DEF OnFiles, NumsDiffer

\* The numbers of the runs there leave the number of the next one free.
LEMMA NewNumber ==
  ASSUME NEW F, \A f \in F : f.num \in Nat /\ f.num < next_run_number,
         next_run_number \in Nat, NumsDiffer(F)
  PROVE  /\ NumsDiffer(F \union {NewFile})
         /\ \A f \in F \union {NewFile} : f.num < next_run_number + 1
PROOF
  <1>1. NewFile.num = next_run_number
    BY DEF NewFile
  <1> QED BY <1>1 DEF NumsDiffer

\* What a step that leaves the runs F of active/, and handles on them, and
\* writes the runs W after it, keeps of the numbers and the handles.
LEMMA LeavesSession ==
  ASSUME AllActive, AllActive', Held \subseteq Handle, Held' \subseteq Handle,
         NEW F, NEW pts, Leaves(F, pts), NEW U,
         F \union Writing' \subseteq U, NumsDiffer(U),
         OnFiles(Held, F, session), OnFiles(Held', F, session)
  PROVE  /\ OnFiles(Held', active', session')
         /\ active' \union Writing' \subseteq U
         /\ NumsDiffer(active' \union Writing')
PROOF
  <1>1. NumsDiffer(F)
    BY DEF NumsDiffer
  <1>2. active' = DeleteFiles(Active, F, Held \ Held') /\ session' = session
    BY DEF Leaves
  <1>3. OnFiles(Held', active', session)
    BY <1>1, <1>2, DropKeeps
  <1>4. active' \subseteq F
    BY <1>2 DEF DeleteFiles
  <1> QED BY <1>2, <1>3, <1>4 DEF NumsDiffer

\* The part of SessionInv about active/ and its handles.
ActiveInv ==
  /\ ~open => Held = {}
  /\ OnFiles(Held, active, session)
  /\ NumsDiffer(active \union Writing)
  /\ open => \A f \in active \union Writing : f.num < next_run_number

LEMMA SessionNextActive ==
  ASSUME ~KeepSnapshots, TypeOK, HandlesInv, SessionInv, [Next]_fvars,
         TypeOK', HandlesInv'
  PROVE  ActiveInv'
PROOF
  <1> DEFINE A == active \union Writing
  <1>0. /\ AllActive /\ AllActive' /\ Held \subseteq Handle /\ Held' \subseteq Handle
        /\ next_run_number \in Nat /\ \A f \in A : f.num \in Nat
        /\ A \subseteq File /\ active \subseteq A /\ Writing \subseteq A
    BY HeldTypes, FilesAssumption DEF HandlesInv, TypeOK, File, Nums, Writing, Job
  <1>1. /\ OnFiles(Held, active, session) /\ NumsDiffer(A)
        /\ open => \A f \in A : f.num < next_run_number
    BY DEF SessionInv
  <1> HIDE DEF A
  <1>2. ASSUME Drops
        PROVE  /\ OnFiles(Held', active', session')
               /\ active' \union Writing' \subseteq A
               /\ NumsDiffer(active' \union Writing')
    <2>1. Held' \subseteq Held /\ Leaves(active, parts) /\ Writing' = Writing
      BY <1>2 DEF Drops
    <2>2. OnFiles(Held', active, session) /\ active \union Writing' \subseteq A
      BY <1>0, <1>1, <2>1 DEF OnFiles
    <2> QED BY <1>0, <1>1, <2>1, <2>2, LeavesSession
  <1>3. CASE Drops /\ open' = open
    <2>1. ~open' => Held' = {}
      BY <1>3 DEF Drops, SessionInv
    <2>2. ASSUME open', NEW f \in active' \union Writing' PROVE f.num < next_run_number'
      <3>1. f \in A /\ f.num \in Nat /\ f.num < next_run_number
        BY <1>0, <1>1, <1>2, <1>3, <2>2
      <3>2. next_run_number' \in {next_run_number, next_run_number + 1}
        BY <1>3 DEF Drops
      <3> QED BY <1>0, <3>1, <3>2
    <2> QED BY <1>2, <1>3, <2>1, <2>2 DEF ActiveInv
  <1>4. CASE Drops /\ Close
    <2>1. job.stage = "none" /\ saving = None /\ ~open' /\ \A s \in SnapIds : snaps[s] = None
      BY <1>4 DEF Close, Idle
    <2>2. Held' = HeldBy({}, job, snaps, None)
      BY <2>1, <1>4, SettleHeld DEF Close
    <2>3. job.snap = {} /\ job.out = {}
      BY <2>1 DEF HandlesInv, JobInv
    <2>4. Held' = {}
      BY <2>1, <2>2, <2>3, HeldByMember
    <2> QED BY <1>2, <1>4, <2>1, <2>4 DEF ActiveInv
  <1>5. CASE Begins /\ open /\ open'
    <2> DEFINE U == A \union {NewFile}
    <2>1. NumsDiffer(U) /\ \A f \in U : f.num < next_run_number + 1
      BY <1>0, <1>1, <1>5, NewNumber
    <2>2. /\ Held' \subseteq Held /\ Leaves(active, parts \union {NewFile})
          /\ Writing' = Writing \union {NewFile} /\ next_run_number' = next_run_number + 1
      BY <1>5 DEF Begins
    <2>3. OnFiles(Held', active, session) /\ active \union Writing' \subseteq U
      BY <1>0, <1>1, <2>2 DEF OnFiles
    <2> HIDE DEF U
    <2>4. /\ OnFiles(Held', active', session') /\ active' \union Writing' \subseteq U
          /\ NumsDiffer(active' \union Writing')
      BY <1>0, <1>1, <2>1, <2>2, <2>3, LeavesSession
    <2> QED BY <1>5, <2>1, <2>2, <2>4 DEF ActiveInv
  <1>6. ASSUME NEW e \in Writing, NEW F, NEW pts, Leaves(F, pts),
               active \subseteq F, F \subseteq active \union {e}, Writing' \subseteq Writing,
               Held' \subseteq Held \union {NewHandle(e)},
               NewHandle(e) \in Held' => e \in F,
               next_run_number' = next_run_number, open, open'
        PROVE  ActiveInv'
    <2>1. F \union Writing' \subseteq A
      BY <1>0, <1>6
    <2>2. NewHandle(e).opened = session /\ NewHandle(e).file = e
      BY DEF NewHandle
    <2>3. OnFiles(Held, F, session) /\ OnFiles(Held', F, session)
      BY <1>1, <1>6, <2>2 DEF OnFiles
    <2>4. /\ OnFiles(Held', active', session') /\ active' \union Writing' \subseteq A
          /\ NumsDiffer(active' \union Writing')
      BY <1>0, <1>1, <1>6, <2>1, <2>3, LeavesSession
    <2> QED BY <1>1, <1>6, <2>4 DEF ActiveInv
  <1>7. ASSUME NEW e \in Writing, Finishes(e), open, open' PROVE ActiveInv'
    <2>1. /\ Leaves(active \union {e}, parts \ {e}) /\ Held' \subseteq Held \union {NewHandle(e)}
          /\ Writing' \subseteq Writing /\ next_run_number' = next_run_number
      BY <1>7 DEF Finishes, Ends
    <2> QED BY <1>6, <1>7, <2>1
  <1>8. ASSUME NEW e \in Writing, Abandons(e), open, open' PROVE ActiveInv'
    <2>1. PICK F, pts : Leaves(F, pts) /\ active \subseteq F /\ F \subseteq active \union {e}
      BY <1>8 DEF Abandons
    <2>2. /\ Held' \subseteq Held /\ Writing' \subseteq Writing
          /\ next_run_number' = next_run_number
      BY <1>8 DEF Abandons, Ends
    \* A handle on the run that failed, were there one already, would find it.
    <2>3. NewHandle(e) \in Held' => e \in F
      BY <1>1, <2>1, <2>2 DEF OnFiles, NewHandle
    <2> QED BY <1>6, <1>8, <2>1, <2>2, <2>3
  <1>9. ASSUME NEW F \in SUBSET File, NEW pts \in SUBSET File, NumsDiffer(F), OpensOn(F, pts)
        PROVE  ActiveInv'
    <2>1. Held = {} /\ session' = session + 1 /\ Held' \subseteq Loaded(F) /\ open' /\ ~open
      BY <1>9 DEF OpensOn, SessionInv
    <2>2. OnFiles(Held', F, session')
      BY <2>1 DEF OnFiles, Loaded
    <2>3. active' = F
      BY <1>9, <2>1 DEF OpensOn, DeleteFiles
    <2>4. Writing' = {}
      BY <1>9, <2>1 DEF OpensOn, HandlesInv, JobInv, Writing
    <2>5. \A f \in F : f.num \in Nat /\ f.num <= MaxNumber(F \union pts)
      BY MaxNumberBounds, FilesAssumption DEF File, Nums
    <2>6. MaxNumber(F \union pts) \in Nat /\ next_run_number' = MaxNumber(F \union pts) + 1
      <3>1. F \union pts \in SUBSET File
        OBVIOUS
      <3>2. MaxNumber(F \union pts) \in 0 .. MaxRun + 1
        BY <3>1, MaxNumberBounds
      <3> QED BY <1>9, <3>2, FilesAssumption DEF OpensOn
    <2>7. active' \union Writing' = F /\ NumsDiffer(active' \union Writing')
      BY <1>9, <2>3, <2>4
    <2>8. \A f \in F : f.num < next_run_number'
      <3>1. PICK m \in Nat : m = MaxNumber(F \union pts)
        BY <2>6
      <3>2. next_run_number' = m + 1 /\ \A f \in F : f.num \in Nat /\ f.num <= m
        BY <2>5, <2>6, <3>1
      <3> QED BY <3>2
    <2> QED BY <2>1, <2>2, <2>3, <2>7, <2>8 DEF ActiveInv
  <1>10. ASSUME OpensOn(active, parts) PROVE ActiveInv'
    <2>1. NumsDiffer(active) /\ active \in SUBSET File /\ parts \in SUBSET File
      BY <1>0, <1>1 DEF NumsDiffer, TypeOK
    <2> QED BY <1>9, <1>10, <2>1
  <1>11. ASSUME NEW n \in Names, Loads(n), OpensOn(dirs[n].runs, {}) PROVE ActiveInv'
    <2>1. dirs[n].runs \in SUBSET File /\ NumsDiffer(dirs[n].runs)
      BY <1>11 DEF SessionInv, Loads, TypeOK, SavedDir
    <2> QED BY <1>9, <1>11, <2>1
  <1>12. CASE Crash
    <2>1. Held' = {}
      BY <1>12, HeldByMember DEF Held, Crash, NoJob
    <2>2. active' \subseteq active /\ Writing' = {} /\ ~open'
      BY <1>12 DEF Crash, Writing, NoJob
    <2>3. NumsDiffer(active' \union Writing')
      BY <1>0, <1>1, <2>2 DEF NumsDiffer
    <2> QED BY <2>1, <2>2, <2>3 DEF OnFiles, ActiveInv
  <1> QED BY <1>3, <1>4, <1>5, <1>7, <1>8, <1>10, <1>11, <1>12, StepHands

\* The part of SessionInv about snapshots/.
LEMMA SessionNextDirs ==
  ASSUME TypeOK, HandlesInv, SessionInv, [Next]_fvars
  PROVE  /\ \A n \in Names : dirs'[n] # None => NumsDiffer(dirs'[n].runs)
         /\ saving' # None => dirs'[saving'.name].files \subseteq {h.file : h \in saving'.hold}
PROOF
  <1> DEFINE Goal == /\ \A n \in Names : dirs'[n] # None => NumsDiffer(dirs'[n].runs)
                     /\ saving' # None => dirs'[saving'.name].files
                                            \subseteq {h.file : h \in saving'.hold}
  <1>0. /\ dirs \in [Names -> SavedDir \union {None}] /\ active \in SUBSET File
        /\ saving # None => saving \in Saving /\ saving.name \in Names
                            /\ dirs[saving.name] \in SavedDir
    BY DEF TypeOK, HandlesInv, Saving
  <1>1. ASSUME DirsStay PROVE Goal
    BY <1>1 DEF SessionInv, DirsStay
  <1>2. ASSUME NEW m \in Names, SaveStart(m) PROVE Goal
    <2> DEFINE v == [name |-> m, hold |-> tree, left |-> tree]
    <2>1. PICK d : Settle(tree, job, snaps, v, active, parts, d)
      BY <1>2 DEF SaveStart
    <2>2. saving' = v
      BY <2>1, SettleHeld
    <2>3. dirs' = [dirs EXCEPT ![m] = EmptyDir]
      BY <1>2, DirSteps
    <2>4. EmptyDir.files = {} /\ EmptyDir.runs = {} /\ NumsDiffer({})
      BY DEF EmptyDir, NumsDiffer
    <2>5. saving'.name = m
      BY <2>2
    <2> HIDE DEF v
    <2> QED BY <1>0, <2>3, <2>4, <2>5 DEF SessionInv
  <1>3. ASSUME NEW m \in Names, DeleteSnapshot(m) PROVE Goal
    <2>1. saving = None /\ dirs' = [dirs EXCEPT ![m] = None]
      BY <1>3, DirSteps DEF DeleteSnapshot, Idle
    <2>2. saving' = saving
      BY <1>3, SettleHeld DEF DeleteSnapshot
    <2> QED BY <1>0, <2>1, <2>2 DEF SessionInv
  <1>4. ASSUME NEW h \in Held, SaveLink(h) PROVE Goal
    <2> DEFINE v == [saving EXCEPT !.left = @ \ {h}]
    <2>1. PICK d : Settle(tree, job, snaps, v, active, parts, d)
      BY <1>4 DEF SaveLink
    <2>2. /\ saving' = v /\ v.hold = saving.hold /\ v.name = saving.name
          /\ saving # None /\ h \in saving.hold
      BY <1>0, <1>4, <2>1, SettleHeld DEF SaveLink, Saving, HandlesInv
    <2>3. PICK f \in active :
            /\ f.num = h.file.num
            /\ dirs' = [dirs EXCEPT ![saving.name] =
                          [dirs[saving.name] EXCEPT !.files = @ \union {f}]]
      BY <1>4, DirSteps
    \* The file found under the number is the one the handle is for.
    <2>4. f = h.file
      BY <2>3 DEF SessionInv, OnFiles, NumsDiffer
    <2> DEFINE r == [dirs[saving.name] EXCEPT !.files = @ \union {f}]
    <2>5. r.files = dirs[saving.name].files \union {f} /\ r.runs = dirs[saving.name].runs
      BY <1>0, <2>2 DEF SavedDir
    <2>6. dirs' = [dirs EXCEPT ![saving.name] = r]
      BY <2>3
    <2> HIDE DEF r, v
    <2>7. dirs'[saving.name] = r /\ \A n \in Names : n # saving.name => dirs'[n] = dirs[n]
      BY <1>0, <2>2, <2>6
    <2>8. r.files \subseteq {g.file : g \in saving.hold}
      BY <2>2, <2>4, <2>5 DEF SessionInv
    <2>9. NumsDiffer(r.runs)
      BY <1>0, <2>2, <2>5, FilesAssumption DEF SessionInv
    <2> QED BY <2>2, <2>7, <2>8, <2>9 DEF SessionInv
  <1>5. ASSUME SaveMeta PROVE Goal
    <2> DEFINE r == [dirs[saving.name] EXCEPT !.runs = dirs[saving.name].files,
                                              !.meta = TRUE]
    <2>1. dirs' = [dirs EXCEPT ![saving.name] = r]
      BY <1>5, DirSteps
    <2>2. saving' = None /\ saving # None
      BY <1>5, SettleHeld DEF SaveMeta
    <2>3. r.runs = dirs[saving.name].files
      BY <1>0, <2>2 DEF SavedDir
    <2> HIDE DEF r
    <2>4. dirs'[saving.name] = r /\ \A n \in Names : n # saving.name => dirs'[n] = dirs[n]
      BY <1>0, <2>1, <2>2
    \* The runs listed are those of some of the handles the save holds.
    <2>5. saving.hold \subseteq Held /\ r.runs \subseteq {g.file : g \in saving.hold}
      BY <2>2, <2>3, HeldParts DEF SessionInv
    <2>6. r.runs \subseteq active
      BY <2>5 DEF SessionInv, OnFiles
    <2>7. NumsDiffer(r.runs)
      BY <2>6 DEF SessionInv, NumsDiffer
    <2> QED BY <2>2, <2>4, <2>7 DEF SessionInv
  <1> HIDE DEF Goal
  <1>6. Goal
    BY <1>1, <1>2, <1>3, <1>4, <1>5, DirsKept
  <1> QED BY <1>6 DEF Goal

LEMMA SessionNext ==
  ~KeepSnapshots /\ TypeOK /\ HandlesInv /\ SessionInv /\ [Next]_fvars => SessionInv'
PROOF
  BY HandlesNext, SessionNextActive, SessionNextDirs DEF SessionInv, ActiveInv

LEMMA SessionInit == Init => SessionInv
PROOF
  <1> SUFFICES ASSUME Init PROVE SessionInv
    OBVIOUS
  <1>1. Held = {}
    BY HeldByMember DEF Init, Held, NoJob
  <1> QED BY <1>1 DEF Init, SessionInv, OnFiles, NumsDiffer, Writing, NoJob

\* Whoever holds a handle can read the run: no compaction, rollback, drop or
\* save takes away the files a level, a LsmSnapshot or a compaction still
\* reads, and no later session takes their numbers.  The caller drops its
\* LsmSnapshots before the tree (sstable.rs:253-255, 641-652).
THEOREM HeldRunsStayReadable == ~KeepSnapshots => (Spec => []HeldRunsReadable)
PROOF
  <1> SUFFICES ASSUME ~KeepSnapshots PROVE Spec => []HeldRunsReadable
    OBVIOUS
  <1>1. SessionInv => HeldRunsReadable
    BY DEF SessionInv, HeldRunsReadable, OnFiles
  <1>2. TypeOK /\ HandlesInv /\ SessionInv /\ [Next]_fvars => SessionInv'
    BY SessionNext
  <1> QED BY <1>1, <1>2, HandlesInit, HandlesNext, SessionInit, PTL DEF Spec

\* save_snapshot finds every run it has cloned under its number in active/
\* while compactions replace runs, and links the cloned runs and no other
\* (lib.rs:1297-1301, snapshot.rs:129-201).
THEOREM SavesFindTheirRuns == ~KeepSnapshots => (Spec => []SaveFindsItsRuns)
PROOF
  <1> SUFFICES ASSUME ~KeepSnapshots PROVE Spec => []SaveFindsItsRuns
    OBVIOUS
  <1>1. TypeOK /\ HandlesInv /\ SessionInv => SaveFindsItsRuns
    <2> SUFFICES ASSUME TypeOK, HandlesInv, SessionInv, saving # None PROVE SaveFindsItsRuns
      BY DEF SaveFindsItsRuns
    <2>1. saving.left \subseteq Held
      BY HeldParts DEF HandlesInv
    <2> QED BY <2>1 DEF SaveFindsItsRuns, SessionInv, OnFiles
  <1>2. TypeOK /\ HandlesInv /\ SessionInv /\ [Next]_fvars => SessionInv'
    BY SessionNext
  <1> QED BY <1>1, <1>2, HandlesInit, HandlesNext, SessionInit, PTL DEF Spec
=============================================================================
