------------------------------ MODULE LsmTree ------------------------------
(* The tree of lib.rs: the caller's thread, which owns &mut self, and the  *)
(* background compaction thread, which shares the levels, the run counter, *)
(* the generation, the credits and the compaction signal with it.  A step  *)
(* is what happens under one lock or one atomic operation.                 *)
EXTENDS LsmRuns

CONSTANTS
  MemtableSize,    \* config.memtable_size, in bytes
  MergeBatch,      \* config.merge_batch_size, in entries
  StallMult,       \* back-pressure starts above StallMult * L0Trigger; 4
  ResumeMult,      \* and ends at ResumeMult * L0Trigger; 2
  SnapIds, None,
  Calls,           \* the optional calls this caller makes
  Faults,          \* the I/O errors that may happen
  MaxRun,          \* bound: calls that may write a run start up to this number
  MaxGen           \* bound: rollbacks per session

OptionalCalls ==
  {"insert_batch", "delete", "delete_batch", "compact", "compact_all",
   "rollback", "save_snapshot"}
OptionalFaults == {"flush", "compaction"}

ASSUME TreeAssumption ==
  /\ MemtableSize \in Nat /\ MergeBatch \in Nat
  /\ StallMult \in Nat /\ ResumeMult \in Nat /\ ResumeMult <= StallMult
  /\ None \notin [memtable : Data, levels : [Levels -> Seq(Run)]]
  /\ None \notin Run /\ None \notin Data
  /\ Calls \subseteq OptionalCalls
  /\ Faults \subseteq OptionalFaults
  /\ MaxRun \in Nat /\ MaxGen \in Nat

VARIABLES
  memtable,        \* entries of the memtable
  levels,          \* levels[l] is the Vec of runs of level l
  next_run_number,
  generation,      \* compaction_generation
  credits,         \* merge_credits
  should_run,      \* CompactionSignal
  shutdown,
  pc,              \* where each thread is
  job,             \* the run_compaction call of each thread
  flight,          \* the run flush_memtable is writing, or None
  stall,           \* l0_len, read at the push, asks for back-pressure
  flush_ret,       \* where the caller goes on after flush_memtable
  snapshots,       \* the LsmSnapshots the caller holds
  found,           \* the runs the session started with (history)
  left             \* in active/, and no handle's: whole runs, and the highest
                   \* number of a run that is not whole, or 0

vars == <<memtable, levels, next_run_number, generation, credits, should_run,
          shutdown, pc, job, flight, stall, flush_ret, snapshots, found, left>>

Threads == {"user", "bg"}

LevelMap == [Levels -> Seq(Run)]
TreeSnapshot == [memtable : Data, levels : LevelMap]

\* Stages of run_compaction: it is about to load the generation, to clone the
\* levels, to merge, or to write back.
Job == [stage : {"none", "load", "clone", "merge", "write"},
        gen : Nat, snap : LevelMap, src : 0 .. MaxLevel - 1, out : Run \union {None}]
NoJob == [stage |-> "none", gen |-> 0, snap |-> NoRuns, src |-> 0, out |-> None]
NewJob == [stage |-> "load", gen |-> 0, snap |-> NoRuns, src |-> 0, out |-> None]

UserPc == {"idle", "push", "credit", "signal", "stall", "link", "compacting",
           "merge_all", "write_all", "joining", "closed"}
BgPc == {"wait", "compacting", "credit", "exit"}

NothingLeft == [runs |-> {}, torn |-> 0]

ThreadsAt(u, b) == [t \in Threads |-> IF t = "user" THEN u ELSE b]

TypeOK ==
  /\ memtable \in Data
  /\ levels \in LevelMap
  /\ next_run_number \in Nat
  /\ generation \in Nat
  /\ credits \in Nat
  /\ should_run \in BOOLEAN
  /\ shutdown \in BOOLEAN
  /\ pc \in [Threads -> UserPc \union BgPc]
  /\ job \in [Threads -> Job]
  /\ flight \in Run \union {None}
  /\ stall \in BOOLEAN
  /\ flush_ret \in {"idle", "link"}
  /\ snapshots \in [SnapIds -> TreeSnapshot \union {None}]
  /\ found \in SUBSET Run
  /\ left \in [runs : SUBSET Run, torn : Nat]

\* LsmTree::open on an empty directory.
Init ==
  /\ memtable = EmptyData
  /\ levels = NoRuns
  /\ next_run_number = 1
  /\ generation = 0
  /\ credits = 0
  /\ should_run = FALSE
  /\ shutdown = FALSE
  /\ pc = ThreadsAt("idle", "wait")
  /\ job = [t \in Threads |-> NoJob]
  /\ flight = None
  /\ stall = FALSE
  /\ flush_ret = "idle"
  /\ snapshots = [s \in SnapIds |-> None]
  /\ found = {}
  /\ left = NothingLeft

---------------------------------------------------------------------------
(* Writes and flush_memtable.                                              *)

Idle == pc["user"] = "idle"
UserGoto(p) == pc' = [pc EXCEPT !["user"] = p]

\* The swap, the empty check and the allocation of the run number; the run is
\* written before the next step, push.
StartFlush(m, ret) ==
  /\ memtable' = EmptyData
  /\ flush_ret' = ret
  /\ IF Present(m) = {}
       THEN UserGoto(ret) /\ UNCHANGED <<flight, next_run_number>>
       ELSE /\ flight' = [num |-> next_run_number, level |-> 0, data |-> m]
            /\ next_run_number' = next_run_number + 1
            /\ UserGoto("push")

\* The common end of the four write calls: m is the memtable after the write.
WriteMemtable(m) ==
  /\ Idle
  /\ next_run_number <= MaxRun
  /\ IF SizeBytes(m) >= MemtableSize
       THEN StartFlush(m, "idle")
       ELSE /\ memtable' = m
            /\ UNCHANGED <<pc, flight, flush_ret, next_run_number>>
  /\ UNCHANGED <<levels, generation, credits, should_run, shutdown, job, stall,
                 snapshots, found, left>>

Insert(k, v) == WriteMemtable([memtable EXCEPT ![k] = v])

InsertBatch(S, w) ==
  /\ "insert_batch" \in Calls
  /\ S # {}
  /\ WriteMemtable([k \in Keys |-> IF k \in S THEN w[k] ELSE memtable[k]])

Delete(k) ==
  /\ "delete" \in Calls
  /\ WriteMemtable([memtable EXCEPT ![k] = Tombstone])

DeleteBatch(S) ==
  /\ "delete_batch" \in Calls
  /\ S # {}
  /\ WriteMemtable([k \in Keys |-> IF k \in S THEN Tombstone ELSE memtable[k]])

\* finish fails at one of its system calls and returns no handle, so nothing
\* deletes what it has written: no file, some, or, when only the last sync of the
\* directory failed, all five.
LeaveBehind(r) ==
  \/ UNCHANGED left
  \/ left' = [left EXCEPT !.torn = Max({@, r.num})]
  \/ left' = [left EXCEPT !.runs = @ \union {r}]

\* Writing the run fails: flush_memtable returns the error and drops the
\* memtable it had swapped out.
FlushFail ==
  /\ "flush" \in Faults
  /\ pc["user"] = "push"
  /\ flight' = None
  /\ LeaveBehind(flight)
  /\ UserGoto("idle")
  /\ UNCHANGED <<memtable, levels, next_run_number, generation, credits,
                 should_run, shutdown, job, stall, flush_ret, snapshots, found>>

\* Mutant of FlushPush: levels[0].insert(0, handle).
FlushPushFront ==
  /\ pc["user"] = "push"
  /\ levels' = [levels EXCEPT ![0] = <<flight>> \o @]
  /\ stall' = (Len(levels[0]) + 1 > StallMult * L0Trigger)
  /\ UserGoto("credit")
  /\ UNCHANGED <<memtable, next_run_number, generation, credits, should_run,
                 shutdown, job, flight, flush_ret, snapshots, found, left>>

\* levels[0].push(handle); l0_len is read under the same lock.
FlushPush ==
  /\ pc["user"] = "push"
  /\ levels' = [levels EXCEPT ![0] = Append(@, flight)]
  /\ stall' = (Len(levels[0]) + 1 > StallMult * L0Trigger)
  /\ UserGoto("credit")
  /\ UNCHANGED <<memtable, next_run_number, generation, credits, should_run,
                 shutdown, job, flight, flush_ret, snapshots, found, left>>

FlushCredit ==
  /\ pc["user"] = "credit"
  /\ credits' = credits + NumEntries(flight)
  /\ UserGoto("signal")
  /\ UNCHANGED <<memtable, levels, next_run_number, generation, should_run,
                 shutdown, job, flight, stall, flush_ret,
                 snapshots, found, left>>

\* Mutant of FlushSignal: no back-pressure.
FlushSignalNoStall ==
  /\ pc["user"] = "signal"
  /\ should_run' = TRUE
  /\ flight' = None
  /\ UserGoto(flush_ret)
  /\ stall' = FALSE
  /\ UNCHANGED <<memtable, levels, next_run_number, generation, credits,
                 shutdown, job, flush_ret, snapshots, found, left>>

\* should_run = true and notify_one, under the signal's mutex.
FlushSignal ==
  /\ pc["user"] = "signal"
  /\ should_run' = TRUE
  /\ flight' = None
  /\ UserGoto(IF stall THEN "stall" ELSE flush_ret)
  /\ stall' = FALSE
  /\ UNCHANGED <<memtable, levels, next_run_number, generation, credits,
                 shutdown, job, flush_ret, snapshots, found, left>>

\* One turn of the back-pressure loop: sleep 100 ms and read L0 again.
FlushPoll ==
  /\ pc["user"] = "stall"
  /\ Len(levels[0]) > ResumeMult * L0Trigger
  /\ UNCHANGED vars

\* The back-pressure loop ends.
FlushResume ==
  /\ pc["user"] = "stall"
  /\ Len(levels[0]) <= ResumeMult * L0Trigger
  /\ UserGoto(flush_ret)
  /\ UNCHANGED <<memtable, levels, next_run_number, generation, credits,
                 should_run, shutdown, job, flight, stall, flush_ret,
                 snapshots, found, left>>

Flush ==
  FlushFail \/ FlushPush \/ FlushCredit \/ FlushSignal \/ FlushPoll \/ FlushResume

---------------------------------------------------------------------------
(* run_compaction, called by LsmTree::compact in the caller's thread and   *)
(* by the background thread.                                               *)

\* Where thread t goes when run_compaction returns.
Return(t) ==
  /\ pc' = [pc EXCEPT ![t] = IF t = "user" THEN "idle" ELSE "credit"]
  /\ job' = [job EXCEPT ![t] = NoJob]

InStage(t, s) == pc[t] = "compacting" /\ job[t].stage = s

LoadGeneration(t) ==
  /\ InStage(t, "load")
  /\ job' = [job EXCEPT ![t].stage = "clone", ![t].gen = generation]
  /\ UNCHANGED <<memtable, levels, next_run_number, generation, credits,
                 should_run, shutdown, pc, flight, stall, flush_ret,
                 snapshots, found, left>>

\* Clone the levels under the read lock and select the job from the clone.
CloneAndSelect(t) ==
  /\ InStage(t, "clone")
  /\ \/ /\ SelectLevel(levels) = {}
        /\ Return(t)
     \/ \E l \in SelectLevel(levels) :
          /\ job' = [job EXCEPT ![t].stage = "merge", ![t].snap = levels, ![t].src = l]
          /\ UNCHANGED pc
  /\ UNCHANGED <<memtable, levels, next_run_number, generation, credits,
                 should_run, shutdown, flight, stall, flush_ret,
                 snapshots, found, left>>

\* The run compact_levels writes, None when no entry is left.
OutputRun(l, d) ==
  IF Present(d) = {} THEN None ELSE [num |-> next_run_number, level |-> l, data |-> d]
MergedRun(j) == OutputRun(j.src + 1, CompactLevels(j.snap, j.src))

\* Allocate the run number and write the merged run.
Merge(t) ==
  /\ InStage(t, "merge")
  /\ job' = [job EXCEPT ![t].stage = "write", ![t].out = MergedRun(job[t])]
  /\ next_run_number' = next_run_number + 1
  /\ UNCHANGED <<memtable, levels, generation, credits, should_run, shutdown,
                 pc, flight, stall, flush_ret, snapshots, found, left>>

\* Reading an input fails, or writing the output; the number is used up.
FailedMerge(t, r) ==
  /\ "compaction" \in Faults
  /\ next_run_number' = next_run_number + 1
  /\ IF r = None THEN UNCHANGED left ELSE LeaveBehind(r)
  /\ Return(t)
  /\ UNCHANGED <<memtable, levels, generation, credits, should_run, shutdown,
                 flight, stall, flush_ret, snapshots, found>>

MergeFail(t) == InStage(t, "merge") /\ FailedMerge(t, MergedRun(job[t]))

\* Removing indices n-1 down to 0, each only if it is still in range.
DropFirst(s, n) == SubSeq(s, n + 1, Len(s))

\* The levels after the write-back of job j.
Applied(lv, j) ==
  LET src == j.src
      tgt == j.src + 1
      cut == [lv EXCEPT ![src] = DropFirst(@, Len(j.snap[src]))]
  IN  IF j.out = None THEN cut
      ELSE [cut EXCEPT ![tgt] = IF tgt = MaxLevel THEN <<j.out>> ELSE Append(@, j.out)]

\* The write-back, under the levels write lock: discarded when a rollback has
\* moved the generation on.
WriteBack(t) ==
  /\ InStage(t, "write")
  /\ levels' = IF generation = job[t].gen THEN Applied(levels, job[t]) ELSE levels
  /\ Return(t)
  /\ UNCHANGED <<memtable, next_run_number, generation, credits, should_run,
                 shutdown, flight, stall, flush_ret, snapshots, found, left>>

RunCompaction(t) ==
  LoadGeneration(t) \/ CloneAndSelect(t) \/ Merge(t) \/ MergeFail(t) \/ WriteBack(t)

---------------------------------------------------------------------------
(* The background thread: background_compact_loop.                         *)

\* Mutant of BgWake: credits alone start a compaction.
BgWakeCreditsOnly ==
  /\ pc["bg"] = "wait"
  /\ should_run /\ ~shutdown
  /\ should_run' = FALSE
  /\ IF credits >= MergeBatch
       THEN /\ pc' = [pc EXCEPT !["bg"] = "compacting"]
            /\ job' = [job EXCEPT !["bg"] = NewJob]
       ELSE UNCHANGED <<pc, job>>
  /\ UNCHANGED <<memtable, levels, next_run_number, generation, credits,
                 shutdown, flight, stall, flush_ret, snapshots, found, left>>

\* Woken by the signal: take it, and compact on enough credits or L0 files.
BgWake ==
  /\ pc["bg"] = "wait"
  /\ should_run /\ ~shutdown
  /\ should_run' = FALSE
  /\ IF credits >= MergeBatch \/ Len(levels[0]) >= L0Trigger
       THEN /\ pc' = [pc EXCEPT !["bg"] = "compacting"]
            /\ job' = [job EXCEPT !["bg"] = NewJob]
       ELSE UNCHANGED <<pc, job>>
  /\ UNCHANGED <<memtable, levels, next_run_number, generation, credits,
                 shutdown, flight, stall, flush_ret, snapshots, found, left>>

\* Mutant of BgCredit: the subtraction does not saturate.
BgCreditPlain ==
  /\ pc["bg"] = "credit"
  /\ credits' = credits - MergeBatch
  /\ pc' = [pc EXCEPT !["bg"] = "wait"]
  /\ UNCHANGED <<memtable, levels, next_run_number, generation, should_run,
                 shutdown, job, flight, stall, flush_ret,
                 snapshots, found, left>>

\* Pay for the round, error or not: saturating_sub.
BgCredit ==
  /\ pc["bg"] = "credit"
  /\ credits' = IF credits >= MergeBatch THEN credits - MergeBatch ELSE 0
  /\ pc' = [pc EXCEPT !["bg"] = "wait"]
  /\ UNCHANGED <<memtable, levels, next_run_number, generation, should_run,
                 shutdown, job, flight, stall, flush_ret,
                 snapshots, found, left>>

\* Mutant of BgExit: `continue` for `return`.
BgExitContinue ==
  /\ pc["bg"] = "wait"
  /\ shutdown
  /\ UNCHANGED vars

BgExit ==
  /\ pc["bg"] = "wait"
  /\ shutdown
  /\ pc' = [pc EXCEPT !["bg"] = "exit"]
  /\ UNCHANGED <<memtable, levels, next_run_number, generation, credits,
                 should_run, shutdown, job, flight, stall, flush_ret,
                 snapshots, found, left>>

Background == RunCompaction("bg") \/ BgWake \/ BgCredit \/ BgExit

---------------------------------------------------------------------------
(* Manual compaction in the caller's thread.                               *)

Compact ==
  /\ "compact" \in Calls
  /\ Idle
  /\ next_run_number <= MaxRun
  /\ UserGoto("compacting")
  /\ job' = [job EXCEPT !["user"] = NewJob]
  /\ UNCHANGED <<memtable, levels, next_run_number, generation, credits,
                 should_run, shutdown, flight, stall, flush_ret,
                 snapshots, found, left>>

\* compact_all: clone every run (nothing to do when there is none) ...
CompactAll ==
  /\ "compact_all" \in Calls
  /\ Idle
  /\ next_run_number <= MaxRun
  /\ AllRuns(levels) # {}
  /\ UserGoto("merge_all")
  /\ job' = [job EXCEPT !["user"].snap = levels]
  /\ UNCHANGED <<memtable, levels, next_run_number, generation, credits,
                 should_run, shutdown, flight, stall, flush_ret,
                 snapshots, found, left>>

MergedAll == OutputRun(0, CompactAllRuns(job["user"].snap))

\* Mutant of MergeAll: the number is read and not incremented.
MergeAllSameNumber ==
  /\ pc["user"] = "merge_all"
  /\ job' = [job EXCEPT !["user"].out = MergedAll]
  /\ UserGoto("write_all")
  /\ UNCHANGED <<memtable, levels, next_run_number, generation, credits,
                 should_run, shutdown, flight, stall, flush_ret,
                 snapshots, found, left>>

\* ... write their merge, a run whose level field is 0 ...
MergeAll ==
  /\ pc["user"] = "merge_all"
  /\ job' = [job EXCEPT !["user"].out = MergedAll]
  /\ next_run_number' = next_run_number + 1
  /\ UserGoto("write_all")
  /\ UNCHANGED <<memtable, levels, generation, credits, should_run, shutdown,
                 flight, stall, flush_ret, snapshots, found, left>>

MergeAllFail == pc["user"] = "merge_all" /\ FailedMerge("user", MergedAll)

\* ... and replace all levels by it.
WriteAll ==
  /\ pc["user"] = "write_all"
  /\ levels' = [NoRuns EXCEPT ![MaxLevel] =
                  IF job["user"].out = None THEN <<>> ELSE <<job["user"].out>>]
  /\ Return("user")
  /\ UNCHANGED <<memtable, next_run_number, generation, credits, should_run,
                 shutdown, flight, stall, flush_ret, snapshots, found, left>>

ManualCompaction ==
  \/ Compact \/ RunCompaction("user")
  \/ CompactAll \/ MergeAll \/ MergeAllFail \/ WriteAll

---------------------------------------------------------------------------
(* Snapshots, rollback, save_snapshot, close and open.                     *)

Snapshot(s) ==
  /\ "rollback" \in Calls
  /\ Idle
  /\ snapshots' = [snapshots EXCEPT ![s] = [memtable |-> memtable, levels |-> levels]]
  /\ UNCHANGED <<memtable, levels, next_run_number, generation, credits,
                 should_run, shutdown, pc, job, flight, stall, flush_ret, found, left>>

\* Mutant of Rollback: the generation is not bumped.
RollbackSameGeneration(s) ==
  /\ Idle
  /\ snapshots[s] # None
  /\ memtable' = snapshots[s].memtable
  /\ levels' = snapshots[s].levels
  /\ UNCHANGED <<next_run_number, generation, credits, should_run, shutdown,
                 pc, job, flight, stall, flush_ret, snapshots, found, left>>

\* sequence_number stays 0 in every tree and snapshot of a session, so the
\* "future snapshot" test never rejects.  The levels and the generation change
\* under one lock; the memtable is seen by the caller's thread alone.
Rollback(s) ==
  /\ Idle
  /\ snapshots[s] # None
  /\ generation < MaxGen
  /\ memtable' = snapshots[s].memtable
  /\ levels' = snapshots[s].levels
  /\ generation' = generation + 1
  /\ UNCHANGED <<next_run_number, credits, should_run, shutdown, pc, job,
                 flight, stall, flush_ret, snapshots, found, left>>

\* save_snapshot flushes first, however small the memtable is.
SaveSnapshot ==
  /\ "save_snapshot" \in Calls
  /\ Idle
  /\ next_run_number <= MaxRun
  /\ StartFlush(memtable, "link")
  /\ UNCHANGED <<levels, generation, credits, should_run, shutdown, job, stall,
                 snapshots, found, left>>

\* PersistentSnapshot::create links the runs of the levels and leaves the tree
\* as it is.
Link ==
  /\ pc["user"] = "link"
  /\ UserGoto("idle")
  /\ UNCHANGED <<memtable, levels, next_run_number, generation, credits,
                 should_run, shutdown, job, flight, stall, flush_ret,
                 snapshots, found, left>>

\* Drop for LsmTree: ask the thread to stop and join it.
Drop ==
  /\ Idle
  /\ shutdown' = TRUE
  /\ UserGoto("joining")
  /\ UNCHANGED <<memtable, levels, next_run_number, generation, credits,
                 should_run, job, flight, stall, flush_ret,
                 snapshots, found, left>>

\* The volatile state at a session's start, or of no session at all.
Session(lv, next, p) ==
  /\ memtable' = EmptyData
  /\ levels' = lv
  /\ next_run_number' = next
  /\ generation' = 0
  /\ credits' = 0
  /\ should_run' = FALSE
  /\ shutdown' = FALSE
  /\ pc' = p
  /\ job' = [t \in Threads |-> NoJob]
  /\ flight' = None
  /\ stall' = FALSE
  /\ flush_ret' = "idle"
  /\ snapshots' = [s \in SnapIds |-> None]
  /\ found' = AllRuns(lv)

NoSession == Session(NoRuns, 1, ThreadsAt("closed", "exit"))

\* The end of open and open_snapshot: fresh counters and a new thread.
StartSession(lv, next) == Session(lv, next, ThreadsAt("idle", "wait"))

\* The thread has returned: the fields are dropped, and with the last handles
\* the files of every run; the caller drops its snapshots as well.  What failed
\* writes have left stays.
Joined ==
  /\ pc["user"] = "joining"
  /\ pc["bg"] = "exit"
  /\ NoSession
  /\ UNCHANGED left

\* The highest run number among the .keyops files, 0 when there are none.
LastNumber == Max({left.torn} \union {r.num : r \in left.runs})

\* A handle opened from files alone has level 0.
Openable == {[r EXCEPT !.level = 0] : r \in left.runs}

Orders(R) == {s \in [1 .. Cardinality(R) -> R] : RunSet(s) = R}

\* LsmTree::open: the whole runs in active/ become L0, the counter goes on after
\* every .keyops file, and the files of runs that do not open stay.
OpenAs(s) ==
  /\ pc["user"] = "closed"
  /\ StartSession([NoRuns EXCEPT ![0] = s], LastNumber + 1)
  /\ left' = [left EXCEPT !.runs = {}]

\* read_dir has no order, and the sort by min_key one that keys, which are not
\* ordered here, leave open; LsmSessions has it.
Open == \E s \in Orders(Openable) : OpenAs(s)

User ==
  \/ \E k \in Keys :
       \/ \E v \in Values : Insert(k, v)
       \/ Delete(k)
  \/ \E S \in SUBSET Keys :
       \/ \E w \in [S -> Values] : InsertBatch(S, w)
       \/ DeleteBatch(S)
  \/ Flush
  \/ ManualCompaction
  \/ \E s \in SnapIds : Snapshot(s) \/ Rollback(s)
  \/ SaveSnapshot
  \/ Drop
  \/ Joined

Next == User \/ Background \/ Link \/ Open

Spec == Init /\ [][Next]_vars

\* Both threads keep running: the scheduler runs the background thread, and
\* the caller's thread finishes every call it has started.  Nothing says that
\* the caller makes another call.
Fairness ==
  /\ WF_vars(Background)
  /\ WF_vars(Flush \/ RunCompaction("user") \/ MergeAll \/ MergeAllFail
               \/ WriteAll \/ Link \/ Joined)

FairSpec == Spec /\ Fairness

---------------------------------------------------------------------------
(* Properties.                                                             *)

\* Entries that flush_memtable has swapped out and not yet pushed.
InFlight == IF pc["user"] = "push" THEN flight.data ELSE EmptyData

\* What LsmTree::range over all keys returns from a memtable and levels.
Contents(m, lv) == Live(Overlay(m, RangeData(lv)))

\* What LsmTree::get answers, key by key.
Answers(m, lv) == Live(Overlay(m, GetData(lv)))

\* The contents of the tree: only calls of the caller may change them.
View == Contents(Overlay(memtable, InFlight), levels)

SnapshotViews ==
  [s \in SnapIds |-> IF snapshots[s] = None THEN None
                     ELSE Contents(snapshots[s].memtable, snapshots[s].levels)]

KV == INSTANCE KvStore WITH
  open <- pc["user"] # "closed",
  map <- View,
  snaps <- SnapshotViews,
  Names <- {},
  disk <- [n \in {} |-> None]

\* Each call is the store's operation of that name with the same arguments,
\* and no other step shows.
CallByCall ==
  /\ \A k \in Keys :
       /\ \A v \in Values : Insert(k, v) => KV!Put([i \in {k} |-> v])
       /\ Delete(k) => KV!Remove({k})
  /\ \A S \in SUBSET Keys :
       /\ \A w \in [S -> Values] : InsertBatch(S, w) => KV!Put(w)
       /\ DeleteBatch(S) => KV!Remove(S)
  /\ \A s \in SnapIds :
       /\ Snapshot(s) => KV!Snapshot(s)
       /\ Rollback(s) => KV!Rollback(s)
  /\ Joined => KV!Close
  /\ Open => IF left.runs = {} THEN KV!Open ELSE KV!Adopt
  /\ Flush \/ ManualCompaction \/ SaveSnapshot \/ Link \/ Drop \/ Background
       => UNCHANGED KV!vars

\* The tree implements the key-value store, call by call, as seen through
\* range (lib.rs:984-1043): only the caller's calls change the contents, each
\* as the store does, and no flush, compaction or discarded write-back of
\* either thread shows at all; an open shows nothing but what a failed write
\* has left whole in active/ (lib.rs:522-547).
ImplementsKvStore == KV!Init /\ [][CallByCall]_vars

\* get and range agree between calls (lib.rs:873-888 walks each Vec backwards
\* and skips runs that answer None, 995-1017 sorts by run number and keeps
\* tombstones), while no level has two of the runs the session started with,
\* which are in the order of their smallest keys (lib.rs:575-578).
GetAgreesWithRange ==
  Idle /\ (\A l \in Levels : Cardinality(found \intersect RunSet(levels[l])) <= 1)
    => Answers(memtable, levels) = Contents(memtable, levels)

\* No step of a compaction, in either thread, changes what range returns
\* (compaction.rs:120-123).
CompactionKeepsContents ==
  [][Background \/ ManualCompaction => UNCHANGED View]_vars

\* A job that will not be discarded was selected from what the levels still
\* hold: flushes have only appended to L0, so the indices 0..n-1 that the
\* write-back removes (compaction.rs:395-402) are the runs it merged, and its
\* bottom-level output covers every run the target level is cleared of.
CompactionJobCurrent ==
  \A t \in Threads :
    /\ pc[t] = "compacting" /\ job[t].stage \in {"merge", "write"}
    /\ generation = job[t].gen
    => /\ Len(job[t].snap[0]) <= Len(levels[0])
       /\ \A i \in DOMAIN job[t].snap[0] : levels[0][i] = job[t].snap[0][i]
       /\ \A l \in Levels \ {0} : levels[l] = job[t].snap[l]

\* Every run object that some part of the program still holds.
HeldRuns ==
  AllRuns(levels)
    \union (UNION {AllRuns(snapshots[s].levels) : s \in {i \in SnapIds : snapshots[i] # None}})
    \union (UNION {AllRuns(job[t].snap) : t \in Threads})
    \union (({flight} \union {job[t].out : t \in Threads}) \ {None})

\* Run numbers name files (00042.keyops): two runs whose files are there at the
\* same time, held, through a rollback too, or left by a failed write, never
\* share a number.
RunNumbersUnique ==
  \A r, q \in HeldRuns \union left.runs : r.num = q.num => r = q

\* The Vec of each level ascends in run number, which get relies on
\* (lib.rs:878-879), but for runs the session started with: open and
\* open_snapshot sort those by their smallest keys (lib.rs:575-578, 767).
LevelsAscend ==
  \A l \in Levels : \A i, j \in DOMAIN levels[l] :
    i < j => \/ levels[l][i].num < levels[l][j].num
             \/ {levels[l][i], levels[l][j]} \subseteq found

\* Back-pressure bounds L0, also across rollbacks (lib.rs:1123-1131), unless
\* open found more runs than that.
L0Bounded == Len(levels[0]) <= Max({StallMult * L0Trigger, Cardinality(found)}) + 1

\* A writer held up by back-pressure gets on (lib.rs:1123-1131).
StallEnds == pc["user"] = "stall" ~> pc["user"] # "stall"

\* Dropping the tree returns: the join ends (lib.rs:1327-1341).
DropReturns == pc["user"] = "joining" ~> pc["user"] = "closed"
=============================================================================
