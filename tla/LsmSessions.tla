---------------------------- MODULE LsmSessions ----------------------------
(* Sessions over one directory: LsmTree with the saved snapshots that      *)
(* outlive it.  save_snapshot, delete_snapshot, open_snapshot, and the     *)
(* crash of the process, after which the caller goes back to a snapshot or *)
(* opens whatever runs are left.                                           *)
EXTENDS LsmTree, SequencesExt

CONSTANT Names

\* Keys are compared as byte strings; numbers stand for them in that order.
ASSUME SessionAssumption == Keys \subseteq Nat /\ None \notin LevelMap

VARIABLE saved     \* the levels each saved snapshot was made from, or None

svars == <<vars, saved>>

SessionTypeOK ==
  /\ TypeOK
  /\ saved \in [Names -> LevelMap \union {None}]

SInit == Init /\ saved = [n \in Names |-> None]

\* PersistentSnapshot::create after the flush: it hard-links the runs of the
\* levels, or returns an error when the name is taken.
SaveLink(n) ==
  /\ Link
  /\ saved' = IF saved[n] = None THEN [saved EXCEPT ![n] = levels] ELSE saved

\* delete_snapshot of a snapshot that loads: remove_dir_all.
DeleteSnapshot(n) ==
  /\ Idle
  /\ saved[n] # None
  /\ saved' = [saved EXCEPT ![n] = None]
  /\ UNCHANGED vars

MaxNum(R) == Max({0} \union {r.num : r \in R})

MinKey(r) == Min(Present(r.data))

\* The places <<level, index>> of the saved runs with level field l, and the
\* run at a place.
Places(lv, l) ==
  UNION {{<<m, i>> : i \in {j \in DOMAIN lv[m] : lv[m][j].level = l}} : m \in Levels}

At(lv, p) == lv[p[1]][p[2]]

\* sort_by(min_key), which is stable.
SortsBefore(lv, p, q) ==
  \/ MinKey(At(lv, p)) < MinKey(At(lv, q))
  \/ /\ MinKey(At(lv, p)) = MinKey(At(lv, q))
     /\ p[1] < q[1] \/ (p[1] = q[1] /\ p[2] < q[2])

\* The index of place p in the sorted Vec.
SortedIndex(lv, l, p) == Cardinality({q \in Places(lv, l) : ~ SortsBefore(lv, p, q)})

\* open_snapshot puts each run into the level its metadata names, the level
\* field of its handle, and then sorts every level by min_key, stably.
RestoredLevel(lv, l) ==
  [i \in 1 .. Cardinality(Places(lv, l)) |->
     At(lv, CHOOSE p \in Places(lv, l) : SortedIndex(lv, l, p) = i)]

\* Mutant of RestoredLevels: every run goes to L0.
RestoredLevelsFlat(lv) ==
  LET all == FlattenSeq([i \in 1 .. MaxLevel + 1 |-> lv[i - 1]])
  IN  [NoRuns EXCEPT ![0] = all]

RestoredLevels(lv) == [l \in Levels |-> RestoredLevel(lv, l)]

\* Mutant of OpenSnapshot: run numbers start at 1 again.
OpenSnapshotFromOne(n) ==
  /\ pc["user"] = "closed"
  /\ saved[n] # None
  /\ StartSession(RestoredLevels(saved[n]), 1)
  /\ left' = NothingLeft
  /\ UNCHANGED saved

\* open_snapshot clears active/ before it links the snapshot's runs.
OpenSnapshot(n) ==
  /\ pc["user"] = "closed"
  /\ saved[n] # None
  /\ StartSession(RestoredLevels(saved[n]),
                  MaxNum(AllRuns(saved[n])) + 1)
  /\ left' = NothingLeft
  /\ UNCHANGED saved

\* The runs that are being written, or just have been: any of their files may be
\* there.
Unfinished ==
  ((IF pc["user"] = "push" THEN {flight} ELSE {}) \union {job[t].out : t \in Threads})
    \ {None}

\* The process dies at any point.  Every volatile part of the tree is gone; in
\* active/ are the runs that any handle stood for, whole, any part of those being
\* written, and what failed writes have left.  A crash inside delete_files, which
\* leaves fewer, is in RunFiles and DiskFiles.
Crash ==
  /\ pc["user"] # "closed"
  /\ NoSession
  /\ \E done \in SUBSET Unfinished : \E begun \in SUBSET (Unfinished \ done) :
       left' = [runs |-> left.runs \union (HeldRuns \ Unfinished) \union done,
                torn |-> Max({left.torn} \union {r.num : r \in begun})]
  /\ UNCHANGED saved

\* The orders of a set of runs in which smallest keys ascend.
ByMinKey(R) ==
  {s \in Orders(R) : \A i, j \in DOMAIN s : i < j => MinKey(s[i]) <= MinKey(s[j])}

\* LsmTree::open: L0 sorted by min_key, stably, from read_dir's order.
OpenActive ==
  /\ \E s \in ByMinKey(Openable) : OpenAs(s)
  /\ UNCHANGED saved

SNext ==
  \/ (User \/ Background) /\ UNCHANGED saved
  \/ \E n \in Names : SaveLink(n) \/ DeleteSnapshot(n) \/ OpenSnapshot(n)
  \/ Crash \/ OpenActive

SSpec == SInit /\ [][SNext]_svars

---------------------------------------------------------------------------
(* Properties.                                                             *)

SavedViews ==
  [n \in Names |-> IF saved[n] = None THEN None ELSE Contents(EmptyData, saved[n])]

DurableKV == INSTANCE KvStore WITH
  open <- pc["user"] # "closed",
  map <- View,
  snaps <- SnapshotViews,
  disk <- SavedViews

\* Each call is the store's operation of that name; a save under a taken name,
\* background work and the steps inside a call do not show.
SessionsCallByCall ==
  /\ \A k \in Keys : UNCHANGED saved =>
       /\ \A v \in Values : Insert(k, v) => DurableKV!Put([i \in {k} |-> v])
       /\ Delete(k) => DurableKV!Remove({k})
  /\ \A n \in Names :
       /\ SaveLink(n) => IF saved[n] = None THEN DurableKV!SaveSnapshot(n)
                                            ELSE UNCHANGED DurableKV!vars
       /\ DeleteSnapshot(n) => DurableKV!DeleteSnapshot(n)
       /\ OpenSnapshot(n) => DurableKV!OpenSnapshot(n)
  /\ Joined \/ Crash => DurableKV!Close
  /\ OpenActive => IF left.runs = {} THEN DurableKV!Open ELSE DurableKV!Adopt
  /\ Flush \/ SaveSnapshot \/ Drop \/ Background => UNCHANGED DurableKV!vars

\* Across sessions, crashes and restores the tree implements the key-value
\* store with named copies, call by call: a snapshot saved under a free name
\* holds what range shows when save_snapshot returns, open_snapshot brings
\* exactly that back, a crash leaves the saved copies alone, and background
\* work shows neither in the tree nor in the copies (lib.rs:661-834,
\* 1291-1324).
ImplementsDurableKvStore == DurableKV!Init /\ [][SessionsCallByCall]_svars
=============================================================================
