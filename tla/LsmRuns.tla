------------------------------ MODULE LsmRuns ------------------------------
(* The data the tree is made of and the pure functions on it: entry maps   *)
(* (a memtable, the contents of a run), sorted runs, levels of runs, the   *)
(* readers get and range, and the compactor's selection and merge.         *)
EXTENDS Integers, Sequences, FiniteSets, FiniteSetsExt

CONSTANTS
  Keys, Values,
  Tombstone,       \* Some(None) in the code's Option<Option<Value>>
  Absent,          \* no entry for the key
  KeyLen,          \* bytes of a key and of a value
  ValueLen,
  MaxLevel,        \* max_level; 6 in the code
  BaseTarget,      \* target entries of L0; 10_000 in the code
  SizeRatio,       \* growth of the target per level; 4 in the code
  L0Trigger        \* config.level0_compaction_trigger

ASSUME DataAssumption ==
  /\ IsFiniteSet(Keys)
  /\ Tombstone \notin Values
  /\ Absent \notin Values
  /\ Tombstone # Absent
  /\ KeyLen \in Nat /\ ValueLen \in Nat

ASSUME LevelAssumption ==
  /\ MaxLevel \in Nat \ {0}
  /\ BaseTarget \in Nat /\ SizeRatio \in Nat
  /\ L0Trigger \in Nat

Levels == 0 .. MaxLevel

---------------------------------------------------------------------------
(* Entry maps.                                                             *)

\* BTreeMap<Key, Option<Value>> as a total function.
Data == [Keys -> Values \union {Tombstone, Absent}]
EmptyData == [k \in Keys |-> Absent]

Present(d) == {k \in Keys : d[k] # Absent}

\* The entries of `new` over those of `old`.
Overlay(new, old) == [k \in Keys |-> IF new[k] # Absent THEN new[k] ELSE old[k]]

\* entries.retain(|_, v| v.is_some()), and the filter at the end of range.
Live(d) == [k \in Keys |-> IF d[k] = Tombstone THEN Absent ELSE d[k]]

\* MemTable::size_bytes: insert and delete keep it equal to this sum.
SizeBytes(d) ==
  KeyLen * Cardinality(Present(d))
    + ValueLen * Cardinality({k \in Keys : d[k] \in Values})

---------------------------------------------------------------------------
(* Runs and levels.  A SsTableHandle is its run number, the level field it *)
(* was written with and its entries.                                       *)

Run == [num : Nat, level : Levels, data : Data]

NumEntries(r) == Cardinality(Present(r.data))

NoRuns == [l \in Levels |-> <<>>]

RunSet(s) == {s[i] : i \in DOMAIN s}
AllRuns(lv) == UNION {RunSet(lv[l]) : l \in Levels}

\* What inserting runs in ascending run_number order leaves for a key.
NewestEntry(R, k) ==
  LET H == {r \in R : r.data[k] # Absent}
  IN  IF H = {} THEN Absent
      ELSE (CHOOSE r \in H : \A q \in H : q.num <= r.num).data[k]

MergeRuns(R) == [k \in Keys |-> NewestEntry(R, k)]

\* entry(key).or_insert over the runs of a Vec: the first one that has the key.
FirstEntries(s) ==
  [k \in Keys |->
    LET H == {i \in DOMAIN s : s[i].data[k] # Absent}
    IN  IF H = {} THEN Absent
        ELSE s[CHOOSE i \in H : \A j \in H : i <= j].data[k]]

---------------------------------------------------------------------------
(* The readers, over the levels only; the memtable goes on top of each.    *)

\* LsmTree::range: upper levels over lower ones, run numbers within a level.
RangeEntry(lv, k) ==
  LET H == {l \in Levels : \E r \in RunSet(lv[l]) : r.data[k] # Absent}
  IN  IF H = {} THEN Absent
      ELSE NewestEntry(RunSet(lv[CHOOSE l \in H : \A m \in H : l <= m]), k)

RangeData(lv) == [k \in Keys |-> RangeEntry(lv, k)]

\* The places <<level, index>> of the runs that hold a value of the key.
Hits(lv, k) ==
  UNION {{<<l, i>> : i \in {j \in DOMAIN lv[l] : lv[l][j].data[k] \in Values}}
           : l \in Levels}

\* Mutant of GetEntry: each Vec walked forwards.
GetEntryForwards(lv, k) ==
  LET H == Hits(lv, k)
      first == CHOOSE p \in H : \A q \in H :
                 p[1] < q[1] \/ (p[1] = q[1] /\ p[2] <= q[2])
  IN  IF H = {} THEN Absent ELSE lv[first[1]][first[2]].data[k]

\* LsmTree::get, LsmSnapshot::get: level by level, each Vec backwards; a run
\* that answers Ok(None), be it for a tombstone, does not stop the search.
GetEntry(lv, k) ==
  LET H == Hits(lv, k)
      first == CHOOSE p \in H : \A q \in H :
                 p[1] < q[1] \/ (p[1] = q[1] /\ p[2] >= q[2])
  IN  IF H = {} THEN Absent ELSE lv[first[1]][first[2]].data[k]

GetData(lv) == [k \in Keys |-> GetEntry(lv, k)]

---------------------------------------------------------------------------
(* The compactor.                                                          *)

LevelTargetSize(l) == BaseTarget * SizeRatio ^ l

LevelEntries(lv, l) ==
  MapThenSumSet(LAMBDA i : NumEntries(lv[l][i]), DOMAIN lv[l])

\* select_level_compaction: the levels over target; the first one is taken.
Overfull(lv) ==
  {l \in 0 .. MaxLevel - 1 : LevelEntries(lv, l) > LevelTargetSize(l)}

\* The source level of the next job, as a set of at most one level: the first
\* overfull level, else L0 when it holds enough files (run_compaction).
SelectLevel(lv) ==
  IF Overfull(lv) # {}
    THEN {l \in Overfull(lv) : \A m \in Overfull(lv) : l <= m}
    ELSE {l \in {0} : Len(lv[0]) >= L0Trigger /\ Len(lv[0]) > 0}

\* Mutants of CompactLevels: the bottom level's old entries win; tombstones
\* are dropped at every level.
CompactLevelsTargetWins(lv, src) ==
  LET merged == MergeRuns(RunSet(lv[src]))
      target == FirstEntries(lv[src + 1])
  IN  IF src + 1 = MaxLevel THEN Live(Overlay(target, merged)) ELSE merged

CompactLevelsDropTombstones(lv, src) ==
  LET merged == MergeRuns(RunSet(lv[src]))
      target == FirstEntries(lv[src + 1])
  IN  Live(IF src + 1 = MaxLevel THEN Overlay(merged, target) ELSE merged)

\* compact_levels: the entries of the output run.  Into the bottom level the
\* source runs are merged over every target run, and tombstones are dropped.
\* Every key is read: the code reads up to 256 bytes 0xFF, and keys are below.
CompactLevels(lv, src) ==
  LET merged == MergeRuns(RunSet(lv[src]))
      target == FirstEntries(lv[src + 1])
  IN  IF src + 1 = MaxLevel THEN Live(Overlay(merged, target)) ELSE merged

\* Compactor::compact over every run of the tree (compact_all).
CompactAllRuns(lv) == Live(MergeRuns(AllRuns(lv)))
=============================================================================
