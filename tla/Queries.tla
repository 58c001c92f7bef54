------------------------------ MODULE Queries ------------------------------
(* The readers that work on bounds, on top of the tree: range, scan_prefix,  *)
(* the iterator of a snapshot and the folds of a monoidal tree, down to the  *)
(* bytes of the runs' files.  They change no state.                          *)
EXTENDS LsmTree, SsTable

CONSTANT ScanAllLen    \* 20 bytes 0xFF end a scan of the empty prefix

ASSUME QueryAssumption == ScanAllLen \in Nat \ {0}

---------------------------------------------------------------------------
(* range, scan_prefix and LsmSnapshot::iter.                                 *)

\* Entries that were read, as an entry map.
Collected(E) ==
  [k \in Keys |->
    IF \E e \in E : e.key = k THEN (CHOOSE e \in E : e.key = k).value ELSE Absent]

\* MemTable::range, empty for reversed bounds.
MemTableRange(m, from, to) ==
  [k \in Keys |-> IF KeyLeq(from, to) /\ InBounds(k, from, to) THEN m[k] ELSE Absent]

Strings(n) == UNION {[1 .. i -> Byte] : i \in 0 .. n}

\* What the files of a run with these entries answer to a range.
FileRange ==
  [d \in Data |-> [from \in Strings(ScanAllLen) |-> [to \in Strings(ScanAllLen) |->
     Collected(RunSet(RangeWithTombstones(Table(d), from, to)))]]]

\* LsmTree::range.
TreeRange(m, lv, from, to) ==
  LET read == [l \in Levels |-> [i \in DOMAIN lv[l] |->
                 [lv[l][i] EXCEPT !.data = FileRange[@][from][to]]]]
  IN  Live(Overlay(MemTableRange(m, from, to), RangeData(read)))

Filled(n) == [i \in 1 .. n |-> MaxByte]

\* Mutant of PrefixEnd: the last byte is not incremented.
PrefixEndSame(p) == IF p = <<>> THEN Filled(ScanAllLen) ELSE p

\* The inclusive end key of scan_prefix.
PrefixEnd(p) ==
  CASE p = <<>> -> Filled(ScanAllLen)
    [] p # <<>> /\ Last(p) = MaxByte -> Append(p, 0)
    [] OTHER -> Append(Front(p), Last(p) + 1)

ScanPrefix(m, lv, p) == TreeRange(m, lv, p, PrefixEnd(p))

\* The runs of a snapshot in the order its iterator visits them.
RunsUpwards(lv) == FlattenSeq([i \in 1 .. MaxLevel + 1 |-> lv[MaxLevel + 1 - i]])

\* SsTableHandle::range over all keys: tombstones are filtered out before they
\* can hide anything.
FileValues ==
  [d \in Data |-> Collected(RangeOfValues(Table(d), <<>>, Filled(KeyLen)))]

RunValues(r) == [r EXCEPT !.data = FileValues[@]]

\* Mutant of SnapshotIter: or_insert for the memtable's entries too.
SnapshotIterOrInsert(m, lv) ==
  LET s == RunsUpwards(lv)
      read == [i \in DOMAIN s |-> RunValues(s[i])]
  IN  Live(Overlay(FirstEntries(read), m))

\* LsmSnapshot::iter: the first entry met stays, the memtable goes on top.
SnapshotIter(m, lv) ==
  LET s == RunsUpwards(lv)
      read == [i \in DOMAIN s |-> RunValues(s[i])]
  IN  Live(Overlay(m, FirstEntries(read)))

---------------------------------------------------------------------------
(* MonoidalLsmTree<u64>.                                                     *)

\* bincode::deserialize of a little-endian number as wide as a value.
Number(v) ==
  LET n[i \in 0 .. Len(v)] ==
        IF i = 0 THEN 0 ELSE n[i - 1] * (MaxByte + 1) + v[Len(v) + 1 - i]
  IN  n[Len(v)]

MaxNumber == Number(Filled(ValueLen))

\* Mutant of Mappend: wrapping_add.
MappendWrapping(a, b) == (a + b) % (MaxNumber + 1)

\* saturating_add.
Mappend(a, b) == IF a + b > MaxNumber THEN MaxNumber ELSE a + b

Mempty == 0

\* The loop of the folds over the iterator's entries, in key order.
FoldEntries(d) ==
  FoldLeft(LAMBDA a, k : Mappend(a, Number(d[k])), Mempty, SortedKeys(d))

RangeFold(m, lv, from, to) == FoldEntries(TreeRange(m, lv, from, to))
PrefixFold(m, lv, p) == FoldEntries(ScanPrefix(m, lv, p))

\* MonoidalSnapshot::range_fold: the bounds are applied to the iterator.
SnapshotFold(m, lv, from, to) ==
  LET all == SnapshotIter(m, lv)
  IN  FoldEntries([k \in Keys |-> IF InBounds(k, from, to) THEN all[k] ELSE Absent])

---------------------------------------------------------------------------
(* Properties.                                                               *)

Bounds == Strings(KeyLen)

\* The runs whose files have just been written.
WrittenRuns == ({flight} \union {job[t].out : t \in Threads}) \ {None}

\* The point reader, which trusts the filter and the offsets that finish
\* computed beside the file (sstable.rs:148-187), and the range reader, which
\* parses the file (467-538), both find in a run exactly what was written to it.
TablesAnswer ==
  \A r \in WrittenRuns :
    LET t == Table(r.data)
    IN  /\ \A k \in Keys : GetBackend(t, k) = Live(r.data)[k]
        /\ \A k, j \in Keys :
             Collected(RunSet(RangeWithTombstones(t, k, j)))
               = [i \in Keys |-> IF InBounds(i, k, j) THEN r.data[i] ELSE Absent]

\* scan_prefix ends its range at a key, not at a prefix (lib.rs:1045-1060): it
\* shows every live key with the prefix unless the prefix ends in the largest
\* byte, and never a key without it but the end key itself.
ScanPrefixShows ==
  Idle =>
    LET live == Contents(memtable, levels)
    IN  \A p \in Bounds : LET shown == ScanPrefix(memtable, levels, p) IN
          \A k \in Keys :
            /\ shown[k] \in {live[k], Absent}
            /\ IsPrefix(p, k) /\ (p = <<>> \/ Last(p) # MaxByte)
                 => shown[k] = live[k]
            /\ ~IsPrefix(p, k) /\ k # PrefixEnd(p) => shown[k] = Absent

\* Some layer decides alone what a key holds: the memtable, or its only run.
Alone(k) ==
  \/ memtable[k] # Absent
  \/ Cardinality({r \in AllRuns(levels) : r.data[k] # Absent}) <= 1

\* A snapshot's iterator (lib.rs:1494-1531) lets the deepest run of a level
\* win and drops tombstones early: it shows what range shows for the keys that
\* the memtable has, or that no two runs have.
IterShowsContents ==
  Idle =>
    \A k \in Keys :
      Alone(k) =>
        SnapshotIter(memtable, levels)[k] = Contents(memtable, levels)[k]

Saturated(n) == IF n > MaxNumber THEN MaxNumber ELSE n

LiveSum(d, K) ==
  MapThenSumSet(LAMBDA k : Number(d[k]), {k \in K : d[k] # Absent})

\* The folds saturate (monoidal.rs:312-321) in the order of the keys, and still
\* give the sum of the live values within the bounds, up to the largest number:
\* range_fold, prefix_fold of everything, and a snapshot's range_fold as far as
\* its iterator shows what range shows.
FoldsAddUp ==
  Idle =>
    LET live == Contents(memtable, levels)
    IN  /\ PrefixFold(memtable, levels, <<>>) = Saturated(LiveSum(live, Keys))
        /\ \A from, to \in Keys :
             LET within == {k \in Keys : InBounds(k, from, to)}
             IN  /\ RangeFold(memtable, levels, from, to) = Saturated(LiveSum(live, within))
                 /\ (\A k \in within : Alone(k)) =>
                      SnapshotFold(memtable, levels, from, to) = Saturated(LiveSum(live, within))
=============================================================================
