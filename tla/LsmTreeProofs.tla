--------------------------- MODULE LsmTreeProofs ---------------------------
(* Theorems about LsmTree, for every set of keys and values, every         *)
(* configuration and every number of levels, runs and rollbacks.           *)
EXTENDS LsmTree, SequenceTheorems, FiniteSetTheorems, FunctionTheorems,
        WellFoundedInduction, TLAPS

---------------------------------------------------------------------------
(* The operators of LsmRuns.                                               *)

\* A non-empty set of numbers has a least element.
LEMMA LeastNumber ==
  ASSUME NEW S, S \subseteq Nat, S # {}
  PROVE  \E m \in S : \A x \in S : m <= x
PROOF
  <1>1. PICK y \in S : \A z \in S : <<z, y>> \notin OpToRel(<, Nat)
    BY NatLessThanWellFounded, WFMin
  <1>2. ASSUME NEW z \in S, ~(y <= z) PROVE FALSE
    <2>1. z \in Nat /\ y \in Nat /\ z < y
      BY <1>2
    <2>2. <<z, y>> \in OpToRel(<, Nat)
      BY <2>1 DEF OpToRel
    <2> QED BY <1>1, <2>2
  <1> QED BY <1>2

\* A non-empty set of numbers below a bound has a greatest element.
LEMMA BoundedMax ==
  ASSUME NEW S, S \subseteq Nat, S # {},
         NEW n \in Nat, \A x \in S : x < n
  PROVE  \E m \in S : \A x \in S : x <= m
PROOF
  <1> DEFINE T == {n - x : x \in S}
  <1>1. T \subseteq Nat /\ T # {}
    <2>1. \A x \in S : n - x \in Nat
      OBVIOUS
    <2>2. PICK x \in S : TRUE
      OBVIOUS
    <2>3. n - x \in T
      BY <2>2
    <2> QED BY <2>1, <2>3
  <1>2. PICK y \in T : \A z \in T : y <= z
    <2> HIDE DEF T
    <2> QED BY <1>1, LeastNumber
  <1>3. PICK m \in S : y = n - m
    BY <1>2
  <1>4. \A x \in S : x <= m
    BY <1>2, <1>3
  <1> QED BY <1>4

\* Max of a bounded set of numbers.
LEMMA MaxIs ==
  ASSUME NEW S, S \subseteq Nat, S # {}, NEW n \in Nat, \A x \in S : x < n
  PROVE  Max(S) \in S /\ Max(S) \in Nat /\ \A x \in S : x <= Max(S)
PROOF
  <1>1. PICK m \in S : \A x \in S : x <= m
    BY BoundedMax
  <1>2. \A x \in S : m >= x
    BY <1>1
  <1>3. Max(S) \in S /\ \A x \in S : Max(S) >= x
    BY <1>2 DEF Max
  <1> QED BY <1>3

LEMMA MaxOfTwo ==
  ASSUME NEW a \in Nat, NEW b \in Nat
  PROVE  Max({a, b}) \in Nat /\ a <= Max({a, b}) /\ b <= Max({a, b})
PROOF
  <1> DEFINE S == {a, b}  n == a + b + 1
  <1>1. S \subseteq Nat /\ S # {} /\ n \in Nat /\ \A x \in S : x < n
    OBVIOUS
  <1>2. a \in S /\ b \in S
    OBVIOUS
  <1> HIDE DEF S, n
  <1>3. Max(S) \in Nat /\ \A x \in S : x <= Max(S)
    BY <1>1, MaxIs
  <1> QED BY <1>2, <1>3 DEF S

\* The newest entry of a set of runs with bounded numbers is an entry.
LEMMA NewestEntryType ==
  ASSUME NEW R, R \subseteq Run, NEW k \in Keys,
         NEW n \in Nat, \A r \in R : r.num < n
  PROVE  NewestEntry(R, k) \in Values \union {Tombstone, Absent}
PROOF
  <1> DEFINE H == {r \in R : r.data[k] # Absent}
             S == {r.num : r \in H}
  <1>1. CASE H = {}
    BY <1>1 DEF NewestEntry
  <1>2. CASE H # {}
    <2>1. S \subseteq Nat /\ S # {} /\ \A x \in S : x < n
      BY <1>2 DEF Run
    <2>2. \E m \in S : \A x \in S : x <= m
      BY <2>1, BoundedMax
    <2>3. \E r \in H : \A q \in H : q.num <= r.num
      BY <2>2
    <2> DEFINE top == CHOOSE r \in H : \A q \in H : q.num <= r.num
    <2>4. top \in H
      BY <2>3
    <2>5. top.data[k] \in Values \union {Tombstone, Absent}
      BY <2>4 DEF Run, Data
    <2> QED BY <1>2, <2>5 DEF NewestEntry
  <1> QED BY <1>1, <1>2

LEMMA MergeRunsType ==
  ASSUME NEW R, R \subseteq Run, NEW n \in Nat, \A r \in R : r.num < n
  PROVE  MergeRuns(R) \in Data
PROOF BY NewestEntryType DEF MergeRuns, Data

LEMMA EntryMapTypes ==
  ASSUME NEW d \in Data, NEW e \in Data
  PROVE  Overlay(d, e) \in Data /\ Live(d) \in Data /\ EmptyData \in Data
PROOF BY DEF Overlay, Live, EmptyData, Data

\* The number of entries of a run and the size of a memtable are numbers.
LEMMA NumEntriesType ==
  ASSUME NEW r \in Run
  PROVE  NumEntries(r) \in Nat
PROOF
  <1>1. Present(r.data) \in SUBSET Keys
    BY DEF Present
  <1>2. IsFiniteSet(Present(r.data))
    BY <1>1, FS_Subset, DataAssumption
  <1> QED BY <1>2, FS_CardinalityType DEF NumEntries

\* The runs of a level whose numbers are below n.
LEMMA LevelRuns ==
  ASSUME NEW lv \in [Levels -> Seq(Run)], NEW l \in Levels
  PROVE  /\ RunSet(lv[l]) \subseteq Run
         /\ RunSet(lv[l]) \subseteq AllRuns(lv)
         /\ AllRuns(lv) \subseteq Run
PROOF
  <1>1. \A m \in Levels : RunSet(lv[m]) \subseteq Run
    BY LenProperties DEF RunSet
  <1> QED BY <1>1 DEF AllRuns

\* The next job always has a source level above the bottom level.
LEMMA SelectLevelType ==
  ASSUME NEW lv
  PROVE  SelectLevel(lv) \subseteq 0 .. MaxLevel - 1
PROOF
  <1>1. Overfull(lv) \subseteq 0 .. MaxLevel - 1
    BY DEF Overfull
  <1>2. 0 \in 0 .. MaxLevel - 1
    BY LevelAssumption
  <1> QED BY <1>1, <1>2 DEF SelectLevel

LEMMA SourceAndTarget ==
  ASSUME NEW l \in 0 .. MaxLevel - 1
  PROVE  l \in Levels /\ l + 1 \in Levels /\ l + 1 # 0 /\ l + 1 # l /\ 0 \in Levels
PROOF BY LevelAssumption DEF Levels

\* The entries the first runs of a Vec hold are entries.
LEMMA FirstEntriesType ==
  ASSUME NEW s \in Seq(Run)
  PROVE  FirstEntries(s) \in Data
PROOF
  <1> SUFFICES ASSUME NEW k \in Keys
               PROVE  FirstEntries(s)[k] \in Values \union {Tombstone, Absent}
    BY DEF FirstEntries, Data
  <1> DEFINE H == {i \in DOMAIN s : s[i].data[k] # Absent}
             top == CHOOSE i \in H : \A j \in H : i <= j
  <1>1. DOMAIN s \subseteq Nat /\ \A i \in DOMAIN s : s[i] \in Run
    BY LenProperties
  <1>2. CASE H = {}
    BY <1>2 DEF FirstEntries
  <1>3. CASE H # {}
    <2>1. \E i \in H : \A j \in H : i <= j
      BY <1>1, <1>3, LeastNumber
    <2>2. top \in H
      BY <2>1
    <2>3. s[top].data[k] \in Values \union {Tombstone, Absent}
      BY <1>1, <2>2 DEF Run, Data
    <2> QED BY <1>3, <2>3 DEF FirstEntries
  <1> QED BY <1>2, <1>3

\* What compact_levels writes is an entry map.
LEMMA CompactLevelsType ==
  ASSUME NEW lv \in [Levels -> Seq(Run)], NEW src \in 0 .. MaxLevel - 1,
         NEW n \in Nat, \A r \in AllRuns(lv) : r.num < n
  PROVE  CompactLevels(lv, src) \in Data
PROOF
  <1>1. src \in Levels /\ src + 1 \in Levels
    BY SourceAndTarget
  <1>2. MergeRuns(RunSet(lv[src])) \in Data
    BY <1>1, LevelRuns, MergeRunsType
  <1>3. FirstEntries(lv[src + 1]) \in Data
    BY <1>1, FirstEntriesType
  <1> QED BY <1>2, <1>3, EntryMapTypes DEF CompactLevels

LEMMA CompactAllRunsType ==
  ASSUME NEW lv \in [Levels -> Seq(Run)],
         NEW n \in Nat, \A r \in AllRuns(lv) : r.num < n
  PROVE  CompactAllRuns(lv) \in Data
PROOF
  <1>0. 0 \in Levels
    BY LevelAssumption DEF Levels
  <1>1. AllRuns(lv) \subseteq Run
    BY <1>0, LevelRuns
  <1> QED BY <1>1, MergeRunsType, EntryMapTypes DEF CompactAllRuns

---------------------------------------------------------------------------
(* What range finds for a key.  The newest run with the key is the only    *)
(* one of its number, so CHOOSE has no choice.                             *)

\* Runs told apart by their numbers, which have a bound.
Ranked(R) ==
  /\ R \subseteq Run
  /\ \A r, q \in R : r.num = q.num => r = q
  /\ \E n \in Nat : \A r \in R : r.num < n

LEMMA RankedSubset ==
  ASSUME NEW R, Ranked(R), NEW Q, Q \subseteq R
  PROVE  Ranked(Q)
PROOF BY DEF Ranked

LEMMA NewestNone ==
  ASSUME NEW R, NEW k, \A r \in R : r.data[k] = Absent
  PROVE  NewestEntry(R, k) = Absent
PROOF BY DEF NewestEntry

LEMMA NewestIs ==
  ASSUME NEW R, Ranked(R), NEW k, NEW r \in R, r.data[k] # Absent,
         \A q \in R : q.data[k] # Absent => q.num <= r.num
  PROVE  NewestEntry(R, k) = r.data[k]
PROOF
  <1> DEFINE H == {q \in R : q.data[k] # Absent}
             top == CHOOSE x \in H : \A q \in H : q.num <= x.num
  <1>1. r \in H /\ \A q \in H : q.num <= r.num
    OBVIOUS
  <1>2. top \in H /\ \A q \in H : q.num <= top.num
    <2> HIDE DEF H
    <2> QED BY <1>1
  <1>3. top.num = r.num
    BY <1>1, <1>2 DEF Ranked, Run
  <1>4. top = r
    BY <1>2, <1>3 DEF Ranked
  <1> QED BY <1>1, <1>4 DEF NewestEntry

LEMMA NewestCases ==
  ASSUME NEW R, Ranked(R), NEW k
  PROVE  \/ /\ NewestEntry(R, k) = Absent
            /\ \A r \in R : r.data[k] = Absent
         \/ \E r \in R :
              /\ r.data[k] # Absent
              /\ \A q \in R : q.data[k] # Absent => q.num <= r.num
              /\ NewestEntry(R, k) = r.data[k]
PROOF
  <1> DEFINE H == {q \in R : q.data[k] # Absent}
             S == {q.num : q \in H}
  <1>1. CASE H = {}
    BY <1>1, NewestNone
  <1>2. CASE H # {}
    <2>1. PICK n \in Nat : \A r \in R : r.num < n
      BY DEF Ranked
    <2>2. S \subseteq Nat /\ S # {} /\ \A x \in S : x < n
      BY <1>2, <2>1 DEF Ranked, Run
    <2>3. \E m \in S : \A x \in S : x <= m
      <3> HIDE DEF S
      <3> QED BY <2>2, BoundedMax
    <2>4. PICK r \in H : \A q \in H : q.num <= r.num
      BY <2>3
    <2>5. /\ r \in R /\ r.data[k] # Absent
          /\ \A q \in R : q.data[k] # Absent => q.num <= r.num
      BY <2>4
    <2>6. NewestEntry(R, k) = r.data[k]
      BY <2>5, NewestIs
    <2> QED BY <2>5, <2>6
  <1> QED BY <1>1, <1>2

\* Newer runs B over older runs A.
Older(A, B) == \A a \in A, b \in B : a.num < b.num

LEMMA NewestUnion ==
  ASSUME NEW A, NEW B, Ranked(A \union B), NEW k, Older(A, B)
  PROVE  NewestEntry(A \union B, k) =
           IF NewestEntry(B, k) # Absent THEN NewestEntry(B, k) ELSE NewestEntry(A, k)
PROOF
  <1>1. Ranked(A) /\ Ranked(B)
    BY RankedSubset
  <1>2. CASE NewestEntry(B, k) # Absent
    <2>1. PICK r \in B : /\ r.data[k] # Absent
                         /\ \A q \in B : q.data[k] # Absent => q.num <= r.num
                         /\ NewestEntry(B, k) = r.data[k]
      BY <1>1, <1>2, NewestCases
    <2>2. \A q \in A : q.num <= r.num
      BY DEF Ranked, Run, Older
    <2>3. NewestEntry(A \union B, k) = r.data[k]
      BY <2>1, <2>2, NewestIs
    <2> QED BY <1>2, <2>1, <2>3
  <1>3. CASE NewestEntry(B, k) = Absent
    <2>1. \A q \in B : q.data[k] = Absent
      BY <1>1, <1>3, NewestCases
    <2>2. CASE NewestEntry(A, k) = Absent
      <3>1. \A q \in A : q.data[k] = Absent
        BY <1>1, <2>2, NewestCases
      <3> QED BY <1>3, <2>1, <2>2, <3>1, NewestNone
    <2>3. CASE NewestEntry(A, k) # Absent
      <3>1. PICK r \in A : /\ r.data[k] # Absent
                           /\ \A q \in A : q.data[k] # Absent => q.num <= r.num
                           /\ NewestEntry(A, k) = r.data[k]
        BY <1>1, <2>3, NewestCases
      <3>2. NewestEntry(A \union B, k) = r.data[k]
        BY <2>1, <3>1, NewestIs
      <3> QED BY <1>3, <3>1, <3>2
    <2> QED BY <2>2, <2>3
  <1> QED BY <1>2, <1>3

LEMMA NewestOfOne ==
  ASSUME NEW r \in Run, NEW k
  PROVE  Ranked({r}) /\ NewestEntry({r}, k) = r.data[k]
PROOF
  <1>1. Ranked({r})
    <2>1. r.num + 1 \in Nat /\ r.num < r.num + 1
      BY DEF Run
    <2> QED BY <2>1 DEF Ranked
  <1>2. CASE r.data[k] = Absent
    BY <1>1, <1>2, NewestNone
  <1>3. CASE r.data[k] # Absent
    <2>1. r.num <= r.num
      BY DEF Run
    <2> QED BY <1>1, <1>3, <2>1, NewestIs
  <1> QED BY <1>1, <1>2, <1>3

\* A level of at most one run, as the bottom level is: the reader of the
\* compactor's target and the newest entry are the same.
LEMMA FirstOfShort ==
  ASSUME NEW s \in Seq(Run), Len(s) <= 1, NEW k \in Keys
  PROVE  FirstEntries(s)[k] = NewestEntry(RunSet(s), k)
PROOF
  <1>1. DOMAIN s = 1 .. Len(s) /\ Len(s) \in Nat /\ \A i \in DOMAIN s : s[i] \in Run
    BY LenProperties, ElementOfSeq
  <1> DEFINE H == {i \in DOMAIN s : s[i].data[k] # Absent}
             top == CHOOSE i \in H : \A j \in H : i <= j
  <1>2. CASE H = {}
    <2>1. FirstEntries(s)[k] = Absent
      BY <1>2 DEF FirstEntries
    <2>2. \A r \in RunSet(s) : r.data[k] = Absent
      BY <1>2 DEF RunSet
    <2> QED BY <2>1, <2>2, NewestNone
  <1>3. CASE H # {}
    <2>1. DOMAIN s = {1} /\ H = {1}
      BY <1>1, <1>3
    <2>2. RunSet(s) = {s[1]} /\ s[1] \in Run
      BY <1>1, <2>1 DEF RunSet
    <2>3. top = 1
      <3>1. \A j \in H : 1 <= j
        BY <2>1
      <3>2. top \in H
        <4> HIDE DEF H
        <4> QED BY <2>1, <3>1
      <3> QED BY <2>1, <3>2
    <2>4. FirstEntries(s)[k] = s[1].data[k]
      BY <1>3, <2>3 DEF FirstEntries
    <2> QED BY <2>2, <2>4, NewestOfOne
  <1> QED BY <1>2, <1>3

\* The newest entry of one level, and of the levels from the top.
LevelEntry(lv, l, k) == NewestEntry(RunSet(lv[l]), k)

RankedLevels(lv) == \A l \in Levels : Ranked(RunSet(lv[l]))

LEMMA LevelHit ==
  ASSUME NEW lv, RankedLevels(lv), NEW k, NEW l \in Levels
  PROVE  LevelEntry(lv, l, k) # Absent <=> \E r \in RunSet(lv[l]) : r.data[k] # Absent
PROOF BY NewestCases DEF RankedLevels, LevelEntry

LEMMA RangeIs ==
  ASSUME NEW lv, RankedLevels(lv), NEW k, NEW l \in Levels,
         LevelEntry(lv, l, k) # Absent,
         \A m \in Levels : m < l => LevelEntry(lv, m, k) = Absent
  PROVE  RangeEntry(lv, k) = LevelEntry(lv, l, k)
PROOF
  <1> DEFINE H == {m \in Levels : \E r \in RunSet(lv[m]) : r.data[k] # Absent}
             top == CHOOSE m \in H : \A n \in H : m <= n
  <1>1. \A m \in Levels : m \in H <=> LevelEntry(lv, m, k) # Absent
    BY LevelHit
  <1>2. H \subseteq Nat /\ l \in Nat
    BY LevelAssumption DEF Levels
  <1>3. l \in H /\ \A m \in H : l <= m
    BY <1>1, <1>2
  <1>4. top \in H /\ \A m \in H : top <= m
    <2> HIDE DEF H
    <2> QED BY <1>3
  <1>5. top = l
    <2> HIDE DEF H, top
    <2> QED BY <1>2, <1>3, <1>4
  <1> QED BY <1>3, <1>5 DEF RangeEntry, LevelEntry

LEMMA RangeNone ==
  ASSUME NEW lv, RankedLevels(lv), NEW k,
         \A l \in Levels : LevelEntry(lv, l, k) = Absent
  PROVE  RangeEntry(lv, k) = Absent
PROOF
  <1>1. {m \in Levels : \E r \in RunSet(lv[m]) : r.data[k] # Absent} = {}
    BY LevelHit
  <1> QED BY <1>1 DEF RangeEntry

LEMMA RangeCases ==
  ASSUME NEW lv, RankedLevels(lv), NEW k
  PROVE  \/ /\ \A l \in Levels : LevelEntry(lv, l, k) = Absent
            /\ RangeEntry(lv, k) = Absent
         \/ \E l \in Levels :
              /\ LevelEntry(lv, l, k) # Absent
              /\ \A m \in Levels : m < l => LevelEntry(lv, m, k) = Absent
              /\ RangeEntry(lv, k) = LevelEntry(lv, l, k)
PROOF
  <1> DEFINE H == {l \in Levels : LevelEntry(lv, l, k) # Absent}
  <1>1. CASE H = {}
    BY <1>1, RangeNone
  <1>2. CASE H # {}
    <2>1. H \subseteq Nat
      BY LevelAssumption DEF Levels
    <2>2. PICK l \in H : \A m \in H : l <= m
      <3> HIDE DEF H
      <3> QED BY <1>2, <2>1, LeastNumber
    <2>3. \A m \in Levels : m < l => LevelEntry(lv, m, k) = Absent
      <3>1. l \in Nat /\ \A m \in Levels : m \in Nat
        BY LevelAssumption DEF Levels
      <3> QED BY <2>2, <3>1
    <2> QED BY <2>2, <2>3, RangeIs
  <1> QED BY <1>1, <1>2

\* Levels with the same entries for a key read the same.
LEMMA RangeSame ==
  ASSUME NEW lv, RankedLevels(lv), NEW w, RankedLevels(w), NEW k,
         \A l \in Levels : LevelEntry(lv, l, k) = LevelEntry(w, l, k)
  PROVE  RangeEntry(lv, k) = RangeEntry(w, k)
PROOF
  <1>1. CASE \A l \in Levels : LevelEntry(lv, l, k) = Absent
    BY <1>1, RangeNone
  <1>2. CASE ~ \A l \in Levels : LevelEntry(lv, l, k) = Absent
    <2>1. PICK l \in Levels : /\ LevelEntry(lv, l, k) # Absent
                              /\ \A m \in Levels : m < l => LevelEntry(lv, m, k) = Absent
                              /\ RangeEntry(lv, k) = LevelEntry(lv, l, k)
      BY <1>2, RangeCases
    <2> QED BY <2>1, RangeIs
  <1> QED BY <1>1, <1>2

---------------------------------------------------------------------------
(* What the two writers of the levels, push and write-back, do to them.    *)

LEMMA NoRunsType ==
  NoRuns \in LevelMap /\ AllRuns(NoRuns) = {}
PROOF
  <1>1. <<>> \in Seq(Run) /\ RunSet(<<>>) = {}
    BY EmptySeq DEF RunSet
  <1> QED BY <1>1 DEF NoRuns, LevelMap, AllRuns

\* A level map built by replacing one level.
LEMMA ReplaceLevel ==
  ASSUME NEW lv \in LevelMap, NEW l \in Levels, NEW s \in Seq(Run)
  PROVE  /\ [lv EXCEPT ![l] = s] \in LevelMap
         /\ AllRuns([lv EXCEPT ![l] = s]) \subseteq AllRuns(lv) \union RunSet(s)
PROOF
  <1> DEFINE x == [lv EXCEPT ![l] = s]
  <1>1. x \in LevelMap
    BY DEF LevelMap
  <1>2. \A m \in Levels : x[m] = IF m = l THEN s ELSE lv[m]
    BY DEF LevelMap
  <1>3. AllRuns(x) \subseteq AllRuns(lv) \union RunSet(s)
    <2> SUFFICES ASSUME NEW m \in Levels, NEW r \in RunSet(x[m])
                 PROVE  r \in AllRuns(lv) \union RunSet(s)
      BY DEF AllRuns
    <2>1. CASE m = l
      BY <2>1, <1>2
    <2>2. CASE m # l
      BY <2>2, <1>2 DEF AllRuns
    <2> QED BY <2>1, <2>2
  <1> QED BY <1>1, <1>3

LEMMA AppendRuns ==
  ASSUME NEW s \in Seq(Run), NEW r \in Run
  PROVE  /\ Append(s, r) \in Seq(Run)
         /\ RunSet(Append(s, r)) = RunSet(s) \union {r}
         /\ Len(Append(s, r)) = Len(s) + 1
PROOF
  <1>1. /\ Append(s, r) \in Seq(Run)
        /\ Len(Append(s, r)) = Len(s) + 1
        /\ \A i \in 1 .. Len(s) : Append(s, r)[i] = s[i]
        /\ Append(s, r)[Len(s) + 1] = r
    BY AppendProperties
  <1>2. DOMAIN Append(s, r) = 1 .. Len(s) + 1 /\ DOMAIN s = 1 .. Len(s) /\ Len(s) \in Nat
    BY <1>1, LenProperties
  <1>3. \A i \in 1 .. Len(s) + 1 : i \in 1 .. Len(s) \/ i = Len(s) + 1
    BY <1>2
  <1> QED BY <1>1, <1>2, <1>3 DEF RunSet

\* DropFirst keeps a suffix.
LEMMA DropFirstRuns ==
  ASSUME NEW s \in Seq(Run), NEW n \in Nat
  PROVE  /\ DropFirst(s, n) \in Seq(Run)
         /\ RunSet(DropFirst(s, n)) \subseteq RunSet(s)
         /\ Len(DropFirst(s, n)) <= Len(s)
         /\ \A i \in 1 .. Len(DropFirst(s, n)) :
              n + i \in 1 .. Len(s) /\ DropFirst(s, n)[i] = s[n + i]
PROOF
  <1> DEFINE t == SubSeq(s, n + 1, Len(s))
  <1>1. Len(s) \in Nat /\ DOMAIN s = 1 .. Len(s)
    BY LenProperties
  <1>2. \A i \in (n + 1) .. Len(s) : s[i] \in Run
    BY <1>1, ElementOfSeq
  <1>3. /\ t \in Seq(Run)
        /\ Len(t) = IF n + 1 <= Len(s) THEN Len(s) - (n + 1) + 1 ELSE 0
        /\ \A i \in 1 .. Len(s) - (n + 1) + 1 : t[i] = s[n + 1 + i - 1]
    BY <1>1, <1>2, SubSeqProperties
  <1>4. \A i \in 1 .. Len(t) : n + i \in 1 .. Len(s) /\ t[i] = s[n + i]
    BY <1>1, <1>3
  <1>5. DOMAIN t = 1 .. Len(t)
    BY <1>3, LenProperties
  <1>6. RunSet(t) \subseteq RunSet(s)
    BY <1>1, <1>4, <1>5 DEF RunSet
  <1>7. Len(t) <= Len(s)
    BY <1>1, <1>3
  <1> QED BY <1>3, <1>4, <1>6, <1>7 DEF DropFirst

\* The write-back keeps the level map well formed and adds only its output.
LEMMA AppliedRuns ==
  ASSUME NEW lv \in LevelMap, NEW j \in Job
  PROVE  /\ Applied(lv, j) \in LevelMap
         /\ AllRuns(Applied(lv, j)) \subseteq AllRuns(lv) \union ({j.out} \ {None})
         /\ Len(Applied(lv, j)[0]) <= Len(lv[0])
PROOF
  <1> DEFINE src == j.src
             tgt == j.src + 1
             n == Len(j.snap[src])
             cut == [lv EXCEPT ![src] = DropFirst(@, n)]
  <1>1. src \in Levels /\ tgt \in Levels /\ tgt # 0 /\ tgt # src /\ 0 \in Levels
    BY SourceAndTarget DEF Job
  <1>2. lv[src] \in Seq(Run) /\ lv[tgt] \in Seq(Run) /\ lv[0] \in Seq(Run) /\ n \in Nat
    BY <1>1, LenProperties DEF LevelMap, Job
  <1>3. /\ DropFirst(lv[src], n) \in Seq(Run)
        /\ RunSet(DropFirst(lv[src], n)) \subseteq RunSet(lv[src])
        /\ Len(DropFirst(lv[src], n)) <= Len(lv[src])
    BY <1>2, DropFirstRuns
  <1>4. RunSet(lv[src]) \subseteq AllRuns(lv) /\ RunSet(lv[tgt]) \subseteq AllRuns(lv)
    BY <1>1, LevelRuns DEF LevelMap
  <1>5. cut = [lv EXCEPT ![src] = DropFirst(lv[src], n)]
    OBVIOUS
  <1>6. cut \in LevelMap /\ AllRuns(cut) \subseteq AllRuns(lv)
    BY <1>1, <1>3, <1>4, <1>5, ReplaceLevel
  <1>7. Len(cut[0]) <= Len(lv[0]) /\ cut[tgt] = lv[tgt]
    BY <1>1, <1>2, <1>3, LenProperties DEF LevelMap
  <1>8. CASE j.out = None
    <2>1. Applied(lv, j) = cut
      BY <1>8 DEF Applied
    <2> HIDE DEF cut
    <2> QED BY <1>6, <1>7, <2>1
  <1>9. CASE j.out # None
    <2> DEFINE s == IF tgt = MaxLevel THEN <<j.out>> ELSE Append(cut[tgt], j.out)
    <2>1. j.out \in Run
      BY <1>9 DEF Job
    <2>2. <<j.out>> \in Seq(Run) /\ RunSet(<<j.out>>) = {j.out}
      BY <2>1 DEF RunSet
    <2>3. /\ Append(cut[tgt], j.out) \in Seq(Run)
          /\ RunSet(Append(cut[tgt], j.out)) = RunSet(lv[tgt]) \union {j.out}
      BY <1>2, <1>7, <2>1, AppendRuns
    <2>4. s \in Seq(Run) /\ RunSet(s) \subseteq AllRuns(lv) \union {j.out}
      BY <1>4, <2>2, <2>3
    <2>5. Applied(lv, j) = [cut EXCEPT ![tgt] = s]
      BY <1>9 DEF Applied
    <2> HIDE DEF cut, s
    <2>6. /\ [cut EXCEPT ![tgt] = s] \in LevelMap
          /\ AllRuns([cut EXCEPT ![tgt] = s]) \subseteq AllRuns(cut) \union RunSet(s)
      BY <1>1, <1>6, <2>4, ReplaceLevel
    <2>7. [cut EXCEPT ![tgt] = s][0] = cut[0]
      BY <1>1, <1>6 DEF LevelMap
    <2> QED BY <1>6, <1>7, <1>9, <2>4, <2>5, <2>6, <2>7
  <1> QED BY <1>8, <1>9

---------------------------------------------------------------------------
(* Type correctness.  TypeOK alone is not inductive: that a merge of runs  *)
(* is an entry map needs a newest run for every key, hence run numbers     *)
(* below the counter; the steps after a push read the run in flight; and   *)
(* open makes a Vec of the runs that failed writes have left, so those are *)
(* finitely many and have a highest number.                                *)

RunsBelow(n) == {r \in Run : r.num < n}

NumsBelow ==
  /\ AllRuns(levels) \subseteq RunsBelow(next_run_number)
  /\ \A t \in Threads : AllRuns(job[t].snap) \subseteq RunsBelow(next_run_number)
  /\ \A t \in Threads : {job[t].out} \ {None} \subseteq RunsBelow(next_run_number)
  /\ {flight} \ {None} \subseteq RunsBelow(next_run_number)
  /\ \A s \in SnapIds : snapshots[s] # None =>
       AllRuns(snapshots[s].levels) \subseteq RunsBelow(next_run_number)

FlightHeld == pc["user"] \in {"push", "credit"} => flight \in Run

LeftInv ==
  /\ IsFiniteSet(left.runs)
  /\ \E n \in Nat : left.runs \subseteq RunsBelow(n)
  /\ pc["user"] # "closed" => left.runs \subseteq RunsBelow(next_run_number)
  /\ pc["user"] = "closed" => pc["bg"] = "exit"
  /\ IsFiniteSet(found)

TypeInv == TypeOK /\ NumsBelow /\ FlightHeld /\ LeftInv

LEMMA RunsBelowGrow ==
  ASSUME NEW n \in Nat
  PROVE  RunsBelow(n) \subseteq RunsBelow(n + 1)
PROOF BY DEF RunsBelow, Run

LEMMA NoJobType ==
  NoJob \in Job /\ NewJob \in Job /\ AllRuns(NoJob.snap) = {} /\ NoJob.out = None
    /\ AllRuns(NewJob.snap) = {} /\ NewJob.out = None
PROOF
  <1>1. 0 \in 0 .. MaxLevel - 1
    BY LevelAssumption
  <1> QED BY <1>1, NoRunsType DEF NoJob, NewJob, Job

LEMMA TypeInit == Init => TypeInv
PROOF
  <1> SUFFICES ASSUME Init PROVE TypeInv
    OBVIOUS
  <1>1. EmptyData \in Data
    BY DEF EmptyData, Data
  <1>2. TypeOK
    BY <1>1, NoJobType, NoRunsType
    DEF Init, TypeOK, ThreadsAt, Threads, UserPc, BgPc, NothingLeft
  <1>3. NumsBelow
    BY NoJobType, NoRunsType DEF Init, NumsBelow, Threads
  <1>4. FlightHeld
    BY DEF Init, FlightHeld, ThreadsAt, Threads
  <1>5. LeftInv
    BY FS_EmptySet DEF Init, LeftInv, NothingLeft, ThreadsAt, Threads, RunsBelow
  <1> QED BY <1>2, <1>3, <1>4, <1>5 DEF TypeInv

\* Runs that are left, with a bound, when a session with counter n is open.
LeftBelow(lf, n) ==
  /\ lf \in [runs : SUBSET Run, torn : Nat]
  /\ IsFiniteSet(lf.runs)
  /\ lf.runs \subseteq RunsBelow(n)

\* A session starts, or ends, in a well-typed state, holding the runs it starts
\* with.
LEMMA SessionType ==
  ASSUME NEW lv \in LevelMap, NEW n \in Nat, AllRuns(lv) \subseteq RunsBelow(n),
         IsFiniteSet(AllRuns(lv)),
         NEW p \in [Threads -> UserPc \union BgPc],
         p["user"] = "idle" \/ (p["user"] = "closed" /\ p["bg"] = "exit"),
         Session(lv, n, p),
         NEW m \in Nat, LeftBelow(left', m), p["user"] = "idle" => m = n
  PROVE  TypeInv' /\ HeldRuns' = AllRuns(lv)
PROOF
  <1>0. found' = AllRuns(lv) /\ AllRuns(lv) \subseteq Run
    BY DEF Session, RunsBelow
  <1>1. EmptyData \in Data
    BY DEF EmptyData, Data
  <1>2. TypeOK'
    BY <1>0, <1>1, NoJobType DEF Session, TypeOK, Threads, UserPc, BgPc, LeftBelow
  <1>3. NumsBelow'
    BY NoJobType DEF Session, NumsBelow, Threads
  <1>4. FlightHeld'
    BY DEF Session, FlightHeld
  <1>5. LeftInv'
    BY <1>0 DEF Session, LeftInv, LeftBelow
  <1>6. HeldRuns' = AllRuns(lv)
    BY NoJobType DEF Session, HeldRuns, Threads
  <1> QED BY <1>2, <1>3, <1>4, <1>5, <1>6 DEF TypeInv

\* What a step leaves in active/ when it leaves r there, or part of it.
LEMMA LeaveBehindType ==
  ASSUME TypeInv, pc["user"] # "closed", NEW n \in Nat, next_run_number <= n,
         NEW r \in RunsBelow(n), LeaveBehind(r) \/ UNCHANGED left
  PROVE  LeftBelow(left', n) /\ left'.runs \subseteq left.runs \union {r}
PROOF
  <1>0. /\ left \in [runs : SUBSET Run, torn : Nat] /\ next_run_number \in Nat
        /\ IsFiniteSet(left.runs) /\ left.runs \subseteq RunsBelow(next_run_number)
        /\ r \in Run /\ r.num \in Nat
    BY DEF TypeInv, TypeOK, LeftInv, RunsBelow, Run
  <1>1. left.runs \subseteq RunsBelow(n)
    BY <1>0 DEF RunsBelow, Run
  <1>2. Max({left.torn, r.num}) \in Nat
    BY <1>0, MaxOfTwo
  <1>3. IsFiniteSet(left.runs \union {r})
    BY <1>0, FS_AddElement
  <1>4. CASE UNCHANGED left
    BY <1>0, <1>1, <1>4 DEF LeftBelow
  <1>5. CASE left' = [left EXCEPT !.torn = Max({left.torn, r.num})]
    BY <1>0, <1>1, <1>2, <1>5 DEF LeftBelow
  <1>6. CASE left' = [left EXCEPT !.runs = left.runs \union {r}]
    BY <1>0, <1>1, <1>3, <1>6 DEF LeftBelow
  <1> QED BY <1>4, <1>5, <1>6 DEF LeaveBehind

\* Steps of an open session keep LeftInv.
LEMMA LeftKept ==
  ASSUME TypeInv, pc["user"] # "closed", pc'["user"] # "closed",
         next_run_number' \in Nat, LeftBelow(left', next_run_number'), UNCHANGED found
  PROVE  LeftInv'
PROOF BY DEF TypeInv, LeftInv, LeftBelow

LEMMA LeftSame ==
  ASSUME TypeInv, UNCHANGED <<left, found>>,
         next_run_number' \in {next_run_number, next_run_number + 1},
         \/ pc["user"] # "closed" /\ pc'["user"] # "closed"
         \/ pc' = pc /\ next_run_number' = next_run_number
  PROVE  LeftInv'
PROOF
  <1>0. next_run_number \in Nat
    BY DEF TypeInv, TypeOK
  <1>1. RunsBelow(next_run_number) \subseteq RunsBelow(next_run_number')
    BY <1>0, RunsBelowGrow
  <1> QED BY <1>1 DEF TypeInv, LeftInv

---------------------------------------------------------------------------
(* What open makes of the runs in active/.                                 *)

Relevelled(R) == {[r EXCEPT !.level = 0] : r \in R}

LEMMA RelevelledIs ==
  ASSUME NEW R, R \subseteq Run
  PROVE  /\ Relevelled(R) \subseteq Run
         /\ \A q \in Relevelled(R) : q.level = 0
         /\ \A q \in Relevelled(R) : \E r \in R : q.num = r.num /\ q.data = r.data
         /\ \A n \in Nat : R \subseteq RunsBelow(n) => Relevelled(R) \subseteq RunsBelow(n)
         /\ (\A r, q \in R : r.num = q.num => r = q)
              => \A r, q \in Relevelled(R) : r.num = q.num => r = q
         /\ IsFiniteSet(R) => IsFiniteSet(Relevelled(R))
PROOF
  <1> DEFINE f == [r \in R |-> [r EXCEPT !.level = 0]]
  <1>1. ASSUME NEW r \in R
        PROVE  f[r] \in Run /\ f[r].num = r.num /\ f[r].level = 0 /\ f[r].data = r.data
    <2>1. r \in Run /\ 0 \in Levels
      BY LevelAssumption DEF Levels
    <2> QED BY <2>1 DEF Run
  <1>2. Relevelled(R) = {f[r] : r \in R}
    BY DEF Relevelled
  <1>3. f \in [R -> Relevelled(R)] /\ \A q \in Relevelled(R) : \E r \in R : f[r] = q
    BY <1>2
  <1> HIDE DEF f
  <1>4. f \in Surjection(R, Relevelled(R))
    BY <1>3, Fun_IsSurj
  <1>5. IsFiniteSet(R) => IsFiniteSet(Relevelled(R))
    BY <1>4, FS_Surjection
  <1>6. Relevelled(R) \subseteq Run
    BY <1>1, <1>2
  <1>7. (\A r, q \in R : r.num = q.num => r = q)
          => \A r, q \in Relevelled(R) : r.num = q.num => r = q
    BY <1>1, <1>3
  <1> QED BY <1>1, <1>2, <1>5, <1>6, <1>7 DEF RunsBelow

\* The first state of a session that open starts.
LEMMA OpenStarts ==
  ASSUME TypeInv, NEW s \in Orders(Openable), OpenAs(s)
  PROVE  LET lv == [NoRuns EXCEPT ![0] = s]
         IN  /\ lv \in LevelMap
             /\ AllRuns(lv) = Relevelled(left.runs)
             /\ RunSet(lv[0]) = Relevelled(left.runs)
             /\ Len(lv[0]) = Cardinality(Relevelled(left.runs))
             /\ \A l \in Levels \ {0} : lv[l] = <<>>
             /\ LastNumber + 1 \in Nat
             /\ Relevelled(left.runs) \subseteq RunsBelow(LastNumber + 1)
             /\ IsFiniteSet(Relevelled(left.runs))
             /\ left'.runs = {}
             /\ LeftBelow(left', LastNumber + 1)
PROOF
  <1> DEFINE R == left.runs
             Q == Relevelled(left.runs)
             S == {left.torn} \union {r.num : r \in left.runs}
             lv == [NoRuns EXCEPT ![0] = s]
  <1>1. /\ R \subseteq Run /\ IsFiniteSet(R) /\ left \in [runs : SUBSET Run, torn : Nat]
        /\ left.torn \in Nat
    BY DEF TypeInv, TypeOK, LeftInv
  <1>2. PICK n \in Nat : R \subseteq RunsBelow(n)
    BY DEF TypeInv, LeftInv
  <1>3. Openable = Q
    BY DEF Openable, Relevelled
  <1>4. Q \subseteq Run /\ IsFiniteSet(Q) /\ Cardinality(Q) \in Nat
    BY <1>1, RelevelledIs, FS_CardinalityType
  <1>5. s \in [1 .. Cardinality(Q) -> Q] /\ RunSet(s) = Q
    BY <1>3 DEF Orders
  <1>6. Max(S) \in Nat /\ \A x \in S : x <= Max(S)
    <2> DEFINE m == n + left.torn + 1
    <2>1. \A r \in R : r.num \in Nat /\ r.num < n
      BY <1>2 DEF RunsBelow, Run
    <2>2. S \subseteq Nat /\ S # {} /\ m \in Nat /\ \A x \in S : x < m
      BY <1>1, <2>1
    <2> HIDE DEF S, m
    <2> QED BY <2>2, MaxIs
  <1>7. LastNumber = Max(S)
    BY DEF LastNumber
  <1>8. R \subseteq RunsBelow(LastNumber + 1)
    <2>1. \A r \in R : r \in Run /\ r.num \in Nat /\ r.num \in S
      BY <1>1 DEF Run
    <2> HIDE DEF S
    <2> QED BY <1>6, <1>7, <2>1 DEF RunsBelow
  <1>9. LastNumber + 1 \in Nat
    <2> HIDE DEF S
    <2> QED BY <1>6, <1>7
  <1>10. Q \subseteq RunsBelow(LastNumber + 1)
    BY <1>1, <1>8, <1>9, RelevelledIs
  <1>11. s \in Seq(Run) /\ Len(s) = Cardinality(Q)
    <2> HIDE DEF Q
    <2>1. s \in [1 .. Cardinality(Q) -> Run]
      BY <1>4, <1>5
    <2>2. s \in Seq(Run)
      BY <1>4, <2>1, SeqDef
    <2>3. DOMAIN s = 1 .. Cardinality(Q) /\ DOMAIN s = 1 .. Len(s) /\ Len(s) \in Nat
      BY <2>1, <2>2, LenProperties
    <2> QED BY <1>4, <2>2, <2>3
  <1>12. 0 \in Levels
    BY LevelAssumption DEF Levels
  <1>13. lv \in LevelMap
    BY <1>11, <1>12, NoRunsType, ReplaceLevel
  <1>14. \A l \in Levels : lv[l] = IF l = 0 THEN s ELSE <<>>
    BY <1>12 DEF NoRuns
  <1>15. AllRuns(lv) = Q
    <2>1. RunSet(<<>>) = {}
      BY DEF RunSet
    <2> HIDE DEF lv, Q
    <2> QED BY <1>5, <1>12, <1>14, <2>1 DEF AllRuns
  <1>16. left' = [left EXCEPT !.runs = {}]
    BY DEF OpenAs
  <1>17. left'.runs = {} /\ LeftBelow(left', LastNumber + 1)
    BY <1>1, <1>16, FS_EmptySet DEF LeftBelow
  <1> HIDE DEF lv, Q, R
  <1>18. lv[0] = s
    BY <1>12, <1>14
  <1>19. /\ lv \in LevelMap /\ AllRuns(lv) = Q /\ RunSet(lv[0]) = Q /\ Len(lv[0]) = Cardinality(Q)
         /\ \A l \in Levels \ {0} : lv[l] = <<>>
    BY <1>5, <1>11, <1>13, <1>14, <1>15, <1>18
  <1> QED BY <1>4, <1>9, <1>10, <1>17, <1>19 DEF lv, Q

LEMMA Opened ==
  ASSUME TypeInv, NEW s \in Orders(Openable), OpenAs(s)
  PROVE  /\ found' = Relevelled(left.runs) /\ IsFiniteSet(found')
         /\ levels' \in LevelMap /\ AllRuns(levels') = found'
         /\ RunSet(levels'[0]) = found' /\ Len(levels'[0]) = Cardinality(found')
         /\ \A l \in Levels \ {0} : levels'[l] = <<>>
         /\ memtable' = EmptyData
         /\ snapshots' = [i \in SnapIds |-> None]
         /\ job' = [t \in Threads |-> NoJob]
         /\ pc["user"] = "closed" /\ pc' = ThreadsAt("idle", "wait")
         /\ left'.runs = {} /\ generation' = 0 /\ flight' = None
PROOF
  <1>1. Session([NoRuns EXCEPT ![0] = s], LastNumber + 1, ThreadsAt("idle", "wait"))
          /\ pc["user"] = "closed"
    BY DEF OpenAs, StartSession
  <1>2. levels' = [NoRuns EXCEPT ![0] = s] /\ found' = AllRuns(levels')
    BY <1>1 DEF Session
  <1>3. /\ levels' \in LevelMap
        /\ AllRuns(levels') = Relevelled(left.runs)
        /\ RunSet(levels'[0]) = Relevelled(left.runs)
        /\ Len(levels'[0]) = Cardinality(Relevelled(left.runs))
        /\ \A l \in Levels \ {0} : levels'[l] = <<>>
        /\ IsFiniteSet(Relevelled(left.runs))
        /\ left'.runs = {}
    BY <1>2, OpenStarts
  <1> QED BY <1>1, <1>2, <1>3 DEF Session

---------------------------------------------------------------------------
(* Every step keeps the types.                                             *)

\* The four write calls, which may start a flush.
LEMMA TypeWrite ==
  ASSUME TypeInv, NEW m \in Data, WriteMemtable(m)
  PROVE  TypeInv'
PROOF
  <1> USE DEF TypeInv, WriteMemtable, StartFlush, UserGoto
  <1>1. EmptyData \in Data
    BY DEF EmptyData, Data
  <1>2. [num |-> next_run_number, level |-> 0, data |-> m] \in Run
    BY LevelAssumption DEF TypeOK, Run, Levels
  <1>3. TypeOK'
    BY <1>1, <1>2 DEF TypeOK, Threads, UserPc
  <1>4. NumsBelow'
    <2>1. /\ RunsBelow(next_run_number) \subseteq RunsBelow(next_run_number')
          /\ RunsBelow(next_run_number) \subseteq RunsBelow(next_run_number + 1)
      BY RunsBelowGrow DEF TypeOK
    <2>2. [num |-> next_run_number, level |-> 0, data |-> m] \in RunsBelow(next_run_number + 1)
      BY <1>2 DEF RunsBelow, TypeOK
    <2>3. {flight'} \ {None} \subseteq RunsBelow(next_run_number')
      BY <2>1, <2>2 DEF NumsBelow
    <2> QED BY <2>1, <2>3 DEF NumsBelow
  <1>5. FlightHeld'
    BY <1>2 DEF FlightHeld, TypeOK, Threads, Idle
  <1>6. LeftInv'
    <2>1. pc["user"] # "closed" /\ pc'["user"] # "closed"
      BY DEF TypeOK, Threads, Idle
    <2> QED BY <2>1, LeftSame
  <1> QED BY <1>3, <1>4, <1>5, <1>6

\* The steps of flush_memtable.
LEMMA TypeFlush ==
  ASSUME TypeInv, Flush
  PROVE  TypeInv'
PROOF
  <1> USE DEF TypeInv, UserGoto
  <1>0. /\ pc["user"] # "closed" /\ pc'["user"] # "closed"
        /\ next_run_number' = next_run_number /\ next_run_number \in Nat
    BY DEF Flush, FlushFail, FlushPush, FlushCredit, FlushSignal, FlushPoll, FlushResume,
           TypeOK, Threads, vars
  <1>1. CASE FlushFail
    <2>1. flight \in RunsBelow(next_run_number)
      BY <1>1, TreeAssumption DEF FlushFail, FlightHeld, NumsBelow
    <2>2. LeftBelow(left', next_run_number)
      BY <1>0, <1>1, <2>1, LeaveBehindType DEF FlushFail
    <2>3. TypeOK'
      BY <1>1, <2>2 DEF FlushFail, TypeOK, Threads, UserPc, LeftBelow
    <2>4. NumsBelow' /\ FlightHeld'
      BY <1>1 DEF FlushFail, NumsBelow, FlightHeld, TypeOK, Threads
    <2>5. LeftInv'
      BY <1>0, <1>1, <2>2, LeftKept DEF FlushFail
    <2> QED BY <2>3, <2>4, <2>5
  <1>2. CASE FlushPush
    <2>1. flight \in Run /\ 0 \in Levels /\ levels[0] \in Seq(Run)
      BY <1>2, LevelAssumption DEF FlushPush, FlightHeld, TypeOK, LevelMap, Levels
    <2>2. Append(levels[0], flight) \in Seq(Run)
          /\ RunSet(Append(levels[0], flight)) = RunSet(levels[0]) \union {flight}
      BY <2>1, AppendRuns
    <2>3. levels' = [levels EXCEPT ![0] = Append(levels[0], flight)]
      BY <1>2 DEF FlushPush
    <2>4. /\ levels' \in LevelMap
          /\ AllRuns(levels') \subseteq AllRuns(levels) \union RunSet(Append(levels[0], flight))
      BY <2>1, <2>2, <2>3, ReplaceLevel DEF TypeOK
    <2>5. RunSet(levels[0]) \subseteq AllRuns(levels)
      BY <2>1, LevelRuns DEF TypeOK, LevelMap
    <2>6. AllRuns(levels') \subseteq RunsBelow(next_run_number)
      BY <2>1, <2>2, <2>4, <2>5, TreeAssumption DEF NumsBelow
    <2>7. TypeOK'
      BY <1>2, <2>4 DEF FlushPush, TypeOK, Threads, UserPc
    <2>8. NumsBelow'
      BY <1>2, <2>6 DEF FlushPush, NumsBelow
    <2>9. FlightHeld'
      BY <1>2, <2>1 DEF FlushPush, FlightHeld
    <2>10. LeftInv'
      BY <1>0, <1>2, LeftSame DEF FlushPush
    <2> QED BY <2>7, <2>8, <2>9, <2>10
  <1>3. CASE FlushCredit
    <2>1. NumEntries(flight) \in Nat
      BY <1>3, NumEntriesType DEF FlushCredit, FlightHeld
    <2>2. TypeOK'
      BY <1>3, <2>1 DEF FlushCredit, TypeOK, Threads, UserPc
    <2>3. NumsBelow' /\ FlightHeld'
      BY <1>3 DEF FlushCredit, NumsBelow, FlightHeld, TypeOK, Threads
    <2>4. LeftInv'
      BY <1>0, <1>3, LeftSame DEF FlushCredit
    <2> QED BY <2>2, <2>3, <2>4
  <1>4. CASE FlushSignal
    <2>1. TypeOK'
      BY <1>4 DEF FlushSignal, TypeOK, Threads, UserPc
    <2>2. NumsBelow' /\ FlightHeld'
      BY <1>4 DEF FlushSignal, NumsBelow, FlightHeld, TypeOK, Threads
    <2>3. LeftInv'
      BY <1>0, <1>4, LeftSame DEF FlushSignal
    <2> QED BY <2>1, <2>2, <2>3
  <1>5. CASE FlushPoll
    BY <1>5 DEF FlushPoll, vars, TypeOK, NumsBelow, FlightHeld, LeftInv
  <1>6. CASE FlushResume
    <2>1. TypeOK'
      BY <1>6 DEF FlushResume, TypeOK, Threads, UserPc
    <2>2. NumsBelow' /\ FlightHeld'
      BY <1>6 DEF FlushResume, NumsBelow, FlightHeld, TypeOK, Threads
    <2>3. LeftInv'
      BY <1>0, <1>6, LeftSame DEF FlushResume
    <2> QED BY <2>1, <2>2, <2>3
  <1> QED BY <1>1, <1>2, <1>3, <1>4, <1>5, <1>6 DEF Flush

\* What a merge writes is a run with the counter's number, or nothing.
LEMMA OutputRunType ==
  ASSUME next_run_number \in Nat, NEW l \in Levels, NEW d \in Data
  PROVE  /\ OutputRun(l, d) \in Run \union {None}
         /\ {OutputRun(l, d)} \ {None} \subseteq RunsBelow(next_run_number + 1)
         /\ OutputRun(l, d) = None => Present(d) = {}
         /\ OutputRun(l, d) # None =>
              /\ OutputRun(l, d) = [num |-> next_run_number, level |-> l, data |-> d]
              /\ Present(d) # {}
PROOF
  <1> DEFINE r == [num |-> next_run_number, level |-> l, data |-> d]
  <1>1. r \in Run /\ r \in RunsBelow(next_run_number + 1)
    BY DEF Run, RunsBelow
  <1>2. OutputRun(l, d) = IF Present(d) = {} THEN None ELSE r
    BY DEF OutputRun
  <1> HIDE DEF r
  <1>3. /\ OutputRun(l, d) # None => Present(d) # {} /\ OutputRun(l, d) = r
        /\ OutputRun(l, d) = None => Present(d) = {}
    BY <1>1, <1>2, TreeAssumption
  <1> QED BY <1>1, <1>2, <1>3 DEF r

LEMMA MergedRunType ==
  ASSUME TypeInv, NEW t \in Threads
  PROVE  /\ MergedRun(job[t]) \in Run \union {None}
         /\ {MergedRun(job[t])} \ {None} \subseteq RunsBelow(next_run_number + 1)
         /\ MergedRun(job[t]) = None => Present(CompactLevels(job[t].snap, job[t].src)) = {}
         /\ MergedRun(job[t]) # None =>
              /\ MergedRun(job[t]).num = next_run_number
              /\ MergedRun(job[t]).level = job[t].src + 1
              /\ MergedRun(job[t]).data = CompactLevels(job[t].snap, job[t].src)
              /\ Present(MergedRun(job[t]).data) # {}
PROOF
  <1> DEFINE d == CompactLevels(job[t].snap, job[t].src)
  <1>1. /\ job[t].snap \in [Levels -> Seq(Run)] /\ job[t].src \in 0 .. MaxLevel - 1
        /\ next_run_number \in Nat
    BY DEF TypeInv, TypeOK, Job, LevelMap
  <1>2. \A q \in AllRuns(job[t].snap) : q.num < next_run_number
    BY DEF TypeInv, NumsBelow, RunsBelow
  <1>3. d \in Data /\ job[t].src + 1 \in Levels
    BY <1>1, <1>2, CompactLevelsType, SourceAndTarget
  <1>4. MergedRun(job[t]) = OutputRun(job[t].src + 1, d)
    BY DEF MergedRun
  <1> HIDE DEF d
  <1>50. MergedRun(job[t]) = None => Present(d) = {}
    BY <1>1, <1>3, <1>4, OutputRunType
  <1>5. MergedRun(job[t]) # None =>
          /\ MergedRun(job[t]) = [num |-> next_run_number, level |-> job[t].src + 1, data |-> d]
          /\ Present(d) # {}
    BY <1>1, <1>3, <1>4, OutputRunType
  <1> QED BY <1>1, <1>3, <1>4, <1>5, <1>50, OutputRunType DEF d

LEMMA MergedAllType ==
  ASSUME TypeInv
  PROVE  /\ MergedAll \in Run \union {None}
         /\ {MergedAll} \ {None} \subseteq RunsBelow(next_run_number + 1)
         /\ MergedAll # None =>
              /\ MergedAll.num = next_run_number
              /\ MergedAll.data = CompactAllRuns(job["user"].snap)
              /\ Present(MergedAll.data) # {}
PROOF
  <1> DEFINE d == CompactAllRuns(job["user"].snap)
  <1>1. /\ job["user"].snap \in [Levels -> Seq(Run)] /\ 0 \in Levels
        /\ next_run_number \in Nat /\ "user" \in Threads
    <2>1. "user" \in Threads /\ 0 \in Levels
      BY LevelAssumption DEF Threads, Levels
    <2> QED BY <2>1 DEF TypeInv, TypeOK, Job, LevelMap
  <1>2. \A q \in AllRuns(job["user"].snap) : q.num < next_run_number
    BY <1>1 DEF TypeInv, NumsBelow, RunsBelow
  <1>3. d \in Data
    BY <1>1, <1>2, CompactAllRunsType
  <1>4. MergedAll = OutputRun(0, d)
    BY DEF MergedAll
  <1> HIDE DEF d
  <1>5. MergedAll # None =>
          /\ MergedAll = [num |-> next_run_number, level |-> 0, data |-> d]
          /\ Present(d) # {}
    BY <1>1, <1>3, <1>4, OutputRunType
  <1> QED BY <1>1, <1>3, <1>4, <1>5, OutputRunType DEF d

\* A merge that fails drops its job and may leave its output.
LEMMA TypeFailedMerge ==
  ASSUME TypeInv, NEW t \in Threads, pc["user"] # "closed",
         NEW r \in Run \union {None}, {r} \ {None} \subseteq RunsBelow(next_run_number + 1),
         FailedMerge(t, r)
  PROVE  /\ TypeInv'
         /\ left'.runs \subseteq left.runs \union ({r} \ {None})
         /\ \A u \in Threads : job'[u] = job[u] \/ job'[u] = NoJob
PROOF
  <1> USE DEF TypeInv
  <1>0. next_run_number \in Nat /\ next_run_number' = next_run_number + 1
    BY DEF TypeOK, FailedMerge
  <1>1. /\ job' \in [Threads -> Job]
        /\ pc' \in [Threads -> UserPc \union BgPc]
        /\ pc'["user"] = pc["user"] \/ pc'["user"] = "idle"
        /\ \A u \in Threads : job'[u] = job[u] \/ job'[u] = NoJob
    BY NoJobType DEF FailedMerge, Return, TypeOK, Threads, UserPc, BgPc
  <1>2. RunsBelow(next_run_number) \subseteq RunsBelow(next_run_number + 1)
    BY <1>0, RunsBelowGrow
  <1>3. /\ LeftBelow(left', next_run_number + 1)
        /\ left'.runs \subseteq left.runs \union ({r} \ {None})
    <2>1. CASE r = None
      <3>1. left' = left
        BY <2>1 DEF FailedMerge
      <3> QED BY <1>2, <3>1 DEF TypeOK, LeftInv, LeftBelow
    <2>2. CASE r # None
      <3>1. LeaveBehind(r) /\ r \in RunsBelow(next_run_number + 1)
        BY <2>2 DEF FailedMerge
      <3>2. next_run_number <= next_run_number + 1 /\ next_run_number + 1 \in Nat
        BY <1>0
      <3> QED BY <2>2, <3>1, <3>2, LeaveBehindType
    <2> QED BY <2>1, <2>2
  <1>4. TypeOK'
    BY <1>0, <1>1, <1>3 DEF FailedMerge, TypeOK, LeftBelow
  <1>5. NumsBelow'
    BY <1>1, <1>2, NoJobType DEF FailedMerge, NumsBelow
  <1>6. FlightHeld'
    BY <1>1 DEF FailedMerge, FlightHeld
  <1>7. LeftInv'
    BY <1>0, <1>1, <1>3, LeftKept DEF FailedMerge
  <1> QED BY <1>1, <1>3, <1>4, <1>5, <1>6, <1>7

\* No thread compacts in a closed tree.
LEMMA StageOpen ==
  ASSUME TypeInv, NEW t \in Threads, pc[t] = "compacting"
  PROVE  pc["user"] # "closed"
PROOF BY DEF TypeInv, LeftInv, Threads

\* The steps of run_compaction, in either thread.
LEMMA TypeRunCompaction ==
  ASSUME TypeInv, NEW t \in Threads, RunCompaction(t)
  PROVE  TypeInv'
PROOF
  <1> USE DEF TypeInv
  <1>0. job[t] \in Job /\ next_run_number \in Nat
    BY DEF TypeOK
  <1>00. pc["user"] # "closed"
    BY StageOpen DEF RunCompaction, LoadGeneration, CloneAndSelect, Merge, MergeFail,
                     WriteBack, InStage
  <1>1. CASE LoadGeneration(t)
    <2>1. job' \in [Threads -> Job] /\ job'[t].snap = job[t].snap /\ job'[t].out = job[t].out
      BY <1>1, <1>0 DEF LoadGeneration, TypeOK, Job
    <2>2. TypeOK'
      BY <1>1, <2>1 DEF LoadGeneration, TypeOK
    <2>3. NumsBelow'
      BY <1>1, <2>1 DEF LoadGeneration, NumsBelow, TypeOK
    <2>4. FlightHeld'
      BY <1>1 DEF LoadGeneration, FlightHeld
    <2>5. LeftInv'
      BY <1>00, <1>1, LeftSame DEF LoadGeneration
    <2> QED BY <2>2, <2>3, <2>4, <2>5
  <1>2. ASSUME Return(t) PROVE /\ job' \in [Threads -> Job]
                               /\ pc' \in [Threads -> UserPc \union BgPc]
                               /\ pc'["user"] = pc["user"] \/ pc'["user"] = "idle"
                               /\ \A u \in Threads : job'[u] = job[u] \/ job'[u] = NoJob
    BY <1>2, NoJobType DEF Return, TypeOK, Threads, UserPc, BgPc
  <1>3. CASE CloneAndSelect(t)
    <2>1. CASE Return(t)
      <3>1. TypeOK'
        BY <1>2, <1>3, <2>1 DEF CloneAndSelect, TypeOK
      <3>2. NumsBelow'
        BY <1>2, <1>3, <2>1, NoJobType DEF CloneAndSelect, NumsBelow
      <3>3. FlightHeld'
        BY <1>2, <1>3, <2>1 DEF CloneAndSelect, FlightHeld
      <3>4. LeftInv'
        BY <1>00, <1>2, <1>3, <2>1, LeftSame DEF CloneAndSelect
      <3> QED BY <3>1, <3>2, <3>3, <3>4
    <2>2. CASE ~ Return(t)
      <3>1. PICK l \in SelectLevel(levels) :
              /\ job' = [job EXCEPT ![t].stage = "merge", ![t].snap = levels, ![t].src = l]
              /\ UNCHANGED pc
        BY <1>3, <2>2 DEF CloneAndSelect
      <3>2. l \in 0 .. MaxLevel - 1
        BY SelectLevelType
      <3>3. job' \in [Threads -> Job] /\ job'[t].snap = levels /\ job'[t].out = job[t].out
        BY <1>0, <3>1, <3>2 DEF TypeOK, Job
      <3>4. \A u \in Threads : u # t => job'[u] = job[u]
        BY <3>1 DEF TypeOK
      <3>5. TypeOK'
        BY <1>3, <3>1, <3>3 DEF CloneAndSelect, TypeOK
      <3>6. NumsBelow'
        BY <1>3, <3>3, <3>4 DEF CloneAndSelect, NumsBelow
      <3>7. FlightHeld'
        BY <1>3, <3>1 DEF CloneAndSelect, FlightHeld
      <3>8. LeftInv'
        BY <1>00, <1>3, <3>1, LeftSame DEF CloneAndSelect
      <3> QED BY <3>5, <3>6, <3>7, <3>8
    <2> QED BY <2>1, <2>2
  <1>4. RunsBelow(next_run_number) \subseteq RunsBelow(next_run_number + 1)
    BY <1>0, RunsBelowGrow
  <1>5. CASE Merge(t)
    <2> DEFINE o == MergedRun(job[t])
    <2>1. o \in Run \union {None} /\ {o} \ {None} \subseteq RunsBelow(next_run_number + 1)
      BY MergedRunType
    <2>2. job' = [job EXCEPT ![t].stage = "write", ![t].out = o]
      BY <1>5 DEF Merge
    <2> HIDE DEF o
    <2>3. job' \in [Threads -> Job] /\ job'[t].snap = job[t].snap /\ job'[t].out = o
      BY <1>0, <2>1, <2>2 DEF TypeOK, Job
    <2>4. \A u \in Threads : u # t => job'[u] = job[u]
      BY <2>2 DEF TypeOK
    <2>5. TypeOK'
      BY <1>0, <1>5, <2>3 DEF Merge, TypeOK
    <2>6. NumsBelow'
      BY <1>4, <1>5, <2>1, <2>3, <2>4 DEF Merge, NumsBelow
    <2>7. FlightHeld' /\ LeftInv'
      BY <1>00, <1>5, LeftSame DEF Merge, FlightHeld
    <2> QED BY <2>5, <2>6, <2>7
  <1>6. CASE MergeFail(t)
    BY <1>00, <1>6, MergedRunType, TypeFailedMerge DEF MergeFail
  <1>7. CASE WriteBack(t)
    <2>1. /\ Applied(levels, job[t]) \in LevelMap
          /\ AllRuns(Applied(levels, job[t])) \subseteq AllRuns(levels) \union ({job[t].out} \ {None})
      BY <1>0, AppliedRuns DEF TypeOK
    <2>2. levels' \in LevelMap /\ AllRuns(levels') \subseteq RunsBelow(next_run_number)
      BY <1>7, <2>1 DEF WriteBack, TypeOK, NumsBelow
    <2>3. TypeOK'
      BY <1>2, <1>7, <2>2 DEF WriteBack, TypeOK
    <2>4. NumsBelow'
      BY <1>2, <1>7, <2>2, NoJobType DEF WriteBack, NumsBelow
    <2>5. FlightHeld'
      BY <1>2, <1>7 DEF WriteBack, FlightHeld
    <2>6. LeftInv'
      BY <1>00, <1>2, <1>7, LeftSame DEF WriteBack
    <2> QED BY <2>3, <2>4, <2>5, <2>6
  <1> QED BY <1>1, <1>3, <1>5, <1>6, <1>7 DEF RunCompaction

\* The background loop.
LEMMA TypeBackground ==
  ASSUME TypeInv, Background
  PROVE  TypeInv'
PROOF
  <1> USE DEF TypeInv
  <1>0. ASSUME BgWake \/ BgCredit \/ BgExit PROVE LeftInv'
    <2>1. pc["user"] # "closed"
      BY <1>0 DEF BgWake, BgCredit, BgExit, LeftInv
    <2>2. pc'["user"] = pc["user"]
      BY <1>0 DEF BgWake, BgCredit, BgExit, TypeOK, Threads
    <2>3. UNCHANGED <<left, found, next_run_number>>
      BY <1>0 DEF BgWake, BgCredit, BgExit
    <2> QED BY <2>1, <2>2, <2>3, LeftSame
  <1>1. RunCompaction("bg") => TypeInv'
    BY TypeRunCompaction DEF Threads
  <1>2. CASE BgWake
    <2>1. /\ job' \in [Threads -> Job]
          /\ \A u \in Threads : job'[u] = job[u] \/ job'[u] = NewJob
      BY <1>2, NoJobType DEF BgWake, TypeOK
    <2>2. TypeOK'
      BY <1>2, <2>1 DEF BgWake, TypeOK, Threads, BgPc
    <2>3. NumsBelow'
      BY <1>2, <2>1, NoJobType DEF BgWake, NumsBelow
    <2>4. FlightHeld'
      BY <1>2 DEF BgWake, FlightHeld, TypeOK, Threads
    <2> QED BY <1>0, <1>2, <2>2, <2>3, <2>4
  <1>3. CASE BgCredit
    <2>1. TypeOK'
      BY <1>3, TreeAssumption DEF BgCredit, TypeOK, Threads, BgPc
    <2>2. NumsBelow' /\ FlightHeld'
      BY <1>3 DEF BgCredit, NumsBelow, FlightHeld, TypeOK, Threads
    <2> QED BY <1>0, <1>3, <2>1, <2>2
  <1>4. CASE BgExit
    <2>1. TypeOK'
      BY <1>4 DEF BgExit, TypeOK, Threads, BgPc
    <2>2. NumsBelow' /\ FlightHeld'
      BY <1>4 DEF BgExit, NumsBelow, FlightHeld, TypeOK, Threads
    <2> QED BY <1>0, <1>4, <2>1, <2>2
  <1> QED BY <1>1, <1>2, <1>3, <1>4 DEF Background

\* compact and compact_all in the caller's thread.
LEMMA TypeManualCompaction ==
  ASSUME TypeInv, ManualCompaction
  PROVE  TypeInv'
PROOF
  <1> USE DEF TypeInv, UserGoto
  <1>0. "user" \in Threads /\ job["user"] \in Job /\ next_run_number \in Nat
    BY DEF TypeOK, Threads
  <1>1. RunsBelow(next_run_number) \subseteq RunsBelow(next_run_number + 1)
    BY <1>0, RunsBelowGrow
  <1>2. CASE Compact
    <2>1. /\ job' \in [Threads -> Job]
          /\ \A u \in Threads : job'[u] = job[u] \/ job'[u] = NewJob
      BY <1>2, NoJobType DEF Compact, TypeOK
    <2>2. TypeOK'
      BY <1>2, <2>1 DEF Compact, TypeOK, Threads, UserPc
    <2>3. NumsBelow'
      BY <1>2, <2>1, NoJobType DEF Compact, NumsBelow
    <2>4. FlightHeld'
      BY <1>2 DEF Compact, FlightHeld, TypeOK, Threads
    <2>5. LeftInv'
      BY <1>0, <1>2, LeftSame DEF Compact, Idle, TypeOK
    <2> QED BY <2>2, <2>3, <2>4, <2>5
  <1>3. CASE RunCompaction("user")
    BY <1>0, <1>3, TypeRunCompaction
  <1>4. CASE CompactAll
    <2>1. /\ job' \in [Threads -> Job]
          /\ job'["user"].snap = levels /\ job'["user"].out = job["user"].out
          /\ \A u \in Threads : u # "user" => job'[u] = job[u]
      BY <1>0, <1>4 DEF CompactAll, TypeOK, Job
    <2>2. TypeOK'
      BY <1>4, <2>1 DEF CompactAll, TypeOK, Threads, UserPc
    <2>3. NumsBelow'
      BY <1>4, <2>1 DEF CompactAll, NumsBelow
    <2>4. FlightHeld'
      BY <1>4 DEF CompactAll, FlightHeld, TypeOK, Threads
    <2>5. LeftInv'
      BY <1>0, <1>4, LeftSame DEF CompactAll, Idle, TypeOK
    <2> QED BY <2>2, <2>3, <2>4, <2>5
  <1>5. CASE MergeAll
    <2> DEFINE o == MergedAll
    <2>1. o \in Run \union {None} /\ {o} \ {None} \subseteq RunsBelow(next_run_number + 1)
      BY MergedAllType
    <2>2. job' = [job EXCEPT !["user"].out = o]
      BY <1>5 DEF MergeAll
    <2> HIDE DEF o
    <2>3. /\ job' \in [Threads -> Job]
          /\ job'["user"].snap = job["user"].snap /\ job'["user"].out = o
          /\ \A u \in Threads : u # "user" => job'[u] = job[u]
      BY <1>0, <2>1, <2>2 DEF TypeOK, Job
    <2>4. TypeOK'
      BY <1>0, <1>5, <2>3 DEF MergeAll, TypeOK, Threads, UserPc
    <2>5. NumsBelow'
      BY <1>1, <1>5, <2>1, <2>3 DEF MergeAll, NumsBelow
    <2>6. FlightHeld'
      BY <1>5 DEF MergeAll, FlightHeld, TypeOK, Threads
    <2>7. LeftInv'
      BY <1>0, <1>5, LeftSame DEF MergeAll, TypeOK
    <2> QED BY <2>4, <2>5, <2>6, <2>7
  <1>6. ASSUME Return("user")
        PROVE  /\ job' \in [Threads -> Job]
               /\ pc' \in [Threads -> UserPc \union BgPc]
               /\ pc'["user"] = "idle"
               /\ \A u \in Threads : job'[u] = job[u] \/ job'[u] = NoJob
    BY <1>6, NoJobType DEF Return, TypeOK, Threads, UserPc, BgPc
  <1>7. CASE MergeAllFail
    BY <1>0, <1>7, MergedAllType, TypeFailedMerge DEF MergeAllFail
  <1>8. CASE WriteAll
    <2> DEFINE s == IF job["user"].out = None THEN <<>> ELSE <<job["user"].out>>
    <2>1. s \in Seq(Run) /\ RunSet(s) \subseteq {job["user"].out} \ {None}
      BY <1>0, EmptySeq DEF Job, RunSet
    <2>2. MaxLevel \in Levels
      BY LevelAssumption DEF Levels
    <2>3. levels' = [NoRuns EXCEPT ![MaxLevel] = s]
      BY <1>8 DEF WriteAll
    <2> HIDE DEF s
    <2>4. levels' \in LevelMap /\ AllRuns(levels') \subseteq AllRuns(NoRuns) \union RunSet(s)
      BY <2>1, <2>2, <2>3, NoRunsType, ReplaceLevel
    <2>5. AllRuns(levels') \subseteq RunsBelow(next_run_number)
      BY <1>0, <2>1, <2>4, NoRunsType DEF NumsBelow
    <2>6. TypeOK'
      BY <1>6, <1>8, <2>4 DEF WriteAll, TypeOK
    <2>7. NumsBelow'
      BY <1>6, <1>8, <2>5, NoJobType DEF WriteAll, NumsBelow
    <2>8. FlightHeld'
      BY <1>6, <1>8 DEF WriteAll, FlightHeld
    <2>9. LeftInv'
      BY <1>6, <1>8, LeftSame DEF WriteAll
    <2> QED BY <2>6, <2>7, <2>8, <2>9
  <1> QED BY <1>2, <1>3, <1>4, <1>5, <1>7, <1>8 DEF ManualCompaction

\* Snapshots, save, drop and open.
LEMMA TypeSnapshots ==
  ASSUME TypeInv,
         \/ \E s \in SnapIds : Snapshot(s) \/ Rollback(s)
         \/ SaveSnapshot \/ Link \/ Drop \/ Joined \/ Open
  PROVE  TypeInv'
PROOF
  <1> USE DEF TypeInv, UserGoto
  <1>0. ASSUME (\E s \in SnapIds : Snapshot(s) \/ Rollback(s)) \/ SaveSnapshot \/ Link \/ Drop
        PROVE  LeftInv'
    <2>1. /\ pc["user"] # "closed" /\ pc'["user"] # "closed"
          /\ UNCHANGED <<left, found>>
          /\ next_run_number' \in {next_run_number, next_run_number + 1}
      BY <1>0 DEF Snapshot, Rollback, SaveSnapshot, StartFlush, Link, Drop, Idle, TypeOK, Threads
    <2> QED BY <2>1, LeftSame
  <1>1. ASSUME NEW s \in SnapIds, Snapshot(s) PROVE TypeInv'
    <2>1. [memtable |-> memtable, levels |-> levels] \in TreeSnapshot
      BY DEF TypeOK, TreeSnapshot
    <2>2. TypeOK'
      BY <1>1, <2>1 DEF Snapshot, TypeOK
    <2>3. NumsBelow'
      BY <1>1 DEF Snapshot, NumsBelow, TypeOK
    <2>4. FlightHeld'
      BY <1>1 DEF Snapshot, FlightHeld
    <2> QED BY <1>0, <1>1, <2>2, <2>3, <2>4
  <1>2. ASSUME NEW s \in SnapIds, Rollback(s) PROVE TypeInv'
    <2>1. snapshots[s] \in TreeSnapshot
      BY <1>2 DEF Rollback, TypeOK
    <2>2. TypeOK'
      BY <1>2, <2>1 DEF Rollback, TypeOK, TreeSnapshot
    <2>3. NumsBelow' /\ FlightHeld'
      BY <1>2 DEF Rollback, NumsBelow, FlightHeld
    <2> QED BY <1>0, <1>2, <2>2, <2>3
  <1>3. CASE SaveSnapshot
    <2> USE DEF SaveSnapshot, StartFlush
    <2>1. EmptyData \in Data
      BY DEF EmptyData, Data
    <2> DEFINE r == [num |-> next_run_number, level |-> 0, data |-> memtable]
    <2>2. r \in Run /\ r \in RunsBelow(next_run_number + 1)
      BY LevelAssumption DEF TypeOK, Run, Levels, RunsBelow
    <2>3. RunsBelow(next_run_number) \subseteq RunsBelow(next_run_number + 1)
      BY RunsBelowGrow DEF TypeOK
    <2>4. \/ UNCHANGED <<flight, next_run_number>> /\ pc'["user"] = "link"
          \/ flight' = r /\ next_run_number' = next_run_number + 1
      BY <1>3 DEF TypeOK, Threads
    <2> HIDE DEF r
    <2>5. TypeOK'
      BY <1>3, <2>1, <2>2 DEF TypeOK, Threads, UserPc, r
    <2>6. NumsBelow'
      BY <1>3, <2>2, <2>3, <2>4 DEF NumsBelow
    <2>7. FlightHeld'
      BY <2>2, <2>4 DEF FlightHeld
    <2> QED BY <1>0, <1>3, <2>5, <2>6, <2>7
  <1>4. CASE Link
    <2>1. TypeOK'
      BY <1>4 DEF Link, TypeOK, Threads, UserPc
    <2>2. NumsBelow' /\ FlightHeld'
      BY <1>4 DEF Link, NumsBelow, FlightHeld, TypeOK, Threads
    <2> QED BY <1>0, <1>4, <2>1, <2>2
  <1>5. CASE Drop
    <2>1. TypeOK'
      BY <1>5 DEF Drop, TypeOK, Threads, UserPc
    <2>2. NumsBelow' /\ FlightHeld'
      BY <1>5 DEF Drop, NumsBelow, FlightHeld, TypeOK, Threads
    <2> QED BY <1>0, <1>5, <2>1, <2>2
  <1>6. CASE Joined
    <2> DEFINE p == ThreadsAt("closed", "exit")
    <2>1. /\ p \in [Threads -> UserPc \union BgPc] /\ p["user"] = "closed" /\ p["bg"] = "exit"
          /\ Session(NoRuns, 1, p)
      BY <1>6 DEF Joined, NoSession, ThreadsAt, Threads, UserPc, BgPc
    <2>2. LeftBelow(left', next_run_number) /\ next_run_number \in Nat
      BY <1>6 DEF Joined, TypeOK, LeftInv, LeftBelow
    <2>3. NoRuns \in LevelMap /\ AllRuns(NoRuns) = {} /\ IsFiniteSet({})
      BY NoRunsType, FS_EmptySet
    <2> HIDE DEF p
    <2> QED BY <2>1, <2>2, <2>3, SessionType
  <1>7. CASE Open
    <2>1. PICK s \in Orders(Openable) : OpenAs(s)
      BY <1>7 DEF Open
    <2> DEFINE p == ThreadsAt("idle", "wait")
               lv == [NoRuns EXCEPT ![0] = s]
    <2>2. /\ p \in [Threads -> UserPc \union BgPc] /\ p["user"] = "idle"
          /\ Session(lv, LastNumber + 1, p)
      BY <2>1 DEF OpenAs, StartSession, ThreadsAt, Threads, UserPc, BgPc
    <2>3. /\ lv \in LevelMap /\ IsFiniteSet(AllRuns(lv)) /\ LastNumber + 1 \in Nat
          /\ AllRuns(lv) \subseteq RunsBelow(LastNumber + 1)
          /\ LeftBelow(left', LastNumber + 1)
      BY <2>1, OpenStarts
    <2> HIDE DEF p, lv
    <2> QED BY <2>2, <2>3, SessionType
  <1> QED BY <1>1, <1>2, <1>3, <1>4, <1>5, <1>6, <1>7

LEMMA TypeNext ==
  ASSUME TypeInv, [Next]_vars
  PROVE  TypeInv'
PROOF
  <1>1. CASE User
    <2>1. ASSUME NEW k \in Keys, NEW v \in Values, Insert(k, v) PROVE TypeInv'
      <3>1. [memtable EXCEPT ![k] = v] \in Data
        BY DEF TypeInv, TypeOK, Data
      <3> QED BY <2>1, <3>1, TypeWrite DEF Insert
    <2>2. ASSUME NEW k \in Keys, Delete(k) PROVE TypeInv'
      <3>1. [memtable EXCEPT ![k] = Tombstone] \in Data
        BY DEF TypeInv, TypeOK, Data
      <3> QED BY <2>2, <3>1, TypeWrite DEF Delete
    <2>3. ASSUME NEW S \in SUBSET Keys, NEW w \in [S -> Values], InsertBatch(S, w)
          PROVE  TypeInv'
      <3>1. [k \in Keys |-> IF k \in S THEN w[k] ELSE memtable[k]] \in Data
        BY DEF TypeInv, TypeOK, Data
      <3> QED BY <2>3, <3>1, TypeWrite DEF InsertBatch
    <2>4. ASSUME NEW S \in SUBSET Keys, DeleteBatch(S) PROVE TypeInv'
      <3>1. [k \in Keys |-> IF k \in S THEN Tombstone ELSE memtable[k]] \in Data
        BY DEF TypeInv, TypeOK, Data
      <3> QED BY <2>4, <3>1, TypeWrite DEF DeleteBatch
    <2> QED BY <1>1, <2>1, <2>2, <2>3, <2>4, TypeFlush, TypeManualCompaction,
               TypeSnapshots DEF User
  <1>2. CASE UNCHANGED vars
    BY <1>2 DEF vars, TypeInv, TypeOK, NumsBelow, FlightHeld, LeftInv
  <1> QED BY <1>1, <1>2, TypeBackground, TypeSnapshots DEF Next

\* Type correctness of the tree for every configuration: whatever the
\* interleaving of the two threads, the faults and the calls, every level is
\* a sequence of runs and every compaction job names levels that exist.
THEOREM TypeCorrect == Spec => []TypeOK
PROOF
  <1>1. Spec => []TypeInv
    BY TypeInit, TypeNext, PTL DEF Spec
  <1>2. TypeInv => TypeOK
    BY DEF TypeInv
  <1> QED BY <1>1, <1>2, PTL

---------------------------------------------------------------------------
(* Run numbers name one run.  The runs whose files are there after a step  *)
(* were there before it, but for at most one new one, which has the number *)
(* of the counter; all have numbers below it.  Only open changes runs: it  *)
(* takes handles on those that are left.                                   *)

\* The runs whose files are there.
Files == HeldRuns \union left.runs

LEMMA HeldParts ==
  /\ AllRuns(levels) \subseteq HeldRuns
  /\ \A s \in SnapIds : snapshots[s] # None => AllRuns(snapshots[s].levels) \subseteq HeldRuns
  /\ \A t \in Threads : AllRuns(job[t].snap) \subseteq HeldRuns
  /\ {flight} \ {None} \subseteq HeldRuns
  /\ \A t \in Threads : {job[t].out} \ {None} \subseteq HeldRuns
PROOF BY DEF HeldRuns

LEMMA HeldBelow ==
  ASSUME TypeInv
  PROVE  /\ HeldRuns \subseteq RunsBelow(next_run_number)
         /\ pc["user"] # "closed" => Files \subseteq RunsBelow(next_run_number)
PROOF BY DEF HeldRuns, Files, TypeInv, NumsBelow, LeftInv

\* A run that a step makes: its number is the counter's, and its entries, at
\* least one, come from a memtable or from a merge of runs that a job holds.
NewRun(r) ==
  /\ r.num = next_run_number
  /\ Present(r.data) # {}
  /\ pc["user"] # "closed"
  /\ \/ WriteMemtable(r.data)
     \/ SaveSnapshot /\ r.data = memtable
     \/ \E t \in Threads : /\ Merge(t) \/ MergeFail(t)
                           /\ r.data = CompactLevels(job[t].snap, job[t].src)
     \/ (MergeAll \/ MergeAllFail) /\ r.data = CompactAllRuns(job["user"].snap)

\* What is there after a step.
HeldStep ==
  \/ HeldRuns' \subseteq HeldRuns /\ left'.runs \subseteq Files
  \/ \E r : NewRun(r) /\ HeldRuns' \subseteq HeldRuns \union {r} /\ left'.runs \subseteq Files \union {r}
  \/ Open /\ HeldRuns' = Relevelled(left.runs) /\ left'.runs = {}

LEMMA HeldKept ==
  ASSUME left'.runs \subseteq Files,
          AllRuns(levels') \subseteq HeldRuns,
         \A s \in SnapIds : snapshots'[s] # None =>
           AllRuns(snapshots'[s].levels) \subseteq HeldRuns,
         \A t \in Threads : AllRuns(job'[t].snap) \subseteq HeldRuns,
         {flight'} \ {None} \subseteq HeldRuns,
         \A t \in Threads : {job'[t].out} \ {None} \subseteq HeldRuns
  PROVE  HeldStep
PROOF
  <1>1. HeldRuns' \subseteq HeldRuns /\ left'.runs \subseteq Files
    BY DEF HeldRuns
  <1> QED BY <1>1 DEF HeldStep

LEMMA HeldNew ==
  ASSUME NEW r, NewRun(r),
         left'.runs \subseteq Files \union {r},
         AllRuns(levels') \subseteq HeldRuns \union {r},
         \A s \in SnapIds : snapshots'[s] # None =>
           AllRuns(snapshots'[s].levels) \subseteq HeldRuns \union {r},
         \A t \in Threads : AllRuns(job'[t].snap) \subseteq HeldRuns \union {r},
         {flight'} \ {None} \subseteq HeldRuns \union {r},
         \A t \in Threads : {job'[t].out} \ {None} \subseteq HeldRuns \union {r}
  PROVE  HeldStep
PROOF
  <1>1. HeldRuns' \subseteq HeldRuns \union {r} /\ left'.runs \subseteq Files \union {r}
    BY DEF HeldRuns
  <1> QED BY <1>1 DEF HeldStep

\* Writes and the steps of flush_memtable: the run in flight is new.
LEMMA HeldFlush ==
  ASSUME TypeInv,
         (\E m : WriteMemtable(m)) \/ SaveSnapshot \/ Flush
  PROVE  HeldStep
PROOF
  <1>1. ASSUME NEW m, StartFlush(m, "idle") \/ StartFlush(m, "link"),
               WriteMemtable(m) \/ (SaveSnapshot /\ m = memtable),
               UNCHANGED <<levels, job, snapshots, left>>
        PROVE  HeldStep
    <2>0. left'.runs \subseteq Files
      BY <1>1 DEF Files
    <2>1. CASE flight' = flight
      BY <1>1, <2>0, <2>1, HeldParts, HeldKept
    <2>2. CASE flight' # flight
      <3> DEFINE r == [num |-> next_run_number, level |-> 0, data |-> m]
      <3>1. flight' = r /\ NewRun(r)
        BY <1>1, <2>2 DEF StartFlush, NewRun, WriteMemtable, SaveSnapshot, Idle
      <3> HIDE DEF r
      <3>2. /\ AllRuns(levels') \subseteq HeldRuns \union {r}
            /\ \A s \in SnapIds : snapshots'[s] # None =>
                 AllRuns(snapshots'[s].levels) \subseteq HeldRuns \union {r}
            /\ \A t \in Threads : AllRuns(job'[t].snap) \subseteq HeldRuns \union {r}
            /\ \A t \in Threads : {job'[t].out} \ {None} \subseteq HeldRuns \union {r}
        BY <1>1, HeldParts
      <3> QED BY <2>0, <3>1, <3>2, HeldNew
    <2> QED BY <2>1, <2>2
  <1>2. ASSUME UNCHANGED <<levels, job, snapshots>>, flight' \in {flight, None},
               left'.runs \subseteq Files
        PROVE  HeldStep
    BY <1>2, HeldParts, HeldKept
  <1>3. ASSUME NEW m, WriteMemtable(m) PROVE HeldStep
    BY <1>1, <1>2, <1>3 DEF WriteMemtable, Files
  <1>4. CASE SaveSnapshot
    BY <1>1, <1>4 DEF SaveSnapshot
  <1>5. CASE FlushPush
    <2>1. flight \in Run /\ 0 \in Levels /\ levels[0] \in Seq(Run) /\ levels \in LevelMap
      BY <1>5, LevelAssumption DEF FlushPush, TypeInv, FlightHeld, TypeOK, LevelMap, Levels
    <2>2. Append(levels[0], flight) \in Seq(Run)
          /\ RunSet(Append(levels[0], flight)) = RunSet(levels[0]) \union {flight}
      BY <2>1, AppendRuns
    <2>3. levels' = [levels EXCEPT ![0] = Append(levels[0], flight)]
      BY <1>5 DEF FlushPush
    <2>4. AllRuns(levels') \subseteq AllRuns(levels) \union {flight}
      BY <2>1, <2>2, <2>3, ReplaceLevel, LevelRuns DEF LevelMap
    <2>5. AllRuns(levels') \subseteq HeldRuns
      BY <2>1, <2>4, HeldParts, TreeAssumption
    <2> QED BY <1>5, <2>5, HeldParts, HeldKept DEF FlushPush, Files
  <1>6. CASE FlushFail
    <2>1. flight \in RunsBelow(next_run_number) /\ flight \in HeldRuns
      BY <1>6, HeldParts, TreeAssumption DEF FlushFail, TypeInv, FlightHeld, NumsBelow
    <2>2. left'.runs \subseteq left.runs \union {flight}
      <3>1. next_run_number \in Nat /\ next_run_number <= next_run_number
        BY DEF TypeInv, TypeOK
      <3> QED BY <1>6, <2>1, <3>1, LeaveBehindType DEF FlushFail
    <2> QED BY <1>2, <1>6, <2>1, <2>2 DEF FlushFail, Files
  <1>7. CASE FlushCredit \/ FlushSignal \/ FlushPoll \/ FlushResume
    BY <1>2, <1>7 DEF FlushCredit, FlushSignal, FlushPoll, FlushResume, vars, Files
  <1> QED BY <1>3, <1>4, <1>5, <1>6, <1>7 DEF Flush

\* A job that is dropped, started, or moved on without an output.
LEMMA HeldReturn ==
  ASSUME TypeInv, UNCHANGED <<flight, snapshots>>, left'.runs \subseteq Files,
         AllRuns(levels') \subseteq HeldRuns,
         \A t \in Threads : \/ job'[t] \in {job[t], NoJob, NewJob}
                            \/ /\ AllRuns(job'[t].snap) \subseteq HeldRuns
                               /\ job'[t].out = job[t].out
  PROVE  HeldStep
PROOF
  <1>1. \A t \in Threads : /\ AllRuns(job'[t].snap) \subseteq HeldRuns
                           /\ {job'[t].out} \ {None} \subseteq HeldRuns
    BY HeldParts, NoJobType
  <1> QED BY <1>1, HeldParts, HeldKept

\* An output run with the counter's number.
LEMMA HeldOutput ==
  ASSUME TypeInv, UNCHANGED <<levels, flight, snapshots, left>>,
         NEW t \in Threads, job'[t].snap = job[t].snap,
         \A u \in Threads : u # t => job'[u] = job[u],
         job'[t].out = None \/ NewRun(job'[t].out)
  PROVE  HeldStep
PROOF
  <1>1. CASE job'[t].out = None
    BY <1>1, HeldParts, HeldKept DEF Files
  <1>2. CASE job'[t].out # None
    <2> DEFINE r == job'[t].out
    <2>1. NewRun(r)
      BY <1>2
    <2>2. /\ \A u \in Threads : AllRuns(job'[u].snap) \subseteq HeldRuns \union {r}
          /\ \A u \in Threads : {job'[u].out} \ {None} \subseteq HeldRuns \union {r}
          /\ AllRuns(levels') \subseteq HeldRuns \union {r}
          /\ {flight'} \ {None} \subseteq HeldRuns \union {r}
          /\ \A s \in SnapIds : snapshots'[s] # None =>
               AllRuns(snapshots'[s].levels) \subseteq HeldRuns \union {r}
      BY HeldParts
    <2>3. left'.runs \subseteq Files \union {r}
      BY DEF Files
    <2> HIDE DEF r
    <2> QED BY <2>1, <2>2, <2>3, HeldNew
  <1> QED BY <1>1, <1>2

\* A merge that fails: its output, or nothing, may stay.
LEMMA HeldFailed ==
  ASSUME TypeInv, NEW t \in Threads, pc["user"] # "closed",
         NEW r \in Run \union {None}, {r} \ {None} \subseteq RunsBelow(next_run_number + 1),
         FailedMerge(t, r), r # None => NewRun(r)
  PROVE  HeldStep
PROOF
  <1>1. /\ left'.runs \subseteq left.runs \union ({r} \ {None})
        /\ \A u \in Threads : job'[u] = job[u] \/ job'[u] = NoJob
    BY TypeFailedMerge
  <1>2. UNCHANGED <<levels, flight, snapshots>>
    BY DEF FailedMerge
  <1>3. HeldRuns' \subseteq HeldRuns
    <2>1. \A u \in Threads : /\ AllRuns(job'[u].snap) \subseteq HeldRuns
                             /\ {job'[u].out} \ {None} \subseteq HeldRuns
      BY <1>1, HeldParts, NoJobType
    <2> QED BY <1>2, <2>1, HeldParts DEF HeldRuns
  <1> QED BY <1>1, <1>3 DEF HeldStep, Files

LEMMA HeldRunCompaction ==
  ASSUME TypeInv, NEW t \in Threads, RunCompaction(t)
  PROVE  HeldStep
PROOF
  <1>0. job \in [Threads -> Job] /\ job[t] \in Job /\ levels \in LevelMap
    BY DEF TypeInv, TypeOK
  <1>1. AllRuns(levels) \subseteq HeldRuns
    BY HeldParts
  <1>2. Return(t) => \A u \in Threads : job'[u] \in {job[u], NoJob}
    BY <1>0 DEF Return
  <1>3. CASE LoadGeneration(t)
    <2>1. /\ job'[t].snap = job[t].snap /\ job'[t].out = job[t].out
          /\ \A u \in Threads : u # t => job'[u] = job[u]
      BY <1>0, <1>3 DEF LoadGeneration, Job
    <2>2. AllRuns(job'[t].snap) \subseteq HeldRuns
      BY <2>1, HeldParts
    <2> QED BY <1>1, <1>3, <2>1, <2>2, HeldReturn DEF LoadGeneration, Files
  <1>4. CASE CloneAndSelect(t)
    <2>1. CASE Return(t)
      BY <1>1, <1>2, <1>4, <2>1, HeldReturn DEF CloneAndSelect, Files
    <2>2. CASE ~ Return(t)
      <3>1. /\ job'[t].snap = levels /\ job'[t].out = job[t].out
            /\ \A u \in Threads : u # t => job'[u] = job[u]
        BY <1>0, <1>4, <2>2 DEF CloneAndSelect, Job
      <3> QED BY <1>1, <1>4, <3>1, HeldReturn DEF CloneAndSelect, Files
    <2> QED BY <2>1, <2>2
  <1>5. CASE Merge(t)
    <2>1. /\ job'[t].snap = job[t].snap
          /\ \A u \in Threads : u # t => job'[u] = job[u]
          /\ job'[t].out = MergedRun(job[t])
      BY <1>0, <1>5 DEF Merge, Job
    <2>2. job'[t].out = None \/ NewRun(job'[t].out)
      BY <1>5, <2>1, MergedRunType, StageOpen DEF NewRun, Merge, InStage
    <2> QED BY <1>5, <2>1, <2>2, HeldOutput DEF Merge
  <1>6. CASE MergeFail(t)
    <2>1. pc["user"] # "closed"
      BY <1>6, StageOpen DEF MergeFail, InStage
    <2>2. MergedRun(job[t]) # None => NewRun(MergedRun(job[t]))
      BY <1>6, <2>1, MergedRunType DEF NewRun
    <2> QED BY <1>6, <2>1, <2>2, MergedRunType, HeldFailed DEF MergeFail
  <1>7. CASE WriteBack(t)
    <2>1. AllRuns(Applied(levels, job[t])) \subseteq AllRuns(levels) \union ({job[t].out} \ {None})
      BY <1>0, AppliedRuns
    <2>2. AllRuns(levels') \subseteq HeldRuns
      BY <1>7, <2>1, HeldParts DEF WriteBack
    <2> QED BY <1>2, <1>7, <2>2, HeldReturn DEF WriteBack, Files
  <1> QED BY <1>3, <1>4, <1>5, <1>6, <1>7 DEF RunCompaction

LEMMA HeldManualCompaction ==
  ASSUME TypeInv, ManualCompaction
  PROVE  HeldStep
PROOF
  <1>0. /\ job \in [Threads -> Job] /\ "user" \in Threads /\ job["user"] \in Job
        /\ AllRuns(levels) \subseteq HeldRuns
    BY HeldParts DEF TypeInv, TypeOK, Threads
  <1>1. Return("user") => \A u \in Threads : job'[u] \in {job[u], NoJob}
    BY <1>0 DEF Return
  <1>2. CASE Compact
    <2>1. \A u \in Threads : job'[u] \in {job[u], NewJob}
      BY <1>0, <1>2 DEF Compact
    <2> QED BY <1>0, <1>2, <2>1, HeldReturn DEF Compact, Files
  <1>3. CASE CompactAll
    <2>1. /\ job'["user"].snap = levels /\ job'["user"].out = job["user"].out
          /\ \A u \in Threads : u # "user" => job'[u] = job[u]
      BY <1>0, <1>3 DEF CompactAll, Job
    <2> QED BY <1>0, <1>3, <2>1, HeldReturn DEF CompactAll, Files
  <1>4. CASE MergeAll
    <2>1. /\ job'["user"].snap = job["user"].snap
          /\ \A u \in Threads : u # "user" => job'[u] = job[u]
          /\ job'["user"].out = MergedAll
      BY <1>0, <1>4 DEF MergeAll, Job
    <2>2. job'["user"].out = None \/ NewRun(job'["user"].out)
      BY <1>4, <2>1, MergedAllType DEF NewRun, MergeAll
    <2> QED BY <1>0, <1>4, <2>1, <2>2, HeldOutput DEF MergeAll
  <1>5. CASE MergeAllFail
    <2>1. MergedAll # None => NewRun(MergedAll)
      BY <1>5, MergedAllType DEF NewRun, MergeAllFail
    <2> QED BY <1>0, <1>5, <2>1, MergedAllType, HeldFailed DEF MergeAllFail
  <1>6. CASE WriteAll
    <2> DEFINE s == IF job["user"].out = None THEN <<>> ELSE <<job["user"].out>>
    <2>1. s \in Seq(Run) /\ RunSet(s) \subseteq {job["user"].out} \ {None}
      BY <1>0, EmptySeq DEF Job, RunSet
    <2>2. MaxLevel \in Levels /\ levels' = [NoRuns EXCEPT ![MaxLevel] = s]
      BY <1>6, LevelAssumption DEF Levels, WriteAll
    <2> HIDE DEF s
    <2>3. AllRuns(levels') \subseteq RunSet(s)
      BY <2>1, <2>2, NoRunsType, ReplaceLevel
    <2>4. AllRuns(levels') \subseteq HeldRuns
      BY <1>0, <2>1, <2>3, HeldParts
    <2> QED BY <1>1, <1>6, <2>4, HeldReturn DEF WriteAll, Files
  <1> QED BY <1>0, <1>2, <1>3, <1>4, <1>5, <1>6, HeldRunCompaction DEF ManualCompaction

LEMMA HeldNext ==
  ASSUME TypeInv, [Next]_vars
  PROVE  HeldStep
PROOF
  <1>0. AllRuns(levels) \subseteq HeldRuns
    BY HeldParts
  <1>1. CASE Background
    <2>1. CASE BgWake
      <3>1. \A u \in Threads : job'[u] \in {job[u], NewJob}
        BY <2>1 DEF BgWake, TypeInv, TypeOK
      <3> QED BY <1>0, <2>1, <3>1, HeldReturn DEF BgWake, Files
    <2>2. CASE BgCredit \/ BgExit
      BY <1>0, <2>2, HeldReturn DEF BgCredit, BgExit, Files
    <2> QED BY <1>1, <2>1, <2>2, HeldRunCompaction DEF Background, Threads
  <1>2. ASSUME NEW s \in SnapIds, Snapshot(s) PROVE HeldStep
    <2>1. \A x \in SnapIds : snapshots'[x] # None =>
            AllRuns(snapshots'[x].levels) \subseteq HeldRuns
      BY <1>2, HeldParts DEF Snapshot, TypeInv, TypeOK
    <2> QED BY <1>2, <2>1, HeldParts, HeldKept DEF Snapshot, Files
  <1>3. ASSUME NEW s \in SnapIds, Rollback(s) PROVE HeldStep
    <2>1. AllRuns(levels') \subseteq HeldRuns
      BY <1>3, HeldParts DEF Rollback
    <2> QED BY <1>3, <2>1, HeldReturn DEF Rollback, Files
  <1>4. CASE Link \/ Drop \/ UNCHANGED vars
    BY <1>0, <1>4, HeldReturn DEF Link, Drop, vars, Files
  <1>5. CASE Joined
    <2>1. HeldRuns' = {}
      BY <1>5, NoRunsType, NoJobType
      DEF Joined, NoSession, Session, HeldRuns, Threads
    <2> QED BY <1>5, <2>1 DEF HeldStep, Joined, Files
  <1>6. CASE Open
    <2>1. PICK s \in Orders(Openable) : OpenAs(s)
      BY <1>6 DEF Open
    <2> DEFINE lv == [NoRuns EXCEPT ![0] = s]
    <2>2. AllRuns(lv) = Relevelled(left.runs) /\ left'.runs = {}
      BY <2>1, OpenStarts
    <2>3. Session(lv, LastNumber + 1, ThreadsAt("idle", "wait"))
      BY <2>1 DEF OpenAs, StartSession
    <2> HIDE DEF lv
    <2>4. HeldRuns' = AllRuns(lv)
      BY <2>3, NoJobType DEF Session, HeldRuns, Threads
    <2> QED BY <1>6, <2>2, <2>4 DEF HeldStep
  <1>7. CASE User
    BY <1>2, <1>3, <1>4, <1>5, <1>6, <1>7, HeldFlush, HeldManualCompaction
    DEF User, Insert, Delete, InsertBatch, DeleteBatch
  <1> QED BY <1>1, <1>4, <1>5, <1>6, <1>7 DEF Next

LEMMA UniqueInit == Init => RunNumbersUnique
PROOF
  <1> SUFFICES ASSUME Init PROVE HeldRuns = {} /\ left.runs = {}
    BY DEF RunNumbersUnique
  <1> QED BY NoRunsType, NoJobType DEF Init, HeldRuns, Threads, NothingLeft

LEMMA UniqueNext ==
  ASSUME TypeInv, RunNumbersUnique, [Next]_vars
  PROVE  RunNumbersUnique'
PROOF
  <1>0. RunNumbersUnique <=> \A r, q \in Files : r.num = q.num => r = q
    BY DEF RunNumbersUnique, Files
  <1>1. RunNumbersUnique' <=> \A r, q \in HeldRuns' \union left'.runs : r.num = q.num => r = q
    BY DEF RunNumbersUnique
  <1>2. CASE HeldRuns' \union left'.runs \subseteq Files
    BY <1>0, <1>1, <1>2
  <1>3. ASSUME NEW r, NewRun(r), HeldRuns' \union left'.runs \subseteq Files \union {r}
        PROVE  RunNumbersUnique'
    <2>1. next_run_number \in Nat
      BY DEF TypeInv, TypeOK
    <2>2. \A q \in Files : q.num # r.num
      BY <1>3, <2>1, HeldBelow DEF RunsBelow, Run, NewRun
    <2> QED BY <1>0, <1>1, <1>3, <2>2
  <1>4. CASE HeldRuns' = Relevelled(left.runs) /\ left'.runs = {}
    <2>1. left.runs \subseteq Run /\ \A r, q \in left.runs : r.num = q.num => r = q
      BY <1>0 DEF TypeInv, TypeOK, Files
    <2> QED BY <1>1, <1>4, <2>1, RelevelledIs
  <1> QED BY <1>2, <1>3, <1>4, HeldNext DEF HeldStep, Files

\* Run numbers name files, and no two runs whose files are in active/ at one
\* time share one: for every configuration, with both threads compacting,
\* snapshots that hold runs from before a rollback, failed flushes and merges
\* that have used a number up and left a whole run, which nobody holds, and the
\* open that adopts it (lib.rs:528-556, 1071, compaction.rs:197, 373).
THEOREM RunsHaveTheirNumbers == Spec => []RunNumbersUnique
PROOF
  <1>1. Spec => []TypeInv
    BY TypeInit, TypeNext, PTL DEF Spec
  <1>2. TypeInv /\ RunNumbersUnique /\ [Next]_vars => RunNumbersUnique'
    BY UniqueNext
  <1> QED BY <1>1, <1>2, UniqueInit, PTL DEF Spec

---------------------------------------------------------------------------
(* Back-pressure bounds L0.  L0 is above the limit only between a push     *)
(* that has seen it there and the end of the wait; no snapshot is taken in *)
(* between, so a rollback cannot bring a longer L0 back.                   *)

Limit == StallMult * L0Trigger
Bound(F) == Max({Limit, Cardinality(F)})

L0Inv ==
  /\ Len(levels[0]) <= Bound(found) + 1
  /\ \/ Len(levels[0]) <= Bound(found)
     \/ pc["user"] \in {"credit", "signal"} /\ stall
     \/ pc["user"] = "stall"
  /\ \A s \in SnapIds : snapshots[s] # None => Len(snapshots[s].levels[0]) <= Bound(found)

LEMMA LimitType == Limit \in Nat /\ ResumeMult * L0Trigger <= Limit
PROOF
  <1> DEFINE a == StallMult  b == ResumeMult  c == L0Trigger
  <1>1. a \in Nat /\ b \in Nat /\ c \in Nat /\ b <= a
    BY TreeAssumption, LevelAssumption
  <1> HIDE DEF a, b, c
  <1>2. a * c \in Nat /\ b * c <= a * c
    BY <1>1
  <1> QED BY <1>2 DEF Limit, a, b, c

LEMMA BoundType ==
  ASSUME NEW F, IsFiniteSet(F)
  PROVE  Bound(F) \in Nat /\ Limit <= Bound(F) /\ Cardinality(F) <= Bound(F)
PROOF
  <1>1. Cardinality(F) \in Nat /\ Limit \in Nat
    BY FS_CardinalityType, LimitType
  <1> DEFINE a == Cardinality(F)  b == Limit
  <1> HIDE DEF a, b
  <1>2. a \in Nat /\ b \in Nat
    BY <1>1 DEF a, b
  <1>3. Max({b, a}) \in Nat /\ b <= Max({b, a}) /\ a <= Max({b, a})
    BY <1>2, MaxOfTwo
  <1> QED BY <1>3 DEF Bound, a, b

\* A step that leaves L0 no longer and the caller out of the wait.
LEMMA L0Shrinks ==
  ASSUME TypeInv, TypeInv', L0Inv,
         Len(levels'[0]) <= Len(levels[0]),
         UNCHANGED <<snapshots, stall, found>>,
         pc'["user"] = pc["user"] \/ pc["user"] \notin {"credit", "signal", "stall"}
  PROVE  L0Inv'
PROOF
  <1>1. 0 \in Levels
    BY LevelAssumption DEF Levels
  <1>2. Len(levels[0]) \in Nat /\ Len(levels'[0]) \in Nat
    BY <1>1, LenProperties DEF TypeInv, TypeOK, LevelMap
  <1>3. Bound(found) \in Nat /\ Bound(found') = Bound(found)
    BY BoundType DEF TypeInv, LeftInv
  <1>4. Len(levels'[0]) <= Bound(found) + 1 /\ (Len(levels[0]) <= Bound(found) => Len(levels'[0]) <= Bound(found))
    BY <1>2, <1>3 DEF L0Inv
  <1> QED BY <1>3, <1>4 DEF L0Inv

LEMMA L0Init == Init => L0Inv
PROOF
  <1>1. 0 \in Levels
    BY LevelAssumption DEF Levels
  <1>2. NoRuns[0] = <<>> /\ Len(<<>>) = 0
    BY <1>1, EmptySeq DEF NoRuns
  <1>3. Init => IsFiniteSet(found)
    BY FS_EmptySet DEF Init
  <1>4. Init => Bound(found) \in Nat /\ 0 <= Bound(found)
    BY <1>3, BoundType
  <1> QED BY <1>2, <1>4 DEF Init, L0Inv

LEMMA L0Next ==
  ASSUME TypeInv, TypeInv', L0Inv, [Next]_vars
  PROVE  L0Inv'
PROOF
  <1>0. 0 \in Levels /\ levels[0] \in Seq(Run) /\ Len(levels[0]) \in Nat
    <2>1. 0 \in Levels
      BY LevelAssumption DEF Levels
    <2>2. levels[0] \in Seq(Run)
      BY <2>1 DEF TypeInv, TypeOK, LevelMap
    <2> QED BY <2>1, <2>2, LenProperties
  <1>00. pc \in [Threads -> UserPc \union BgPc] /\ "user" \in Threads /\ "bg" \in Threads
    BY DEF TypeInv, TypeOK, Threads
  <1>000. /\ Bound(found) \in Nat /\ Limit \in Nat /\ Limit <= Bound(found)
          /\ UNCHANGED found => Bound(found') = Bound(found)
    BY BoundType, LimitType DEF TypeInv, LeftInv
  <1>1. ASSUME NEW m, WriteMemtable(m) PROVE L0Inv'
    BY <1>0, <1>1, L0Shrinks DEF WriteMemtable, Idle
  <1>2. CASE Flush
    <2>1. CASE FlushFail
      BY <1>0, <2>1, L0Shrinks DEF FlushFail
    <2>2. CASE FlushPush
      <3>1. Len(levels'[0]) = Len(levels[0]) + 1
        <4>1. flight \in Run
          BY <2>2 DEF FlushPush, TypeInv, FlightHeld
        <4>2. levels'[0] = Append(levels[0], flight)
          BY <1>0, <2>2 DEF FlushPush, TypeInv, TypeOK, LevelMap
        <4> QED BY <1>0, <4>1, <4>2, AppendRuns
      <3>2. Len(levels[0]) <= Bound(found)
        BY <2>2 DEF FlushPush, L0Inv
      <3>3. stall' = (Len(levels[0]) + 1 > Limit) /\ pc'["user"] = "credit"
        BY <1>00, <2>2 DEF FlushPush, UserGoto, Limit
      <3>4. UNCHANGED snapshots /\ Bound(found') = Bound(found)
        BY <1>000, <2>2 DEF FlushPush
      <3>5. Len(levels'[0]) <= Bound(found) \/ stall'
        <4>1. Len(levels[0]) + 1 <= Bound(found) \/ Len(levels[0]) + 1 > Limit
          BY <1>0, <1>000
        <4>2. Len(levels[0]) + 1 > Limit => stall'
          BY <3>3, Zenon
        <4> QED BY <3>1, <4>1, <4>2
      <3>6. Len(levels'[0]) <= Bound(found) + 1
        BY <1>0, <1>000, <3>1, <3>2
      <3> QED BY <3>3, <3>4, <3>5, <3>6 DEF L0Inv
    <2>3. CASE FlushCredit
      BY <1>00, <1>000, <2>3 DEF FlushCredit, UserGoto, L0Inv
    <2>4. CASE FlushSignal
      BY <1>00, <1>000, <2>4 DEF FlushSignal, UserGoto, L0Inv
    <2>5. CASE FlushPoll
      BY <1>000, <2>5 DEF FlushPoll, vars, L0Inv
    <2>6. CASE FlushResume
      <3>1. Len(levels[0]) <= Bound(found)
        <4> DEFINE low == ResumeMult * L0Trigger
        <4>1. low \in Nat /\ low <= Limit
          BY LimitType, TreeAssumption, LevelAssumption
        <4>2. Len(levels[0]) <= low
          BY <2>6 DEF FlushResume
        <4> HIDE DEF low
        <4> QED BY <1>0, <1>000, <4>1, <4>2
      <3>2. Bound(found') = Bound(found)
        BY <1>000, <2>6 DEF FlushResume
      <3> QED BY <2>6, <3>1, <3>2 DEF FlushResume, L0Inv
    <2> QED BY <1>2, <2>1, <2>2, <2>3, <2>4, <2>5, <2>6 DEF Flush
  <1>3. ASSUME NEW t \in Threads, RunCompaction(t) PROVE L0Inv'
    <2>1. UNCHANGED <<snapshots, stall, found>>
      BY <1>3 DEF RunCompaction, LoadGeneration, CloneAndSelect, Merge, MergeFail,
                  FailedMerge, WriteBack
    <2>2. Len(levels'[0]) <= Len(levels[0])
      <3>1. CASE WriteBack(t)
        <4>1. Len(Applied(levels, job[t])[0]) <= Len(levels[0])
          BY AppliedRuns DEF TypeInv, TypeOK
        <4> QED BY <1>0, <3>1, <4>1 DEF WriteBack
      <3>2. CASE ~ WriteBack(t)
        <4>1. levels' = levels
          BY <1>3, <3>2 DEF RunCompaction, LoadGeneration, CloneAndSelect, Merge, MergeFail,
                            FailedMerge
        <4> QED BY <1>0, <4>1
      <3> QED BY <3>1, <3>2
    <2>3. pc[t] = "compacting" /\ (pc' = pc \/ Return(t))
      BY <1>3 DEF RunCompaction, LoadGeneration, CloneAndSelect, Merge, MergeFail,
                  FailedMerge, WriteBack, InStage
    <2>4. pc'["user"] = pc["user"] \/ pc["user"] = "compacting"
      BY <1>00, <2>3 DEF Return, Threads
    <2> QED BY <2>1, <2>2, <2>4, L0Shrinks
  <1>4. CASE Background
    <2>1. CASE BgWake \/ BgCredit \/ BgExit
      <3>1. /\ UNCHANGED <<levels, snapshots, stall, found>>
            /\ pc'["user"] = pc["user"]
        BY <1>00, <2>1 DEF BgWake, BgCredit, BgExit
      <3> QED BY <1>0, <3>1, L0Shrinks
    <2> QED BY <1>3, <1>4, <2>1 DEF Background, Threads
  <1>5. CASE ManualCompaction
    <2>1. CASE Compact \/ CompactAll \/ MergeAll \/ MergeAllFail
      <3>1. /\ UNCHANGED <<levels, snapshots, stall, found>>
            /\ pc["user"] \in {"idle", "merge_all"}
        BY <2>1 DEF Compact, CompactAll, MergeAll, MergeAllFail, FailedMerge, Idle
      <3> QED BY <1>0, <3>1, L0Shrinks
    <2>2. CASE WriteAll
      <3>1. levels'[0] = <<>> /\ Len(<<>>) = 0
        BY <1>0, <2>2, LevelAssumption, EmptySeq DEF WriteAll, NoRuns
      <3>2. UNCHANGED <<snapshots, stall, found>> /\ pc["user"] = "write_all"
        BY <2>2 DEF WriteAll
      <3> QED BY <1>0, <3>1, <3>2, L0Shrinks
    <2> QED BY <1>3, <1>5, <2>1, <2>2 DEF ManualCompaction, Threads
  <1>6. ASSUME NEW s \in SnapIds, Snapshot(s) PROVE L0Inv'
    <2>1. Len(levels[0]) <= Bound(found) /\ Bound(found') = Bound(found)
      BY <1>000, <1>6 DEF Snapshot, Idle, L0Inv
    <2>2. \A x \in SnapIds : snapshots'[x] # None => Len(snapshots'[x].levels[0]) <= Bound(found)
      BY <1>6, <2>1 DEF Snapshot, TypeInv, TypeOK, L0Inv
    <2> QED BY <1>6, <2>1, <2>2 DEF Snapshot, L0Inv
  <1>7. ASSUME NEW s \in SnapIds, Rollback(s) PROVE L0Inv'
    <2>1. Len(levels'[0]) <= Bound(found) /\ Bound(found') = Bound(found)
      BY <1>000, <1>7 DEF Rollback, L0Inv
    <2>2. Len(levels'[0]) \in Nat
      BY <1>0, LenProperties DEF TypeInv, TypeOK, LevelMap
    <2>3. Len(levels'[0]) <= Bound(found) + 1
      BY <1>000, <2>1, <2>2
    <2> QED BY <1>7, <2>1, <2>3 DEF Rollback, L0Inv
  <1>8. CASE SaveSnapshot
    BY <1>0, <1>8, L0Shrinks DEF SaveSnapshot, Idle
  <1>9. CASE Link \/ Drop
    BY <1>0, <1>9, L0Shrinks DEF Link, Drop, Idle
  <1>10. CASE Joined
    <2>1. levels' = NoRuns /\ snapshots' = [s \in SnapIds |-> None]
      BY <1>10 DEF Joined, NoSession, Session
    <2>2. NoRuns[0] = <<>> /\ Len(<<>>) = 0
      BY <1>0, EmptySeq DEF NoRuns
    <2>3. Bound(found') \in Nat
      BY BoundType DEF TypeInv, LeftInv
    <2> QED BY <2>1, <2>2, <2>3 DEF L0Inv
  <1>101. CASE Open
    <2>1. Len(levels'[0]) = Cardinality(found') /\ snapshots' = [s \in SnapIds |-> None]
      BY <1>101, Opened DEF Open
    <2>2. Bound(found') \in Nat /\ Cardinality(found') <= Bound(found')
      BY BoundType DEF TypeInv, LeftInv
    <2>3. Cardinality(found') \in Nat
      BY FS_CardinalityType DEF TypeInv, LeftInv
    <2>4. Len(levels'[0]) <= Bound(found') /\ Len(levels'[0]) <= Bound(found') + 1
      BY <2>1, <2>2, <2>3
    <2> QED BY <2>1, <2>4 DEF L0Inv
  <1>11. CASE UNCHANGED vars
    BY <1>000, <1>11 DEF vars, L0Inv
  <1>12. CASE User
    BY <1>1, <1>2, <1>5, <1>6, <1>7, <1>8, <1>9, <1>10, <1>12
    DEF User, Insert, Delete, InsertBatch, DeleteBatch
  <1> QED BY <1>4, <1>9, <1>101, <1>11, <1>12 DEF Next

\* Back-pressure bounds the depth of L0 for every configuration, with manual
\* compactions, faults and rollbacks: at most one run more than four times the
\* trigger (lib.rs:1123-1131), or than open has found in active/.
THEOREM BackPressureBoundsL0 == Spec => []L0Bounded
PROOF
  <1>1. Spec => []TypeInv
    BY TypeInit, TypeNext, PTL DEF Spec
  <1>2. TypeInv /\ TypeInv' /\ L0Inv /\ [Next]_vars => L0Inv'
    BY L0Next
  <1>3. Spec => []L0Inv
    BY <1>1, <1>2, L0Init, PTL DEF Spec
  <1>4. L0Inv => L0Bounded
    BY DEF L0Inv, L0Bounded, Limit, Bound
  <1> QED BY <1>3, <1>4, PTL

---------------------------------------------------------------------------
(* The background job and the levels.  As long as the caller leaves        *)
(* compaction to the background thread, a job that passes the generation   *)
(* test still describes the levels it is written back to.                  *)

SoloCompactor == Calls \cap {"compact", "compact_all"} = {}

JobInv ==
  /\ pc["user"] \notin {"compacting", "merge_all", "write_all"}
  /\ job["bg"].gen <= generation
  /\ CompactionJobCurrent

\* A job in a thread that does not compact says nothing.
LEMMA JobIdle ==
  ASSUME TypeInv', pc'["user"] \notin {"compacting", "merge_all", "write_all"},
         pc'["bg"] # "compacting", job'["bg"].gen <= generation'
  PROVE  JobInv'
PROOF BY DEF JobInv, CompactionJobCurrent, Threads

\* Steps that leave the levels, the generation and the job alone.
LEMMA JobFrame ==
  ASSUME JobInv, UNCHANGED <<levels, generation, job>>,
         pc'["user"] \notin {"compacting", "merge_all", "write_all"},
         pc'["bg"] = pc["bg"]
  PROVE  JobInv'
PROOF
  <1>1. CompactionJobCurrent'
    <2> SUFFICES ASSUME NEW t \in Threads,
                        pc'[t] = "compacting", job[t].stage \in {"merge", "write"},
                        generation = job[t].gen
                 PROVE  /\ Len(job[t].snap[0]) <= Len(levels[0])
                        /\ \A i \in DOMAIN job[t].snap[0] : levels[0][i] = job[t].snap[0][i]
                        /\ \A l \in Levels \ {0} : levels[l] = job[t].snap[l]
      BY DEF CompactionJobCurrent
    <2>1. t = "bg" /\ pc[t] = "compacting"
      BY DEF Threads
    <2> QED BY <2>1 DEF JobInv, CompactionJobCurrent
  <1> QED BY <1>1 DEF JobInv

LEMMA JobNext ==
  ASSUME SoloCompactor, TypeInv, TypeInv', JobInv, [Next]_vars
  PROVE  JobInv'
PROOF
  <1>0. /\ 0 \in Levels
        /\ levels[0] \in Seq(Run)
        /\ Len(levels[0]) \in Nat
        /\ pc \in [Threads -> UserPc \union BgPc]
        /\ "user" \in Threads /\ "bg" \in Threads
        /\ job["bg"] \in Job
        /\ generation \in Nat
    <2>1. 0 \in Levels
      BY LevelAssumption DEF Levels
    <2>2. levels[0] \in Seq(Run)
      BY <2>1 DEF TypeInv, TypeOK, LevelMap
    <2>3. "user" \in Threads /\ "bg" \in Threads
      BY DEF Threads
    <2> QED BY <2>1, <2>2, <2>3, LenProperties DEF TypeInv, TypeOK
  <1>1. ASSUME NEW m, WriteMemtable(m) PROVE JobInv'
    <2>1. /\ UNCHANGED <<levels, generation, job>>
          /\ pc'["user"] \in {"idle", "push"} /\ pc'["bg"] = pc["bg"]
      BY <1>0, <1>1 DEF WriteMemtable, StartFlush, UserGoto, Idle
    <2> QED BY <2>1, JobFrame
  <1>2. CASE Flush
    <2>1. CASE FlushPush
      <3>1. flight \in Run
        BY <2>1 DEF FlushPush, TypeInv, FlightHeld
      <3>2. levels'[0] = Append(levels[0], flight) /\ \A l \in Levels \ {0} : levels'[l] = levels[l]
        BY <1>0, <2>1 DEF FlushPush, TypeInv, TypeOK, LevelMap
      <3>3. /\ Len(levels'[0]) = Len(levels[0]) + 1
            /\ \A i \in 1 .. Len(levels[0]) : levels'[0][i] = levels[0][i]
        BY <1>0, <3>1, <3>2, AppendProperties
      <3>4. UNCHANGED <<generation, job>> /\ pc'["user"] = "credit" /\ pc'["bg"] = pc["bg"]
        BY <1>0, <2>1 DEF FlushPush, UserGoto
      <3>5. CompactionJobCurrent'
        <4> SUFFICES ASSUME NEW t \in Threads,
                            pc'[t] = "compacting", job[t].stage \in {"merge", "write"},
                            generation = job[t].gen
                     PROVE  /\ Len(job[t].snap[0]) <= Len(levels'[0])
                            /\ \A i \in DOMAIN job[t].snap[0] : levels'[0][i] = job[t].snap[0][i]
                            /\ \A l \in Levels \ {0} : levels'[l] = job[t].snap[l]
          BY <3>4 DEF CompactionJobCurrent
        <4>1. t = "bg" /\ pc["bg"] = "compacting"
          BY <3>4 DEF Threads
        <4>2. /\ Len(job[t].snap[0]) <= Len(levels[0])
              /\ \A i \in DOMAIN job[t].snap[0] : levels[0][i] = job[t].snap[0][i]
              /\ \A l \in Levels \ {0} : levels[l] = job[t].snap[l]
          BY <4>1 DEF JobInv, CompactionJobCurrent
        <4>3. job[t].snap[0] \in Seq(Run)
          BY <1>0, <4>1 DEF Job, LevelMap
        <4>4. DOMAIN job[t].snap[0] = 1 .. Len(job[t].snap[0]) /\ Len(job[t].snap[0]) \in Nat
          BY <4>3, LenProperties
        <4>5. DOMAIN job[t].snap[0] \subseteq 1 .. Len(levels[0])
          BY <1>0, <4>2, <4>4
        <4>6. Len(job[t].snap[0]) <= Len(levels'[0])
          BY <1>0, <3>3, <4>2, <4>4
        <4> QED BY <3>2, <3>3, <4>2, <4>5, <4>6
      <3> QED BY <3>4, <3>5 DEF JobInv
    <2>2. CASE FlushFail \/ FlushCredit \/ FlushSignal \/ FlushPoll \/ FlushResume
      <3>1. /\ UNCHANGED <<levels, generation, job>> /\ pc'["bg"] = pc["bg"]
            /\ pc'["user"] \in {"idle", "signal", "stall", "link"}
        BY <1>0, <2>2 DEF FlushFail, FlushCredit, FlushSignal, FlushPoll, FlushResume,
                          UserGoto, vars, TypeInv, TypeOK
      <3> QED BY <3>1, JobFrame
    <2> QED BY <1>2, <2>1, <2>2 DEF Flush
  <1>3. CASE RunCompaction("bg")
    <2>1. CASE LoadGeneration("bg")
      <3>1. /\ job'["bg"].stage = "clone" /\ job'["bg"].gen = generation
            /\ UNCHANGED <<generation, pc>>
        BY <1>0, <2>1 DEF LoadGeneration, TypeInv, TypeOK, Job
      <3>2. CompactionJobCurrent'
        BY <3>1 DEF CompactionJobCurrent, JobInv, Threads
      <3> QED BY <1>0, <3>1, <3>2 DEF JobInv
    <2>2. ASSUME Return("bg"), UNCHANGED generation PROVE JobInv'
      <3>1. pc'["bg"] = "credit" /\ pc'["user"] = pc["user"] /\ job'["bg"] = NoJob
        BY <1>0, <2>2 DEF Return, TypeInv, TypeOK
      <3>2. job'["bg"].gen <= generation'
        BY <1>0, <2>2, <3>1 DEF NoJob
      <3> QED BY <3>1, <3>2, JobIdle DEF JobInv
    <2>3. CASE CloneAndSelect("bg")
      <3>1. CASE Return("bg")
        BY <2>2, <2>3, <3>1 DEF CloneAndSelect
      <3>2. CASE ~ Return("bg")
        <4>1. PICK l \in SelectLevel(levels) :
                job' = [job EXCEPT !["bg"].stage = "merge", !["bg"].snap = levels, !["bg"].src = l]
          BY <2>3, <3>2 DEF CloneAndSelect
        <4>2. job'["bg"].snap = levels /\ job'["bg"].gen = job["bg"].gen
          BY <1>0, <4>1 DEF TypeInv, TypeOK, Job
        <4>3. UNCHANGED <<levels, generation, pc>>
          BY <2>3, <3>2 DEF CloneAndSelect
        <4>4. CompactionJobCurrent'
          BY <1>0, <4>2, <4>3 DEF CompactionJobCurrent, JobInv, Threads
        <4> QED BY <4>2, <4>3, <4>4 DEF JobInv
      <3> QED BY <3>1, <3>2
    <2>4. CASE Merge("bg")
      <3>1. /\ job'["bg"].snap = job["bg"].snap /\ job'["bg"].gen = job["bg"].gen
            /\ job["bg"].stage = "merge" /\ pc["bg"] = "compacting"
            /\ UNCHANGED <<levels, generation, pc>>
        BY <1>0, <2>4 DEF Merge, InStage, TypeInv, TypeOK, Job
      <3>2. CompactionJobCurrent'
        BY <3>1 DEF CompactionJobCurrent, JobInv, Threads
      <3> QED BY <3>1, <3>2 DEF JobInv
    <2>5. CASE MergeFail("bg")
      BY <2>2, <2>5 DEF MergeFail, FailedMerge
    <2>6. CASE WriteBack("bg")
      BY <2>2, <2>6 DEF WriteBack
    <2> QED BY <1>3, <2>1, <2>3, <2>4, <2>5, <2>6 DEF RunCompaction
  <1>4. CASE BgWake
    <2>1. CASE pc' = pc
      <3>1. UNCHANGED <<levels, generation, job>>
        BY <1>0, <1>4, <2>1 DEF BgWake
      <3> QED BY <2>1, <3>1, JobFrame DEF JobInv
    <2>2. CASE pc' # pc
      <3>1. job'["bg"] = NewJob /\ pc'["user"] = pc["user"] /\ UNCHANGED generation
        BY <1>0, <1>4, <2>2 DEF BgWake, TypeInv, TypeOK
      <3>2. CompactionJobCurrent'
        BY <3>1 DEF CompactionJobCurrent, JobInv, NewJob, Threads
      <3> QED BY <1>0, <3>1, <3>2 DEF JobInv, NewJob
    <2> QED BY <2>1, <2>2
  <1>5. CASE BgCredit \/ BgExit
    <2>1. /\ pc'["user"] = pc["user"] /\ pc'["bg"] \in {"wait", "exit"}
          /\ UNCHANGED <<generation, job>>
      BY <1>0, <1>5 DEF BgCredit, BgExit
    <2> QED BY <2>1, JobIdle DEF JobInv
  <1>6. CASE ManualCompaction
    <2>1. ~ RunCompaction("user")
      BY DEF JobInv, RunCompaction, LoadGeneration, CloneAndSelect, Merge, MergeFail,
             WriteBack, InStage
    <2>2. ~ Compact /\ ~ CompactAll
      BY DEF SoloCompactor, Compact, CompactAll
    <2>3. ~ MergeAll /\ ~ MergeAllFail /\ ~ WriteAll
      BY DEF JobInv, MergeAll, MergeAllFail, WriteAll
    <2> QED BY <1>6, <2>1, <2>2, <2>3 DEF ManualCompaction
  <1>7. ASSUME NEW s \in SnapIds, Snapshot(s) PROVE JobInv'
    BY <1>7, JobFrame DEF Snapshot, JobInv
  <1>8. ASSUME NEW s \in SnapIds, Rollback(s) PROVE JobInv'
    <2>1. UNCHANGED <<job, pc>> /\ generation' = generation + 1
      BY <1>8 DEF Rollback
    <2>2. job["bg"].gen \in Nat
      BY <1>0 DEF Job
    <2>3. generation' # job'["bg"].gen /\ job'["bg"].gen <= generation'
      BY <1>0, <2>1, <2>2 DEF JobInv
    <2>4. CompactionJobCurrent'
      BY <2>1, <2>3 DEF CompactionJobCurrent, JobInv, Threads
    <2> QED BY <2>1, <2>3, <2>4 DEF JobInv
  <1>9. CASE SaveSnapshot \/ Link \/ Drop
    <2>1. /\ UNCHANGED <<levels, generation, job>> /\ pc'["bg"] = pc["bg"]
          /\ pc'["user"] \in {"push", "link", "idle", "joining"}
      BY <1>0, <1>9 DEF SaveSnapshot, StartFlush, Link, Drop, UserGoto
    <2> QED BY <2>1, JobFrame
  <1>10. CASE Joined \/ Open
    <2>1. /\ pc'["user"] \in {"idle", "closed"} /\ pc'["bg"] \in {"wait", "exit"}
          /\ job'["bg"] = NoJob /\ generation' = 0
      BY <1>0, <1>10 DEF Joined, Open, OpenAs, NoSession, StartSession, Session, ThreadsAt
    <2> QED BY <2>1, JobIdle DEF NoJob
  <1>11. CASE UNCHANGED vars
    BY <1>11, JobFrame DEF vars, JobInv
  <1>12. CASE User
    BY <1>1, <1>2, <1>6, <1>7, <1>8, <1>9, <1>10, <1>12
    DEF User, Insert, Delete, InsertBatch, DeleteBatch
  <1>13. CASE Background
    BY <1>3, <1>4, <1>5, <1>13 DEF Background
  <1> QED BY <1>9, <1>10, <1>11, <1>12, <1>13 DEF Next

LEMMA JobInit == Init => JobInv
PROOF BY DEF Init, JobInv, CompactionJobCurrent, NoJob, ThreadsAt, Threads

\* The generation counter is enough: when the background thread is the only
\* compactor, a job that is not discarded removes exactly the runs it merged
\* and clears a bottom level it has read, for every order of flushes and
\* rollbacks (compaction.rs:341-412, lib.rs:1239-1247).
THEOREM JobsStayCurrent == SoloCompactor => (Spec => []CompactionJobCurrent)
PROOF
  <1> SUFFICES ASSUME SoloCompactor PROVE Spec => []CompactionJobCurrent
    OBVIOUS
  <1>1. Spec => []TypeInv
    BY TypeInit, TypeNext, PTL DEF Spec
  <1>2. TypeInv /\ TypeInv' /\ JobInv /\ [Next]_vars => JobInv'
    BY JobNext
  <1>3. Spec => []JobInv
    BY <1>1, <1>2, JobInit, PTL DEF Spec
  <1>4. JobInv => CompactionJobCurrent
    BY DEF JobInv
  <1> QED BY <1>3, <1>4, PTL

---------------------------------------------------------------------------
(* Every level ascends in run number, which is what makes the backwards    *)
(* walk of get a walk from new to old.  The run in flight is newer than    *)
(* all of L0, and the output of a job newer than all of its target level.  *)
(* Runs that open has found stand as it has ordered them.                  *)

\* s ascends, but for pairs of runs of F.
Ascends(s, F) ==
  \A i, j \in DOMAIN s : i < j => s[i].num < s[j].num \/ {s[i], s[j]} \subseteq F

AscInv ==
  /\ \A l \in Levels : Ascends(levels[l], found)
  /\ \A s \in SnapIds : snapshots[s] # None =>
       \A l \in Levels : Ascends(snapshots[s].levels[l], found)
  /\ pc["user"] = "push" => \A r \in RunSet(levels[0]) : r.num < flight.num
  /\ /\ InStage("bg", "write")
     /\ generation = job["bg"].gen
     /\ job["bg"].out # None
     => \A r \in RunSet(levels[job["bg"].src + 1]) : r.num < job["bg"].out.num

LEMMA AscendsAppend ==
  ASSUME NEW F, NEW s \in Seq(Run), NEW r \in Run, Ascends(s, F), \A q \in RunSet(s) : q.num < r.num
  PROVE  Ascends(Append(s, r), F)
PROOF
  <1> DEFINE x == Append(s, r)
  <1>1. /\ x \in Seq(Run) /\ Len(x) = Len(s) + 1
        /\ \A i \in 1 .. Len(s) : x[i] = s[i]
        /\ x[Len(s) + 1] = r
    BY AppendProperties
  <1>2. Len(s) \in Nat /\ DOMAIN s = 1 .. Len(s) /\ DOMAIN x = 1 .. Len(s) + 1
    BY <1>1, LenProperties
  <1>3. \A i \in 1 .. Len(s) : s[i].num < r.num
    BY <1>2 DEF RunSet
  <1> HIDE DEF x
  <1>4. ASSUME NEW i \in DOMAIN x, NEW j \in DOMAIN x, i < j PROVE x[i].num < x[j].num \/ {x[i], x[j]} \subseteq F
    <2>1. i \in 1 .. Len(s) /\ (j \in 1 .. Len(s) \/ j = Len(s) + 1)
      BY <1>2, <1>4
    <2> QED BY <1>1, <1>2, <1>3, <1>4, <2>1 DEF Ascends
  <1>5. Ascends(x, F)
    BY <1>4 DEF Ascends
  <1> QED BY <1>5 DEF x

LEMMA AscendsRemove ==
  ASSUME NEW F, NEW s \in Seq(Run), NEW n \in Nat, Ascends(s, F)
  PROVE  Ascends(DropFirst(s, n), F)
PROOF
  <1> DEFINE x == DropFirst(s, n)
  <1>1. /\ x \in Seq(Run)
        /\ \A i \in 1 .. Len(x) : n + i \in 1 .. Len(s) /\ x[i] = s[n + i]
    BY DropFirstRuns
  <1>2. Len(s) \in Nat /\ DOMAIN s = 1 .. Len(s) /\ DOMAIN x = 1 .. Len(x) /\ Len(x) \in Nat
    BY <1>1, LenProperties
  <1> HIDE DEF x
  <1>3. ASSUME NEW i \in DOMAIN x, NEW j \in DOMAIN x, i < j PROVE x[i].num < x[j].num \/ {x[i], x[j]} \subseteq F
    <2>1. n + i \in DOMAIN s /\ n + j \in DOMAIN s /\ n + i < n + j
      BY <1>1, <1>2, <1>3
    <2> QED BY <1>1, <1>2, <2>1 DEF Ascends
  <1>4. Ascends(x, F)
    BY <1>3 DEF Ascends
  <1> QED BY <1>4 DEF x

LEMMA AscendsShort ==
  \A F : Ascends(<<>>, F) /\ \A r : Ascends(<<r>>, F)
PROOF BY DEF Ascends

\* The write-back keeps every level ascending.
LEMMA AppliedAscends ==
  ASSUME NEW F, NEW lv \in LevelMap, NEW j \in Job, \A l \in Levels : Ascends(lv[l], F),
         j.out # None => \A r \in RunSet(lv[j.src + 1]) : r.num < j.out.num
  PROVE  /\ \A l \in Levels : Ascends(Applied(lv, j)[l], F)
         /\ RunSet(Applied(lv, j)[0]) \subseteq RunSet(lv[0])
PROOF
  <1> DEFINE src == j.src
             tgt == j.src + 1
             n == Len(j.snap[src])
             cut == [lv EXCEPT ![src] = DropFirst(@, n)]
  <1>1. src \in Levels /\ tgt \in Levels /\ tgt # 0 /\ tgt # src /\ 0 \in Levels
    BY SourceAndTarget DEF Job
  <1>2. lv[src] \in Seq(Run) /\ lv[tgt] \in Seq(Run) /\ n \in Nat
    BY <1>1, LenProperties DEF LevelMap, Job
  <1>3. /\ \A l \in Levels : cut[l] = IF l = src THEN DropFirst(lv[src], n) ELSE lv[l]
        /\ DOMAIN cut = Levels
    BY <1>1 DEF LevelMap
  <1>4. Ascends(DropFirst(lv[src], n), F) /\ RunSet(DropFirst(lv[src], n)) \subseteq RunSet(lv[src])
    BY <1>1, <1>2, AscendsRemove, DropFirstRuns
  <1> HIDE DEF cut, n
  <1>5. /\ \A l \in Levels : Ascends(cut[l], F)
        /\ RunSet(cut[0]) \subseteq RunSet(lv[0])
        /\ cut[tgt] = lv[tgt]
    BY <1>1, <1>3, <1>4
  <1>6. CASE j.out = None
    <2>1. Applied(lv, j) = cut
      BY <1>6 DEF Applied, cut, n
    <2> QED BY <1>5, <2>1
  <1>7. CASE j.out # None
    <2> DEFINE s == IF tgt = MaxLevel THEN <<j.out>> ELSE Append(cut[tgt], j.out)
    <2>1. j.out \in Run
      BY <1>7 DEF Job
    <2>2. Ascends(Append(lv[tgt], j.out), F)
      BY <1>1, <1>2, <1>7, <2>1, AscendsAppend
    <2>3. Ascends(s, F)
      BY <1>5, <2>2, AscendsShort
    <2>4. Applied(lv, j) = [cut EXCEPT ![tgt] = s]
      BY <1>7 DEF Applied, cut, n
    <2> HIDE DEF s
    <2>5. \A l \in Levels : Applied(lv, j)[l] = IF l = tgt THEN s ELSE cut[l]
      BY <1>1, <1>3, <2>4
    <2> QED BY <1>1, <1>5, <2>3, <2>5
  <1> QED BY <1>6, <1>7

LEMMA AscInit == Init => AscInv
PROOF
  <1> SUFFICES ASSUME Init PROVE AscInv
    OBVIOUS
  <1>1. \A l \in Levels : NoRuns[l] = <<>>
    BY DEF NoRuns
  <1> QED BY <1>1, AscendsShort DEF Init, AscInv, InStage, ThreadsAt, Threads

LEMMA AscNext ==
  ASSUME SoloCompactor, TypeInv, TypeInv', JobInv, AscInv, [Next]_vars
  PROVE  AscInv'
PROOF
  <1>0. /\ 0 \in Levels
        /\ levels[0] \in Seq(Run)
        /\ levels \in LevelMap
        /\ pc \in [Threads -> UserPc \union BgPc]
        /\ "user" \in Threads /\ "bg" \in Threads
        /\ job["bg"] \in Job
        /\ next_run_number \in Nat
    <2>1. 0 \in Levels
      BY LevelAssumption DEF Levels
    <2>2. "user" \in Threads /\ "bg" \in Threads
      BY DEF Threads
    <2> QED BY <2>1, <2>2 DEF TypeInv, TypeOK, LevelMap
  <1>1. \A l \in Levels : \A r \in RunSet(levels[l]) : r.num < next_run_number
    BY <1>0, LevelRuns DEF TypeInv, NumsBelow, RunsBelow, LevelMap
  <1>2. ASSUME UNCHANGED <<levels, snapshots, generation, job>>, pc'["bg"] = pc["bg"],
               UNCHANGED found,
               pc'["user"] = "push" => flight'.num = next_run_number
                                         \/ (pc["user"] = "push" /\ flight' = flight)
        PROVE  AscInv'
    BY <1>0, <1>1, <1>2 DEF AscInv, InStage
  <1>3. ASSUME NEW m, WriteMemtable(m) PROVE AscInv'
    <2>1. UNCHANGED <<levels, snapshots, generation, job, found>> /\ pc'["bg"] = pc["bg"]
      BY <1>0, <1>3 DEF WriteMemtable, StartFlush, UserGoto
    <2>2. pc'["user"] = "push" => flight'.num = next_run_number
      BY <1>0, <1>3 DEF WriteMemtable, StartFlush, UserGoto, Idle
    <2> QED BY <1>2, <2>1, <2>2
  <1>4. CASE Flush
    <2>1. CASE FlushPush
      <3>1. flight \in Run
        BY <2>1 DEF FlushPush, TypeInv, FlightHeld
      <3>2. levels'[0] = Append(levels[0], flight) /\ \A l \in Levels \ {0} : levels'[l] = levels[l]
        BY <1>0, <2>1 DEF FlushPush, TypeInv, TypeOK, LevelMap
      <3>3. Ascends(Append(levels[0], flight), found)
        BY <1>0, <2>1, <3>1, AscendsAppend DEF AscInv, FlushPush
      <3>4. \A l \in Levels : Ascends(levels'[l], found)
        BY <3>2, <3>3 DEF AscInv
      <3>5. /\ UNCHANGED <<snapshots, generation, job, found>>
            /\ pc'["user"] = "credit" /\ pc'["bg"] = pc["bg"]
        BY <1>0, <2>1 DEF FlushPush, UserGoto
      <3>6. job["bg"].src + 1 \in Levels \ {0}
        BY <1>0, SourceAndTarget DEF Job
      <3> QED BY <3>2, <3>4, <3>5, <3>6 DEF AscInv, InStage
    <2>2. CASE FlushFail \/ FlushCredit \/ FlushSignal \/ FlushPoll \/ FlushResume
      <3>1. UNCHANGED <<levels, snapshots, generation, job, found>> /\ pc'["bg"] = pc["bg"]
        BY <1>0, <2>2 DEF FlushFail, FlushCredit, FlushSignal, FlushPoll, FlushResume,
                          UserGoto, vars
      <3>2. pc'["user"] # "push"
        BY <1>0, <2>2 DEF FlushFail, FlushCredit, FlushSignal, FlushPoll, FlushResume,
                          UserGoto, vars, TypeInv, TypeOK
      <3> QED BY <1>2, <3>1, <3>2
    <2> QED BY <1>4, <2>1, <2>2 DEF Flush
  <1>5. CASE RunCompaction("bg")
    <2>1. UNCHANGED <<snapshots, generation, flight, found>> /\ pc'["user"] = pc["user"]
      BY <1>0, <1>5 DEF RunCompaction, LoadGeneration, CloneAndSelect, Merge, MergeFail,
                        FailedMerge, WriteBack, Return
    <2>2. CASE WriteBack("bg")
      <3>1. pc'["bg"] = "credit"
        BY <1>0, <2>2 DEF WriteBack, Return
      <3>2. CASE generation = job["bg"].gen
        <4>1. levels' = Applied(levels, job["bg"])
          BY <2>2, <3>2 DEF WriteBack
        <4>2. job["bg"].out # None =>
                \A r \in RunSet(levels[job["bg"].src + 1]) : r.num < job["bg"].out.num
          BY <2>2, <3>2 DEF AscInv, WriteBack
        <4>3. /\ \A l \in Levels : Ascends(levels'[l], found)
              /\ RunSet(levels'[0]) \subseteq RunSet(levels[0])
          BY <1>0, <4>1, <4>2, AppliedAscends DEF AscInv
        <4> QED BY <2>1, <3>1, <4>3 DEF AscInv, InStage
      <3>3. CASE generation # job["bg"].gen
        <4>1. levels' = levels
          BY <2>2, <3>3 DEF WriteBack
        <4> QED BY <2>1, <3>1, <4>1 DEF AscInv, InStage
      <3> QED BY <3>2, <3>3
    <2>3. CASE Merge("bg")
      <3>1. UNCHANGED <<levels, pc>> /\ job'["bg"].src = job["bg"].src
        BY <1>0, <2>3 DEF Merge, TypeInv, TypeOK, Job
      <3>2. job'["bg"].out # None => job'["bg"].out.num = next_run_number
        BY <1>0, <2>3, MergedRunType DEF Merge, TypeInv, TypeOK, Job
      <3>3. job["bg"].src + 1 \in Levels
        BY <1>0, SourceAndTarget DEF Job
      <3> QED BY <1>1, <2>1, <3>1, <3>2, <3>3 DEF AscInv
    <2>4. CASE LoadGeneration("bg") \/ CloneAndSelect("bg") \/ MergeFail("bg")
      <3>1. levels' = levels
        BY <2>4 DEF LoadGeneration, CloneAndSelect, MergeFail, FailedMerge
      <3>2. ~ InStage("bg", "write")'
        BY <1>0, <2>4 DEF LoadGeneration, CloneAndSelect, MergeFail, FailedMerge, Return, InStage,
                          NoJob, TypeInv, TypeOK, Job
      <3> QED BY <2>1, <3>1, <3>2 DEF AscInv
    <2> QED BY <1>5, <2>2, <2>3, <2>4 DEF RunCompaction
  <1>6. CASE BgWake \/ BgCredit \/ BgExit
    <2>1. UNCHANGED <<levels, snapshots, generation, flight, found>> /\ pc'["user"] = pc["user"]
      BY <1>0, <1>6 DEF BgWake, BgCredit, BgExit
    <2>2. ~ InStage("bg", "write")'
      BY <1>0, <1>6 DEF BgWake, BgCredit, BgExit, InStage, NewJob, TypeInv, TypeOK
    <2> QED BY <2>1, <2>2 DEF AscInv
  <1>7. CASE ManualCompaction
    <2>1. ~ RunCompaction("user")
      BY DEF JobInv, RunCompaction, LoadGeneration, CloneAndSelect, Merge, MergeFail,
             WriteBack, InStage
    <2>2. ~ Compact /\ ~ CompactAll
      BY DEF SoloCompactor, Compact, CompactAll
    <2>3. ~ MergeAll /\ ~ MergeAllFail /\ ~ WriteAll
      BY DEF JobInv, MergeAll, MergeAllFail, WriteAll
    <2> QED BY <1>7, <2>1, <2>2, <2>3 DEF ManualCompaction
  <1>8. ASSUME NEW s \in SnapIds, Snapshot(s) PROVE AscInv'
    <2>1. UNCHANGED <<levels, generation, job, pc, flight, found>>
      BY <1>8 DEF Snapshot
    <2>2. \A x \in SnapIds : snapshots'[x] # None =>
            \A l \in Levels : Ascends(snapshots'[x].levels[l], found)
      BY <1>8 DEF Snapshot, AscInv, TypeInv, TypeOK
    <2> QED BY <2>1, <2>2 DEF AscInv, InStage
  <1>9. ASSUME NEW s \in SnapIds, Rollback(s) PROVE AscInv'
    <2>1. /\ UNCHANGED <<snapshots, job, pc, found>> /\ pc["user"] = "idle"
          /\ generation' = generation + 1
          /\ \A l \in Levels : Ascends(levels'[l], found)
      BY <1>9 DEF Rollback, Idle, AscInv
    <2>2. generation' # job'["bg"].gen
      BY <1>0, <2>1 DEF JobInv, TypeInv, TypeOK, Job
    <2> QED BY <2>1, <2>2 DEF AscInv
  <1>10. CASE SaveSnapshot \/ Link \/ Drop
    <2>1. UNCHANGED <<levels, snapshots, generation, job, found>> /\ pc'["bg"] = pc["bg"]
      BY <1>0, <1>10 DEF SaveSnapshot, StartFlush, Link, Drop, UserGoto
    <2>2. pc'["user"] = "push" => flight'.num = next_run_number
      BY <1>0, <1>10 DEF SaveSnapshot, StartFlush, Link, Drop, UserGoto
    <2> QED BY <1>2, <2>1, <2>2
  <1>11. CASE Joined
    <2>1. /\ pc'["user"] = "closed" /\ pc'["bg"] = "exit"
          /\ levels' = NoRuns /\ snapshots' = [s \in SnapIds |-> None]
      BY <1>0, <1>11 DEF Joined, NoSession, Session, ThreadsAt
    <2>2. \A l \in Levels : NoRuns[l] = <<>>
      BY DEF NoRuns
    <2> QED BY <2>1, <2>2, AscendsShort DEF AscInv, InStage
  <1>110. CASE Open
    <2>1. /\ RunSet(levels'[0]) = found' /\ \A l \in Levels \ {0} : levels'[l] = <<>>
          /\ snapshots' = [s \in SnapIds |-> None]
          /\ pc' = ThreadsAt("idle", "wait")
      BY <1>110, Opened DEF Open
    <2>2. Ascends(levels'[0], found')
      BY <2>1 DEF Ascends, RunSet
    <2>3. \A l \in Levels : Ascends(levels'[l], found')
      BY <2>1, <2>2, AscendsShort
    <2>4. pc'["user"] = "idle" /\ pc'["bg"] = "wait"
      BY <2>1 DEF ThreadsAt, Threads
    <2> QED BY <2>1, <2>3, <2>4 DEF AscInv, InStage
  <1>12. CASE UNCHANGED vars
    BY <1>2, <1>12 DEF vars
  <1>13. CASE User
    BY <1>3, <1>4, <1>7, <1>8, <1>9, <1>10, <1>11, <1>13
    DEF User, Insert, Delete, InsertBatch, DeleteBatch
  <1>14. CASE Background
    BY <1>5, <1>6, <1>14 DEF Background
  <1> QED BY <1>10, <1>110, <1>12, <1>13, <1>14 DEF Next

\* When the background thread is the only compactor, the runs of every level
\* stand in ascending run-number order through every flush, compaction and
\* rollback, but for runs the session has started with: the order get relies on
\* (lib.rs:878-879).
THEOREM LevelsStayAscending == SoloCompactor => (Spec => []LevelsAscend)
PROOF
  <1> SUFFICES ASSUME SoloCompactor PROVE Spec => []LevelsAscend
    OBVIOUS
  <1>1. Spec => []TypeInv
    BY TypeInit, TypeNext, PTL DEF Spec
  <1>2. TypeInv /\ TypeInv' /\ JobInv /\ [Next]_vars => JobInv'
    BY JobNext
  <1>3. Spec => []JobInv
    BY <1>1, <1>2, JobInit, PTL DEF Spec
  <1>4. TypeInv /\ TypeInv' /\ JobInv /\ AscInv /\ [Next]_vars => AscInv'
    BY AscNext
  <1>5. Spec => []AscInv
    BY <1>1, <1>3, <1>4, AscInit, PTL DEF Spec
  <1>6. AscInv => LevelsAscend
    BY DEF AscInv, Ascends, LevelsAscend
  <1> QED BY <1>5, <1>6, PTL

---------------------------------------------------------------------------
(* The abstract specification.                                             *)

\* CallByCall looks only at steps of actions it names.  Since these are all the
\* actions of the tree, it makes every behaviour of the tree a behaviour of
\* KvStore: its state, seen through range, starts empty and changes only by the
\* store's operations (lib.rs:984-1043).
THEOREM CallByCallRefines == Spec /\ ImplementsKvStore => KV!Spec
PROOF
  <1>1. ASSUME Next, CallByCall PROVE [KV!Next]_(KV!vars)
    <2>1. ASSUME NEW k \in Keys, NEW v \in Values, Insert(k, v) PROVE KV!Next
      <3>1. KV!Put([i \in {k} |-> v]) /\ {k} \in SUBSET Keys
            /\ [i \in {k} |-> v] \in [{k} -> Values]
        BY <1>1, <2>1 DEF CallByCall
      <3> QED BY <3>1 DEF KV!Next
    <2>2. ASSUME NEW k \in Keys, Delete(k) PROVE KV!Next
      BY <1>1, <2>2 DEF CallByCall, KV!Next
    <2>3. ASSUME NEW S \in SUBSET Keys, NEW w \in [S -> Values], InsertBatch(S, w)
          PROVE  KV!Next
      BY <1>1, <2>3 DEF CallByCall, KV!Next
    <2>4. ASSUME NEW S \in SUBSET Keys, DeleteBatch(S) PROVE KV!Next
      BY <1>1, <2>4 DEF CallByCall, KV!Next
    <2>5. ASSUME NEW s \in SnapIds, Snapshot(s) \/ Rollback(s) PROVE KV!Next
      BY <1>1, <2>5 DEF CallByCall, KV!Next
    <2>6. CASE Joined \/ Open
      BY <1>1, <2>6 DEF CallByCall, KV!Next
    <2>7. CASE Flush \/ ManualCompaction \/ SaveSnapshot \/ Link \/ Drop \/ Background
      BY <1>1, <2>7 DEF CallByCall
    <2> QED BY <1>1, <2>1, <2>2, <2>3, <2>4, <2>5, <2>6, <2>7 DEF Next, User
  <1>2. UNCHANGED vars => UNCHANGED KV!vars
    BY DEF vars, KV!vars, View, SnapshotViews, Contents, InFlight, RangeData,
           RangeEntry, Overlay, Live, EmptyData
  <1>3. [Next]_vars /\ [CallByCall]_vars => [KV!Next]_(KV!vars)
    BY <1>1, <1>2
  <1> QED BY <1>3, PTL DEF Spec, ImplementsKvStore, KV!Spec
=============================================================================
