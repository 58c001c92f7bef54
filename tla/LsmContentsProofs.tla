------------------------- MODULE LsmContentsProofs --------------------------
(* The tree implements KvStore: no flush and no compaction shows.  Proved  *)
(* for every configuration in which the background thread is the only      *)
(* compactor and flushes do not fail.                                      *)
EXTENDS LsmTreeProofs

---------------------------------------------------------------------------
(* What a reader sees of one entry.                                        *)

Shown(x) == IF x = Tombstone THEN Absent ELSE x

LEMMA SameContents ==
  ASSUME NEW lv, NEW w,
         \A k \in Keys : Shown(RangeEntry(lv, k)) = Shown(RangeEntry(w, k))
  PROVE  \A m : Contents(m, lv) = Contents(m, w)
PROOF
  <1> SUFFICES ASSUME NEW m, NEW k \in Keys
               PROVE  Contents(m, lv)[k] = Contents(m, w)[k]
    BY DEF Contents, Live
  <1>1. Shown(RangeEntry(lv, k)) = Shown(RangeEntry(w, k))
    OBVIOUS
  <1> QED BY <1>1 DEF Contents, Live, Overlay, RangeData, Shown

\* A run pushed onto L0, newer than all of it, goes over everything below.
LEMMA RangePush ==
  ASSUME NEW lv \in LevelMap, NEW r \in Run, NEW k \in Keys,
         RankedLevels(lv), RankedLevels([lv EXCEPT ![0] = Append(lv[0], r)]),
         \A q \in RunSet(lv[0]) : q.num < r.num
  PROVE  RangeEntry([lv EXCEPT ![0] = Append(lv[0], r)], k)
           = IF r.data[k] # Absent THEN r.data[k] ELSE RangeEntry(lv, k)
PROOF
  <1> DEFINE w == [lv EXCEPT ![0] = Append(lv[0], r)]
  <1>1. 0 \in Levels /\ \A l \in Levels : l \in Nat /\ ~(l < 0)
    BY LevelAssumption DEF Levels
  <1>2. /\ RunSet(w[0]) = RunSet(lv[0]) \union {r}
        /\ \A l \in Levels : l # 0 => w[l] = lv[l]
    BY <1>1, AppendRuns DEF LevelMap
  <1>3. NewestEntry({r}, k) = r.data[k] /\ Ranked(RunSet(w[0]))
    BY <1>1, NewestOfOne DEF RankedLevels
  <1> HIDE DEF w
  <1> DEFINE A == RunSet(lv[0])
             B == {r}
  <1>a. /\ RunSet(w[0]) = A \union B
        /\ Ranked(A \union B)
        /\ Older(A, B)
        /\ NewestEntry(B, k) = r.data[k]
    BY <1>2, <1>3 DEF Older
  <1> HIDE DEF A, B
  <1>b. NewestEntry(A \union B, k) =
           IF NewestEntry(B, k) # Absent THEN NewestEntry(B, k) ELSE NewestEntry(A, k)
    BY <1>a, NewestUnion
  <1>4. LevelEntry(w, 0, k) = IF r.data[k] # Absent THEN r.data[k] ELSE LevelEntry(lv, 0, k)
    BY <1>a, <1>b DEF LevelEntry, A
  <1>5. \A l \in Levels : l # 0 => LevelEntry(w, l, k) = LevelEntry(lv, l, k)
    BY <1>2 DEF LevelEntry
  <1>6. RankedLevels(w)
    BY DEF w
  <1>7. CASE r.data[k] # Absent
    <2>1. LevelEntry(w, 0, k) = r.data[k]
      BY <1>4, <1>7
    <2>2. RangeEntry(w, k) = LevelEntry(w, 0, k)
      BY <1>1, <1>6, <1>7, <2>1, RangeIs
    <2> QED BY <1>7, <2>1, <2>2 DEF w
  <1>8. CASE r.data[k] = Absent
    <2>1. \A l \in Levels : LevelEntry(w, l, k) = LevelEntry(lv, l, k)
      BY <1>4, <1>5, <1>8
    <2>2. RangeEntry(w, k) = RangeEntry(lv, k)
      BY <1>6, <2>1, RangeSame
    <2> QED BY <1>8, <2>2 DEF w
  <1> QED BY <1>7, <1>8

\* Entries move from level src to the next one: what stays in src was over
\* the moved entry r, which goes over what the next level has; in the bottom
\* level tombstones go.
Moved(lv, w, src, k, r) ==
  LET m == IF r # Absent THEN r ELSE LevelEntry(lv, src + 1, k)
  IN  /\ \A l \in Levels \ {src, src + 1} : LevelEntry(w, l, k) = LevelEntry(lv, l, k)
      /\ LevelEntry(lv, src, k) =
           IF LevelEntry(w, src, k) # Absent THEN LevelEntry(w, src, k) ELSE r
      /\ \/ LevelEntry(w, src + 1, k) = m
         \/ src + 1 = MaxLevel /\ LevelEntry(w, src + 1, k) = Shown(m)

LEMMA RangeMoves ==
  ASSUME NEW lv, RankedLevels(lv), NEW w, RankedLevels(w), NEW k,
         NEW src \in Levels, src + 1 \in Levels, NEW r, Moved(lv, w, src, k, r)
  PROVE  Shown(RangeEntry(w, k)) = Shown(RangeEntry(lv, k))
PROOF
  <1> DEFINE e == LevelEntry(w, src, k)
             t == LevelEntry(lv, src + 1, k)
             u == LevelEntry(w, src + 1, k)
             m == IF r # Absent THEN r ELSE t
  <1>m. /\ \A l \in Levels \ {src, src + 1} : LevelEntry(w, l, k) = LevelEntry(lv, l, k)
        /\ LevelEntry(lv, src, k) = IF e # Absent THEN e ELSE r
        /\ \/ u = m
           \/ src + 1 = MaxLevel /\ u = Shown(m)
    BY DEF Moved
  <1>0. /\ src \in Nat
        /\ \A l \in Levels : l \in Nat
        /\ src + 1 = MaxLevel => \A l \in Levels : l <= src + 1
    BY LevelAssumption DEF Levels
  <1>1. Shown(Absent) = Absent /\ Shown(Shown(m)) = Shown(m)
    BY DataAssumption DEF Shown
  <1>2. Shown(u) = Shown(m) /\ (m = Absent => u = Absent)
    BY <1>m, <1>1
  <1>3. CASE \A l \in Levels : LevelEntry(lv, l, k) = Absent
    <2>1. e = Absent /\ r = Absent /\ t = Absent
      BY <1>m, <1>3
    <2>2. u = Absent
      BY <1>m, <1>2, <2>1
    <2>3. \A l \in Levels : LevelEntry(w, l, k) = Absent
      BY <1>m, <1>3, <2>1, <2>2
    <2> QED BY <1>m, <1>3, <2>3, RangeNone
  <1>4. CASE ~ \A l \in Levels : LevelEntry(lv, l, k) = Absent
    <2>1. PICK l \in Levels : /\ LevelEntry(lv, l, k) # Absent
                              /\ \A n \in Levels : n < l => LevelEntry(lv, n, k) = Absent
                              /\ RangeEntry(lv, k) = LevelEntry(lv, l, k)
      BY <1>m, <1>4, RangeCases
    <2>2. CASE l < src
      <3>1. \A n \in Levels : n <= l => LevelEntry(w, n, k) = LevelEntry(lv, n, k)
        BY <1>m, <1>0, <2>2
      <3>2. LevelEntry(w, l, k) = LevelEntry(lv, l, k)
            /\ \A n \in Levels : n < l => LevelEntry(w, n, k) = Absent
        BY <1>m, <1>0, <2>1, <3>1
      <3>3. RangeEntry(w, k) = LevelEntry(w, l, k)
        BY <1>m, <2>1, <3>2, RangeIs
      <3> QED BY <1>m, <2>1, <3>2, <3>3
    <2>3. CASE l = src /\ e # Absent
      <3>1. \A n \in Levels : n < src => LevelEntry(w, n, k) = Absent
        BY <1>m, <1>0, <2>1, <2>3
      <3>2. RangeEntry(w, k) = e
        BY <2>3, <3>1, RangeIs
      <3> QED BY <1>m, <2>1, <2>3, <3>2
    <2>4. ASSUME e = Absent, LevelEntry(lv, l, k) = m,
                 \A n \in Levels : n < src => LevelEntry(lv, n, k) = Absent
          PROVE  Shown(RangeEntry(w, k)) = Shown(RangeEntry(lv, k))
      <3>1. \A n \in Levels : n < src + 1 => LevelEntry(w, n, k) = Absent
        BY <1>m, <1>0, <2>4
      <3>2. CASE u # Absent
        <4>1. RangeEntry(w, k) = u
          BY <1>m, <3>1, <3>2, RangeIs
        <4> QED BY <1>m, <1>2, <2>1, <2>4, <4>1
      <3>3. CASE u = Absent
        <4>1. src + 1 = MaxLevel
          BY <1>m, <2>1, <2>4, <3>3
        <4>2. \A n \in Levels : LevelEntry(w, n, k) = Absent
          <5>1. \A n \in Levels : n < src + 1 \/ n = src + 1
            BY <1>m, <1>0, <4>1
          <5> QED BY <1>m, <3>1, <3>3, <5>1
        <4>3. RangeEntry(w, k) = Absent
          BY <4>2, RangeNone
        <4> QED BY <1>m, <1>1, <1>2, <2>1, <2>4, <3>3, <4>3
      <3> QED BY <1>m, <3>2, <3>3
    <2>5. CASE l = src /\ e = Absent
      <3>1. LevelEntry(lv, l, k) = m
        BY <1>m, <2>1, <2>5
      <3> QED BY <1>m, <2>1, <2>4, <2>5, <3>1
    <2>6. CASE l = src + 1
      <3>1. LevelEntry(lv, src, k) = Absent
        BY <1>m, <1>0, <2>1, <2>6
      <3>2. e = Absent /\ r = Absent
        BY <1>m, <3>1
      <3>3. \A n \in Levels : n < src => LevelEntry(lv, n, k) = Absent
        BY <1>m, <1>0, <2>1, <2>6
      <3> QED BY <2>4, <2>6, <3>2, <3>3
    <2>7. CASE l > src + 1
      <3>1. LevelEntry(lv, src, k) = Absent /\ t = Absent
        BY <1>m, <1>0, <2>1, <2>7
      <3>2. e = Absent /\ r = Absent /\ u = Absent
        BY <1>m, <1>2, <3>1
      <3>3. /\ LevelEntry(w, l, k) = LevelEntry(lv, l, k)
            /\ \A n \in Levels : n < l => LevelEntry(w, n, k) = Absent
        BY <1>m, <1>0, <2>1, <2>7, <3>2
      <3>4. RangeEntry(w, k) = LevelEntry(w, l, k)
        BY <1>m, <2>1, <3>3, RangeIs
      <3> QED BY <1>m, <2>1, <3>3, <3>4
    <2> QED BY <1>0, <2>2, <2>3, <2>5, <2>6, <2>7
  <1> QED BY <1>3, <1>4

---------------------------------------------------------------------------
(* The write-back.                                                         *)

\* A level is its first runs and the rest.
LEMMA SplitLevel ==
  ASSUME NEW s \in Seq(Run), NEW p \in Seq(Run), Len(p) <= Len(s),
         \A i \in DOMAIN p : s[i] = p[i]
  PROVE  /\ RunSet(s) = RunSet(p) \union RunSet(DropFirst(s, Len(p)))
         /\ p = s => RunSet(DropFirst(s, Len(p))) = {}
PROOF
  <1> DEFINE n == Len(p)
             x == DropFirst(s, n)
  <1>0. Len(s) \in Nat /\ DOMAIN s = 1 .. Len(s) /\ n \in Nat /\ DOMAIN p = 1 .. n
    BY LenProperties
  <1>1. /\ x \in Seq(Run)
        /\ RunSet(x) \subseteq RunSet(s)
        /\ \A i \in 1 .. Len(x) : n + i \in 1 .. Len(s) /\ x[i] = s[n + i]
    BY <1>0, DropFirstRuns
  <1>2. Len(x) \in Nat /\ DOMAIN x = 1 .. Len(x) /\ Len(x) = Len(s) - n
    <2>1. \A i \in (n + 1) .. Len(s) : s[i] \in Run
      BY <1>0, ElementOfSeq
    <2>2. Len(x) = IF n + 1 <= Len(s) THEN Len(s) - (n + 1) + 1 ELSE 0
      BY <1>0, <2>1, SubSeqProperties DEF DropFirst
    <2> HIDE DEF x, n
    <2>3. Len(x) = Len(s) - n
      <3>1. n <= Len(s) /\ n \in Nat /\ Len(s) \in Nat
        BY <1>0 DEF n
      <3>2. CASE n = Len(s)
        BY <2>2, <3>1, <3>2
      <3>3. CASE n < Len(s)
        BY <2>2, <3>1, <3>3
      <3> QED BY <3>1, <3>2, <3>3
    <2> QED BY <1>1, <2>3, LenProperties
  <1> HIDE DEF x
  <1>3. ASSUME NEW r \in RunSet(s) PROVE r \in RunSet(p) \/ r \in RunSet(x)
    <2>1. PICK i \in 1 .. Len(s) : r = s[i]
      BY <1>0, <1>3 DEF RunSet
    <2>2. CASE i <= n
      BY <1>0, <2>1, <2>2 DEF RunSet
    <2>3. CASE ~(i <= n)
      <3>1. i - n \in 1 .. Len(x) /\ n + (i - n) = i
        BY <1>0, <1>2, <2>3
      <3>2. x[i - n] = r
        BY <1>1, <2>1, <3>1
      <3> QED BY <1>2, <3>1, <3>2 DEF RunSet
    <2> QED BY <2>2, <2>3
  <1>4. RunSet(p) \subseteq RunSet(s)
    <2>1. \A i \in DOMAIN p : i \in DOMAIN s
      BY <1>0
    <2> QED BY <2>1 DEF RunSet
  <1>5. p = s => RunSet(x) = {}
    BY <1>0, <1>2 DEF RunSet
  <1> QED BY <1>1, <1>3, <1>4, <1>5 DEF x

\* What compact_levels leaves for a key.
LEMMA CompactedEntry ==
  ASSUME NEW lv \in LevelMap, NEW src \in 0 .. MaxLevel - 1, NEW k \in Keys,
         Len(lv[MaxLevel]) <= 1,
         NEW r, r = NewestEntry(RunSet(lv[src]), k),
         NEW m, m = IF r # Absent THEN r ELSE LevelEntry(lv, src + 1, k)
  PROVE  CompactLevels(lv, src)[k] = IF src + 1 = MaxLevel THEN Shown(m) ELSE r
PROOF
  <1>1. MergeRuns(RunSet(lv[src]))[k] = r
    BY DEF MergeRuns
  <1>2. CASE src + 1 = MaxLevel
    <2>1. MaxLevel \in Levels /\ lv[src + 1] \in Seq(Run)
      BY <1>2, SourceAndTarget DEF LevelMap
    <2>2. FirstEntries(lv[src + 1])[k] = LevelEntry(lv, src + 1, k)
      BY <1>2, <2>1, FirstOfShort DEF LevelEntry
    <2> QED BY <1>1, <1>2, <2>2 DEF CompactLevels, Live, Overlay, Shown
  <1>3. CASE src + 1 # MaxLevel
    BY <1>1, <1>3 DEF CompactLevels
  <1> QED BY <1>2, <1>3

\* What the write-back of a current job finds: the runs it merged are the
\* first ones of its source level and older than the rest of it, its target
\* level is as it was, the bottom level holds at most one run, and the output
\* is the merge and newer than the target level.
Writable(lv, j) ==
  LET d == CompactLevels(j.snap, j.src)
  IN  /\ RankedLevels(lv)
      /\ Older(RunSet(j.snap[j.src]), RunSet(DropFirst(lv[j.src], Len(j.snap[j.src]))))
      /\ Len(j.snap[j.src]) <= Len(lv[j.src])
      /\ \A i \in DOMAIN j.snap[j.src] : lv[j.src][i] = j.snap[j.src][i]
      /\ j.snap[j.src + 1] = lv[j.src + 1]
      /\ Len(lv[MaxLevel]) <= 1 /\ Len(j.snap[MaxLevel]) <= 1
      /\ j.out = None => Present(d) = {}
      /\ j.out # None => /\ j.out.data = d
                         /\ \A q \in RunSet(lv[j.src + 1]) : q.num < j.out.num

\* A merge into the bottom level left no entry, and the runs it covers stay.
Forgets(lv, j) == j.out = None /\ j.src + 1 = MaxLevel /\ lv[MaxLevel] # <<>>

\* The write-back of a job that is current changes no entry a reader sees,
\* unless it forgets tombstones and leaves the old bottom run in place.
LEMMA RangeApplied ==
  ASSUME NEW lv \in LevelMap, NEW j \in Job, Writable(lv, j), ~ Forgets(lv, j),
         RankedLevels(Applied(lv, j)), NEW k \in Keys
  PROVE  Shown(RangeEntry(Applied(lv, j), k)) = Shown(RangeEntry(lv, k))
PROOF
  <1> DEFINE src == j.src
             tgt == j.src + 1
             p == j.snap[src]
             rest == DropFirst(lv[src], Len(p))
             cut == [lv EXCEPT ![src] = DropFirst(@, Len(p))]
             w == Applied(lv, j)
             r == NewestEntry(RunSet(p), k)
             t == LevelEntry(lv, tgt, k)
             m == IF r # Absent THEN r ELSE t
             d == CompactLevels(j.snap, src)
  <1>1. /\ src \in Levels /\ tgt \in Levels /\ tgt # src /\ tgt # 0
        /\ src \in 0 .. MaxLevel - 1
        /\ lv[src] \in Seq(Run) /\ lv[tgt] \in Seq(Run) /\ p \in Seq(Run)
        /\ j.snap \in LevelMap /\ j.out \in Run \union {None}
    BY SourceAndTarget DEF Job, LevelMap
  <1>2. /\ RunSet(lv[src]) = RunSet(p) \union RunSet(rest)
        /\ Older(RunSet(p), RunSet(rest))
    BY <1>1, SplitLevel DEF Writable
  <1>3. /\ \A l \in Levels : cut[l] = IF l = src THEN rest ELSE lv[l]
        /\ DOMAIN cut = Levels
    BY <1>1 DEF LevelMap
  <1>4. /\ j.out = None => w = cut
        /\ j.out # None =>
             w = [cut EXCEPT ![tgt] = IF tgt = MaxLevel THEN <<j.out>> ELSE Append(@, j.out)]
    BY DEF Applied
  <1> HIDE DEF cut, w
  <1>5. /\ \A l \in Levels \ {src, tgt} : w[l] = lv[l]
        /\ w[src] = rest
        /\ j.out = None => w[tgt] = lv[tgt]
        /\ j.out # None => w[tgt] = IF tgt = MaxLevel THEN <<j.out>> ELSE Append(lv[tgt], j.out)
    BY <1>1, <1>3, <1>4
  <1> HIDE DEF rest, p, d
  <1>6. LevelEntry(lv, src, k) =
          IF LevelEntry(w, src, k) # Absent THEN LevelEntry(w, src, k) ELSE r
    <2> DEFINE A == RunSet(p)
               B == RunSet(rest)
    <2>1. Ranked(A \union B) /\ Older(A, B)
      BY <1>1, <1>2 DEF RankedLevels, Writable
    <2> HIDE DEF A, B
    <2>2. NewestEntry(A \union B, k) =
            IF NewestEntry(B, k) # Absent THEN NewestEntry(B, k) ELSE NewestEntry(A, k)
      BY <2>1, NewestUnion, SMTT(30)
    <2> QED BY <1>2, <1>5, <2>2 DEF LevelEntry, A, B
  <1>7. d[k] = IF tgt = MaxLevel THEN Shown(m) ELSE r
    <2>1. LevelEntry(j.snap, tgt, k) = t
      BY DEF LevelEntry, Writable
    <2>2. Len(j.snap[MaxLevel]) <= 1
      BY DEF Writable
    <2> QED BY <1>1, <2>1, <2>2, CompactedEntry DEF p, d
  <1>8. \/ LevelEntry(w, tgt, k) = m
        \/ tgt = MaxLevel /\ LevelEntry(w, tgt, k) = Shown(m)
    <2>1. CASE j.out = None
      <3>1. LevelEntry(w, tgt, k) = t
        BY <1>5, <2>1 DEF LevelEntry
      <3>2. d[k] = Absent
        BY <2>1 DEF Present, Writable, d
      <3>3. CASE tgt = MaxLevel
        <4>1. lv[tgt] = <<>>
          BY <2>1, <3>3 DEF Forgets
        <4>2. \A q \in RunSet(lv[tgt]) : q.data[k] = Absent
          BY <4>1 DEF RunSet
        <4>3. t = Absent
          BY <4>2, NewestNone DEF LevelEntry
        <4> QED BY <1>7, <3>1, <3>2, <3>3, <4>3
      <3>4. CASE tgt # MaxLevel
        BY <1>7, <3>1, <3>2, <3>4
      <3> QED BY <3>3, <3>4
    <2>2. CASE j.out # None
      <3>1. j.out \in Run /\ j.out.data = d
        BY <1>1, <2>2 DEF Writable, d
      <3>2. NewestEntry({j.out}, k) = d[k]
        BY <3>1, NewestOfOne
      <3>3. CASE tgt = MaxLevel
        <4>1. RunSet(w[tgt]) = {j.out}
          BY <1>5, <2>2, <3>3 DEF RunSet
        <4> QED BY <1>7, <3>2, <3>3, <4>1 DEF LevelEntry
      <3>4. CASE tgt # MaxLevel
        <4> DEFINE A == RunSet(lv[tgt])
                   B == {j.out}
        <4>0. w[tgt] = Append(lv[tgt], j.out) /\ lv[tgt] \in Seq(Run)
          BY <1>1, <1>5, <2>2, <3>4 DEF Writable, LevelMap
        <4>1. RunSet(w[tgt]) = A \union B /\ NewestEntry(B, k) = r
          BY <1>7, <3>1, <3>2, <3>4, <4>0, AppendRuns
        <4>2. Ranked(A \union B) /\ Older(A, B)
          <5>1. Ranked(RunSet(w[tgt])) /\ \A q \in A : q.num < j.out.num
            BY <1>1, <2>2 DEF RankedLevels, Writable, w
          <5> QED BY <4>1, <5>1 DEF Older
        <4> HIDE DEF A, B
        <4>3. NewestEntry(A \union B, k) =
                IF NewestEntry(B, k) # Absent THEN NewestEntry(B, k) ELSE NewestEntry(A, k)
          BY <4>1, <4>2, NewestUnion, SMTT(30)
        <4> QED BY <4>1, <4>3 DEF LevelEntry, A
      <3> QED BY <3>3, <3>4
    <2> QED BY <2>1, <2>2
  <1>9. \A l \in Levels \ {src, tgt} : LevelEntry(w, l, k) = LevelEntry(lv, l, k)
    BY <1>5 DEF LevelEntry
  <1>10. RankedLevels(lv) /\ RankedLevels(w)
    BY DEF w, Writable
  <1>11. Moved(lv, w, src, k, r)
    BY <1>6, <1>8, <1>9 DEF Moved
  <1> HIDE DEF r, m, t
  <1>12. src \in Levels /\ src + 1 \in Levels
    BY <1>1
  <1>13. Shown(RangeEntry(w, k)) = Shown(RangeEntry(lv, k))
    BY <1>10, <1>11, <1>12, RangeMoves
  <1> QED BY <1>13 DEF w

---------------------------------------------------------------------------
(* The inductive invariant: the bottom level, here and in the caller's     *)
(* snapshots, never holds two runs; the output that waits for its          *)
(* write-back is the merge of what the job cloned; and between two         *)
(* sessions there is nothing.                                              *)

BottomShort(lv) == Len(lv[MaxLevel]) <= 1

OutputIsMerge ==
  InStage("bg", "write") =>
    LET d == CompactLevels(job["bg"].snap, job["bg"].src)
    IN  /\ job["bg"].out = None => Present(d) = {}
        /\ job["bg"].out # None => job["bg"].out.data = d

ClosedEmpty ==
  pc["user"] = "closed" =>
    /\ pc["bg"] = "exit"
    /\ memtable = EmptyData
    /\ levels = NoRuns
    /\ snapshots = [s \in SnapIds |-> None]

ContentInv ==
  /\ BottomShort(levels)
  /\ \A s \in SnapIds : snapshots[s] # None => BottomShort(snapshots[s].levels)
  /\ OutputIsMerge
  /\ ClosedEmpty

LEMMA AppliedBottom ==
  ASSUME NEW lv \in LevelMap, NEW j \in Job, BottomShort(lv)
  PROVE  BottomShort(Applied(lv, j))
PROOF
  <1> DEFINE src == j.src
             cut == [lv EXCEPT ![src] = DropFirst(@, Len(j.snap[src]))]
  <1>1. src \in Levels /\ src # MaxLevel /\ src + 1 \in Levels /\ MaxLevel \in Levels
    BY LevelAssumption, SourceAndTarget DEF Job, Levels
  <1>2. cut[MaxLevel] = lv[MaxLevel] /\ DOMAIN cut = Levels
    BY <1>1 DEF LevelMap
  <1>3. /\ j.out = None => Applied(lv, j) = cut
        /\ j.out # None => Applied(lv, j) =
             [cut EXCEPT ![src + 1] = IF src + 1 = MaxLevel THEN <<j.out>> ELSE Append(@, j.out)]
    BY DEF Applied
  <1> HIDE DEF cut
  <1>4. Applied(lv, j)[MaxLevel] \in {lv[MaxLevel], <<j.out>>}
    BY <1>1, <1>2, <1>3
  <1>5. CASE Applied(lv, j)[MaxLevel] = lv[MaxLevel]
    BY <1>5 DEF BottomShort
  <1>6. CASE Applied(lv, j)[MaxLevel] = <<j.out>>
    <2>1. Len(Applied(lv, j)[MaxLevel]) = 1
      BY <1>6
    <2> QED BY <2>1 DEF BottomShort
  <1> QED BY <1>4, <1>5, <1>6

LEMMA ShortNoRuns == BottomShort(NoRuns)
PROOF
  <1>1. NoRuns[MaxLevel] = <<>>
    BY LevelAssumption DEF NoRuns, Levels
  <1> QED BY <1>1 DEF BottomShort

LEMMA ContentInit == Init => ContentInv
PROOF
  <1> SUFFICES ASSUME Init PROVE ContentInv
    OBVIOUS
  <1>1. pc["user"] = "idle" /\ pc["bg"] = "wait"
    BY DEF Init, ThreadsAt, Threads
  <1> QED BY <1>1, ShortNoRuns DEF Init, ContentInv, OutputIsMerge, ClosedEmpty, InStage

\* Steps of the caller's thread that leave the levels and the job alone.
LEMMA ContentFrame ==
  ASSUME ContentInv, UNCHANGED <<levels, snapshots, job>>, pc'["bg"] = pc["bg"],
         pc'["user"] # "closed"
  PROVE  ContentInv'
PROOF BY DEF ContentInv, OutputIsMerge, ClosedEmpty, BottomShort, InStage

LEMMA ContentNext ==
  ASSUME SoloCompactor, TypeInv, TypeInv', JobInv, ContentInv, [Next]_vars
  PROVE  ContentInv'
PROOF
  <1>0. /\ 0 \in Levels /\ MaxLevel \in Levels /\ MaxLevel # 0
        /\ levels \in LevelMap
        /\ pc \in [Threads -> UserPc \union BgPc]
        /\ "user" \in Threads /\ "bg" \in Threads
        /\ job \in [Threads -> Job] /\ job["bg"] \in Job
        /\ flush_ret \in {"idle", "link"}
    BY LevelAssumption DEF Levels, TypeInv, TypeOK, Threads
  <1>1. ASSUME NEW m, WriteMemtable(m) \/ SaveSnapshot PROVE ContentInv'
    <2>1. /\ UNCHANGED <<levels, snapshots, job>> /\ pc'["bg"] = pc["bg"]
          /\ pc'["user"] # "closed"
      BY <1>0, <1>1 DEF WriteMemtable, SaveSnapshot, StartFlush, UserGoto, Idle
    <2> QED BY <2>1, ContentFrame
  <1>2. CASE Flush
    <2>1. CASE FlushPush
      <3>1. levels'[MaxLevel] = levels[MaxLevel]
        BY <1>0, <2>1 DEF FlushPush, LevelMap
      <3>2. /\ UNCHANGED <<snapshots, job>>
            /\ pc'["user"] = "credit" /\ pc'["bg"] = pc["bg"]
        BY <1>0, <2>1 DEF FlushPush, UserGoto
      <3> QED BY <3>1, <3>2 DEF ContentInv, OutputIsMerge, ClosedEmpty, BottomShort, InStage
    <2>2. CASE FlushFail \/ FlushCredit \/ FlushSignal \/ FlushPoll \/ FlushResume
      <3>1. UNCHANGED <<levels, snapshots, job>> /\ pc'["bg"] = pc["bg"]
        BY <1>0, <2>2 DEF FlushFail, FlushCredit, FlushSignal, FlushPoll, FlushResume,
                          UserGoto, vars
      <3>2. pc'["user"] # "closed"
        BY <1>0, <2>2 DEF FlushFail, FlushCredit, FlushSignal, FlushPoll, FlushResume,
                          UserGoto, vars
      <3> QED BY <3>1, <3>2, ContentFrame
    <2> QED BY <1>2, <2>1, <2>2 DEF Flush
  <1>3. CASE RunCompaction("bg")
    <2>1. UNCHANGED <<snapshots, memtable>> /\ pc'["user"] = pc["user"] /\ pc["bg"] = "compacting"
      BY <1>0, <1>3 DEF RunCompaction, LoadGeneration, CloneAndSelect, Merge, MergeFail,
                        FailedMerge, WriteBack, Return, InStage
    <2>2. ClosedEmpty'
      BY <2>1 DEF ContentInv, ClosedEmpty
    <2>3. BottomShort(levels')
      <3>1. CASE WriteBack("bg")
        BY <1>0, <3>1, AppliedBottom DEF WriteBack, ContentInv
      <3>2. CASE ~ WriteBack("bg")
        BY <1>3, <3>2 DEF RunCompaction, LoadGeneration, CloneAndSelect, Merge, MergeFail,
                          FailedMerge, ContentInv
      <3> QED BY <3>1, <3>2
    <2>4. OutputIsMerge'
      <3>1. CASE Merge("bg")
        <4>1. /\ job'["bg"].snap = job["bg"].snap /\ job'["bg"].src = job["bg"].src
              /\ job'["bg"].out = MergedRun(job["bg"])
          BY <1>0, <3>1 DEF Merge, Job
        <4> QED BY <1>0, <4>1, MergedRunType DEF OutputIsMerge
      <3>2. CASE ~ Merge("bg")
        <4>1. ~ InStage("bg", "write")'
          BY <1>0, <1>3, <3>2 DEF RunCompaction, LoadGeneration, CloneAndSelect, MergeFail,
             FailedMerge, WriteBack, Return, InStage, NoJob, Job
        <4> QED BY <4>1 DEF OutputIsMerge
      <3> QED BY <3>1, <3>2
    <2> QED BY <2>1, <2>2, <2>3, <2>4 DEF ContentInv
  <1>4. CASE BgWake \/ BgCredit \/ BgExit
    <2>1. UNCHANGED <<levels, snapshots, memtable>> /\ pc'["user"] = pc["user"]
      BY <1>0, <1>4 DEF BgWake, BgCredit, BgExit
    <2>2. ~ InStage("bg", "write")'
      BY <1>0, <1>4 DEF BgWake, BgCredit, BgExit, InStage, NewJob
    <2>3. pc["bg"] # "exit"
      BY <1>4 DEF BgWake, BgCredit, BgExit
    <2> QED BY <2>1, <2>2, <2>3 DEF ContentInv, OutputIsMerge, ClosedEmpty
  <1>5. CASE ManualCompaction
    <2>1. ~ RunCompaction("user")
      BY DEF JobInv, RunCompaction, LoadGeneration, CloneAndSelect, Merge, MergeFail,
             WriteBack, InStage
    <2>2. ~ Compact /\ ~ CompactAll
      BY DEF SoloCompactor, Compact, CompactAll
    <2>3. ~ MergeAll /\ ~ MergeAllFail /\ ~ WriteAll
      BY DEF JobInv, MergeAll, MergeAllFail, WriteAll
    <2> QED BY <1>5, <2>1, <2>2, <2>3 DEF ManualCompaction
  <1>6. ASSUME NEW s \in SnapIds, Snapshot(s) PROVE ContentInv'
    <2>1. UNCHANGED <<levels, job, pc, memtable>> /\ pc["user"] = "idle"
      BY <1>6 DEF Snapshot, Idle
    <2>2. \A x \in SnapIds : snapshots'[x] # None => BottomShort(snapshots'[x].levels)
      BY <1>6 DEF Snapshot, ContentInv, TypeInv, TypeOK
    <2> QED BY <2>1, <2>2 DEF ContentInv, OutputIsMerge, ClosedEmpty, InStage
  <1>7. ASSUME NEW s \in SnapIds, Rollback(s) PROVE ContentInv'
    <2>1. UNCHANGED <<snapshots, job, pc>> /\ pc["user"] = "idle" /\ BottomShort(levels')
      BY <1>7 DEF Rollback, Idle, ContentInv
    <2> QED BY <2>1 DEF ContentInv, OutputIsMerge, ClosedEmpty, InStage
  <1>8. CASE Link \/ Drop
    <2>1. /\ UNCHANGED <<levels, snapshots, job>> /\ pc'["bg"] = pc["bg"]
          /\ pc'["user"] # "closed"
      BY <1>0, <1>8 DEF Link, Drop, UserGoto
    <2> QED BY <2>1, ContentFrame
  <1>9. CASE Joined
    <2>1. /\ pc'["user"] = "closed" /\ pc'["bg"] = "exit"
          /\ levels' = NoRuns /\ memtable' = EmptyData
          /\ snapshots' = [s \in SnapIds |-> None]
      BY <1>9 DEF Joined, NoSession, Session, ThreadsAt, Threads
    <2> QED BY <2>1, ShortNoRuns DEF ContentInv, OutputIsMerge, ClosedEmpty, InStage
  <1>90. CASE Open
    <2>1. /\ pc' = ThreadsAt("idle", "wait") /\ levels'[MaxLevel] = <<>>
          /\ snapshots' = [s \in SnapIds |-> None]
      BY <1>0, <1>90, Opened DEF Open
    <2>2. pc'["user"] = "idle" /\ pc'["bg"] = "wait" /\ BottomShort(levels')
      BY <2>1 DEF ThreadsAt, Threads, BottomShort
    <2> QED BY <2>1, <2>2 DEF ContentInv, OutputIsMerge, ClosedEmpty, InStage
  <1>10. CASE UNCHANGED vars
    BY <1>10 DEF vars, ContentInv, OutputIsMerge, ClosedEmpty, InStage, BottomShort
  <1>11. CASE User
    BY <1>1, <1>2, <1>5, <1>6, <1>7, <1>8, <1>9, <1>11
    DEF User, Insert, Delete, InsertBatch, DeleteBatch
  <1> QED BY <1>1, <1>3, <1>4, <1>8, <1>90, <1>10, <1>11 DEF Next, Background

---------------------------------------------------------------------------
(* The second inductive invariant: what is written is newer than what it   *)
(* goes over.  The run in flight is newer than all of L0; what was flushed *)
(* after a current job cloned the levels is newer than what it cloned; and *)
(* its output is newer than all of its target level.  Unlike AscInv it     *)
(* asks nothing of the order inside a level.                               *)

LateRuns(lv, j) == RunSet(DropFirst(lv[0], Len(j.snap[0])))

JobOrdered(lv, j) == Older(RunSet(j.snap[0]), LateRuns(lv, j))

OrderInv ==
  /\ pc["user"] = "push" => \A r \in RunSet(levels[0]) : r.num < flight.num
  /\ /\ pc["bg"] = "compacting" /\ job["bg"].stage \in {"merge", "write"}
     /\ generation = job["bg"].gen
     => JobOrdered(levels, job["bg"])
  /\ /\ InStage("bg", "write")
     /\ generation = job["bg"].gen
     /\ job["bg"].out # None
     => \A r \in RunSet(levels[job["bg"].src + 1]) : r.num < job["bg"].out.num

\* A push adds its run to the late ones.
LEMMA LatePush ==
  ASSUME NEW s \in Seq(Run), NEW r \in Run, NEW n \in Nat, n <= Len(s)
  PROVE  RunSet(DropFirst(Append(s, r), n)) \subseteq RunSet(DropFirst(s, n)) \union {r}
PROOF
  <1> DEFINE a == Append(s, r)
             x == DropFirst(a, n)
             y == DropFirst(s, n)
  <1>1. /\ a \in Seq(Run) /\ Len(a) = Len(s) + 1
        /\ \A i \in 1 .. Len(s) : a[i] = s[i]
        /\ a[Len(s) + 1] = r
    BY AppendProperties
  <1>2. Len(s) \in Nat /\ \A i \in 1 .. Len(s) : s[i] \in Run
    BY LenProperties, ElementOfSeq
  <1> HIDE DEF a
  <1>3. /\ x \in Seq(Run)
        /\ \A i \in 1 .. Len(x) : n + i \in 1 .. Len(a) /\ x[i] = a[n + i]
    BY <1>1, DropFirstRuns
  <1>4. /\ y \in Seq(Run)
        /\ Len(y) = IF n + 1 <= Len(s) THEN Len(s) - (n + 1) + 1 ELSE 0
        /\ \A i \in 1 .. Len(y) : y[i] = s[n + i]
    <2>1. \A i \in (n + 1) .. Len(s) : s[i] \in Run
      BY <1>2
    <2>2. Len(y) = IF n + 1 <= Len(s) THEN Len(s) - (n + 1) + 1 ELSE 0
      BY <1>2, <2>1, SubSeqProperties DEF DropFirst
    <2> QED BY <2>2, DropFirstRuns
  <1>5. /\ DOMAIN x = 1 .. Len(x) /\ Len(x) \in Nat
        /\ DOMAIN y = 1 .. Len(y) /\ Len(y) \in Nat
    BY <1>3, <1>4, LenProperties
  <1> HIDE DEF x, y
  <1>6. Len(y) = Len(s) - n
    BY <1>2, <1>4
  <1>7. ASSUME NEW i \in 1 .. Len(x) PROVE x[i] \in RunSet(y) \union {r}
    <2>1. n + i \in 1 .. Len(s) + 1 /\ x[i] = a[n + i]
      BY <1>1, <1>3
    <2>2. CASE n + i = Len(s) + 1
      BY <1>1, <2>1, <2>2
    <2>3. CASE n + i # Len(s) + 1
      <3>1. n + i \in 1 .. Len(s) /\ i \in 1 .. Len(y)
        BY <1>2, <1>5, <1>6, <2>1, <2>3
      <3>2. x[i] = y[i]
        BY <1>1, <1>4, <2>1, <3>1
      <3> QED BY <1>5, <3>1, <3>2 DEF RunSet
    <2> QED BY <2>2, <2>3
  <1>8. RunSet(x) \subseteq RunSet(y) \union {r}
    BY <1>5, <1>7 DEF RunSet
  <1> QED BY <1>8 DEF x, y, a

\* Right after the clone nothing is late.
LEMMA LateNone ==
  ASSUME NEW s \in Seq(Run)
  PROVE  RunSet(DropFirst(s, Len(s))) = {}
PROOF
  <1>1. Len(s) \in Nat /\ Len(s) <= Len(s)
    BY LenProperties
  <1> QED BY <1>1, SplitLevel

\* A write-back brings no run into L0.
LEMMA AppliedTop ==
  ASSUME NEW lv \in LevelMap, NEW j \in Job
  PROVE  RunSet(Applied(lv, j)[0]) \subseteq RunSet(lv[0])
PROOF
  <1> DEFINE src == j.src
             tgt == j.src + 1
             n == Len(j.snap[src])
             cut == [lv EXCEPT ![src] = DropFirst(@, n)]
  <1>1. src \in Levels /\ tgt \in Levels /\ tgt # 0 /\ 0 \in Levels
    BY SourceAndTarget DEF Job
  <1>2. lv[src] \in Seq(Run) /\ n \in Nat
    BY <1>1, LenProperties DEF LevelMap, Job
  <1>3. cut[0] = (IF src = 0 THEN DropFirst(lv[0], n) ELSE lv[0]) /\ DOMAIN cut = Levels
    BY <1>1 DEF LevelMap
  <1>4. Applied(lv, j)[0] = cut[0]
    <2>1. Applied(lv, j) = IF j.out = None THEN cut
            ELSE [cut EXCEPT ![tgt] = IF tgt = MaxLevel THEN <<j.out>> ELSE Append(@, j.out)]
      BY DEF Applied
    <2> HIDE DEF cut
    <2> QED BY <1>1, <1>3, <2>1
  <1>5. src = 0 => RunSet(DropFirst(lv[0], n)) \subseteq RunSet(lv[0])
    BY <1>1, <1>2, DropFirstRuns
  <1> HIDE DEF cut, n
  <1> QED BY <1>3, <1>4, <1>5

LEMMA NoManualCompaction ==
  ASSUME SoloCompactor, JobInv
  PROVE  ~ ManualCompaction
PROOF
  <1>1. ~ RunCompaction("user")
    BY DEF JobInv, RunCompaction, LoadGeneration, CloneAndSelect, Merge, MergeFail,
           WriteBack, InStage
  <1>2. ~ Compact /\ ~ CompactAll
    BY DEF SoloCompactor, Compact, CompactAll
  <1>3. ~ MergeAll /\ ~ MergeAllFail /\ ~ WriteAll
    BY DEF JobInv, MergeAll, MergeAllFail, WriteAll
  <1> QED BY <1>1, <1>2, <1>3 DEF ManualCompaction

LEMMA OrderInit == Init => OrderInv
PROOF BY DEF Init, OrderInv, InStage, ThreadsAt, Threads

\* Steps that leave the levels, the job and the generation alone.
LEMMA OrderFrame ==
  ASSUME TypeInv, OrderInv, UNCHANGED <<levels, generation, job>>, pc'["bg"] = pc["bg"],
         pc'["user"] = "push" => \/ flight'.num = next_run_number
                                 \/ pc["user"] = "push" /\ flight' = flight
  PROVE  OrderInv'
PROOF
  <1>1. \A r \in RunSet(levels[0]) : r.num < next_run_number
    <2>1. 0 \in Levels /\ levels \in LevelMap
      BY LevelAssumption DEF Levels, TypeInv, TypeOK
    <2> QED BY <2>1, LevelRuns DEF TypeInv, NumsBelow, RunsBelow, LevelMap
  <1>2. JobOrdered(levels, job["bg"]) => JobOrdered(levels', job'["bg"])
    BY DEF JobOrdered, LateRuns
  <1>3. InStage("bg", "write")' = InStage("bg", "write")
    BY DEF InStage
  <1> QED BY <1>1, <1>2, <1>3 DEF OrderInv

LEMMA OrderNext ==
  ASSUME SoloCompactor, TypeInv, TypeInv', JobInv, OrderInv, [Next]_vars
  PROVE  OrderInv'
PROOF
  <1>0. /\ 0 \in Levels
        /\ levels[0] \in Seq(Run)
        /\ levels \in LevelMap
        /\ pc \in [Threads -> UserPc \union BgPc]
        /\ "user" \in Threads /\ "bg" \in Threads
        /\ job["bg"] \in Job
        /\ next_run_number \in Nat
    <2>1. 0 \in Levels
      BY LevelAssumption DEF Levels
    <2>2. "user" \in Threads /\ "bg" \in Threads
      BY DEF Threads
    <2> QED BY <2>1, <2>2 DEF TypeInv, TypeOK, LevelMap
  <1>1. \A l \in Levels : \A r \in RunSet(levels[l]) : r.num < next_run_number
    BY <1>0, LevelRuns DEF TypeInv, NumsBelow, RunsBelow, LevelMap
  <1>3. ASSUME NEW m, WriteMemtable(m) PROVE OrderInv'
    <2>1. UNCHANGED <<levels, generation, job>> /\ pc'["bg"] = pc["bg"]
      BY <1>0, <1>3 DEF WriteMemtable, StartFlush, UserGoto
    <2>2. pc'["user"] = "push" => flight'.num = next_run_number
      BY <1>0, <1>3 DEF WriteMemtable, StartFlush, UserGoto, Idle
    <2> QED BY <2>1, <2>2, OrderFrame
  <1>4. CASE Flush
    <2>1. CASE FlushPush
      <3>1. flight \in Run
        BY <2>1 DEF FlushPush, TypeInv, FlightHeld
      <3>2. levels'[0] = Append(levels[0], flight) /\ \A l \in Levels \ {0} : levels'[l] = levels[l]
        BY <1>0, <2>1 DEF FlushPush, TypeInv, TypeOK, LevelMap
      <3>3. \A r \in RunSet(levels[0]) : r.num < flight.num
        BY <2>1 DEF OrderInv, FlushPush
      <3>5. /\ UNCHANGED <<generation, job>>
            /\ pc'["user"] = "credit" /\ pc'["bg"] = pc["bg"]
        BY <1>0, <2>1 DEF FlushPush, UserGoto
      <3>6. job["bg"].src + 1 \in Levels \ {0}
        BY <1>0, SourceAndTarget DEF Job
      <3>7. ASSUME pc["bg"] = "compacting", job["bg"].stage \in {"merge", "write"},
                   generation = job["bg"].gen
            PROVE  JobOrdered(levels', job["bg"])
        <4> DEFINE p == job["bg"].snap[0]
        <4>1. /\ p \in Seq(Run) /\ Len(p) \in Nat /\ DOMAIN p = 1 .. Len(p)
              /\ levels[0] \in Seq(Run)
          BY <1>0, LenProperties DEF Job, LevelMap
        <4>2. Len(p) <= Len(levels[0]) /\ \A i \in DOMAIN p : levels[0][i] = p[i]
          BY <1>0, <3>7 DEF JobInv, CompactionJobCurrent
        <4>3. Older(RunSet(p), RunSet(DropFirst(levels[0], Len(p))))
          BY <3>7 DEF OrderInv, JobOrdered, LateRuns
        <4> HIDE DEF p
        <4>4. RunSet(p) \subseteq RunSet(levels[0])
          BY <4>1, <4>2, SplitLevel
        <4>5. RunSet(DropFirst(levels'[0], Len(p)))
                \subseteq RunSet(DropFirst(levels[0], Len(p))) \union {flight}
          BY <1>0, <3>1, <3>2, <4>1, <4>2, LatePush
        <4>6. Older(RunSet(p), RunSet(DropFirst(levels'[0], Len(p))))
          BY <3>3, <4>3, <4>4, <4>5 DEF Older
        <4> QED BY <4>6 DEF JobOrdered, LateRuns, p
      <3> QED BY <3>2, <3>5, <3>6, <3>7 DEF OrderInv, InStage
    <2>2. CASE FlushFail \/ FlushCredit \/ FlushSignal \/ FlushPoll \/ FlushResume
      <3>1. UNCHANGED <<levels, generation, job>> /\ pc'["bg"] = pc["bg"]
        BY <1>0, <2>2 DEF FlushFail, FlushCredit, FlushSignal, FlushPoll, FlushResume,
                          UserGoto, vars
      <3>2. pc'["user"] # "push"
        BY <1>0, <2>2 DEF FlushFail, FlushCredit, FlushSignal, FlushPoll, FlushResume,
                          UserGoto, vars, TypeInv, TypeOK
      <3> QED BY <3>1, <3>2, OrderFrame
    <2> QED BY <1>4, <2>1, <2>2 DEF Flush
  <1>5. CASE RunCompaction("bg")
    <2>1. UNCHANGED <<generation, flight>> /\ pc'["user"] = pc["user"]
      BY <1>0, <1>5 DEF RunCompaction, LoadGeneration, CloneAndSelect, Merge, MergeFail,
                        FailedMerge, WriteBack, Return
    <2>2. CASE WriteBack("bg")
      <3>1. pc'["bg"] = "credit"
        BY <1>0, <2>2 DEF WriteBack, Return
      <3>2. RunSet(levels'[0]) \subseteq RunSet(levels[0])
        <4>1. CASE levels' = levels
          BY <4>1
        <4>2. CASE levels' = Applied(levels, job["bg"])
          BY <1>0, <4>2, AppliedTop
        <4> QED BY <2>2, <4>1, <4>2 DEF WriteBack
      <3> QED BY <2>1, <3>1, <3>2 DEF OrderInv, InStage
    <2>3. CASE Merge("bg")
      <3>1. /\ UNCHANGED <<levels, pc>>
            /\ job'["bg"].src = job["bg"].src /\ job'["bg"].snap = job["bg"].snap
            /\ job'["bg"].gen = job["bg"].gen
            /\ pc["bg"] = "compacting" /\ job["bg"].stage = "merge"
        BY <1>0, <2>3 DEF Merge, InStage, TypeInv, TypeOK, Job
      <3>2. job'["bg"].out # None => job'["bg"].out.num = next_run_number
        BY <1>0, <2>3, MergedRunType DEF Merge, TypeInv, TypeOK, Job
      <3>3. job["bg"].src + 1 \in Levels
        BY <1>0, SourceAndTarget DEF Job
      <3>4. JobOrdered(levels', job'["bg"]) = JobOrdered(levels, job["bg"])
        BY <3>1 DEF JobOrdered, LateRuns
      <3> QED BY <1>1, <2>1, <3>1, <3>2, <3>3, <3>4 DEF OrderInv
    <2>4. CASE CloneAndSelect("bg")
      <3>1. levels' = levels
        BY <2>4 DEF CloneAndSelect
      <3>2. ~ InStage("bg", "write")'
        BY <1>0, <2>4 DEF CloneAndSelect, Return, InStage, NoJob, TypeInv, TypeOK, Job
      <3>3. /\ pc'["bg"] = "compacting" /\ job'["bg"].stage \in {"merge", "write"}
            => job'["bg"].snap = levels
        BY <1>0, <2>4 DEF CloneAndSelect, Return, InStage, NoJob, TypeInv, TypeOK, Job
      <3>4. /\ pc'["bg"] = "compacting" /\ job'["bg"].stage \in {"merge", "write"}
            => JobOrdered(levels', job'["bg"])
        BY <1>0, <3>1, <3>3, LateNone DEF JobOrdered, LateRuns, Older
      <3> QED BY <2>1, <3>1, <3>2, <3>4 DEF OrderInv
    <2>5. CASE LoadGeneration("bg") \/ MergeFail("bg")
      <3>1. levels' = levels
        BY <2>5 DEF LoadGeneration, MergeFail, FailedMerge
      <3>2. ~ (pc'["bg"] = "compacting" /\ job'["bg"].stage \in {"merge", "write"})
        BY <1>0, <2>5 DEF LoadGeneration, MergeFail, FailedMerge, Return, InStage, NoJob,
                          TypeInv, TypeOK, Job
      <3> QED BY <2>1, <3>1, <3>2 DEF OrderInv, InStage
    <2> QED BY <1>5, <2>2, <2>3, <2>4, <2>5 DEF RunCompaction
  <1>6. CASE BgWake \/ BgCredit \/ BgExit
    <2>1. UNCHANGED <<levels, generation, flight>> /\ pc'["user"] = pc["user"]
      BY <1>0, <1>6 DEF BgWake, BgCredit, BgExit
    <2>2. ~ (pc'["bg"] = "compacting" /\ job'["bg"].stage \in {"merge", "write"})
      BY <1>0, <1>6 DEF BgWake, BgCredit, BgExit, NewJob, TypeInv, TypeOK
    <2> QED BY <2>1, <2>2 DEF OrderInv, InStage
  <1>7. ~ ManualCompaction
    BY NoManualCompaction
  <1>8. ASSUME NEW s \in SnapIds, Snapshot(s) PROVE OrderInv'
    BY <1>8, OrderFrame DEF Snapshot
  <1>9. ASSUME NEW s \in SnapIds, Rollback(s) PROVE OrderInv'
    <2>1. /\ UNCHANGED <<job, pc>> /\ pc["user"] = "idle"
          /\ generation' = generation + 1
      BY <1>9 DEF Rollback, Idle
    <2>2. generation' # job'["bg"].gen
      BY <1>0, <2>1 DEF JobInv, TypeInv, TypeOK, Job
    <2> QED BY <2>1, <2>2 DEF OrderInv
  <1>10. CASE SaveSnapshot \/ Link \/ Drop
    <2>1. UNCHANGED <<levels, generation, job>> /\ pc'["bg"] = pc["bg"]
      BY <1>0, <1>10 DEF SaveSnapshot, StartFlush, Link, Drop, UserGoto
    <2>2. pc'["user"] = "push" => flight'.num = next_run_number
      BY <1>0, <1>10 DEF SaveSnapshot, StartFlush, Link, Drop, UserGoto
    <2> QED BY <2>1, <2>2, OrderFrame
  <1>11. CASE Joined \/ Open
    <2>1. pc'["user"] \in {"idle", "closed"} /\ pc'["bg"] \in {"wait", "exit"}
      BY <1>0, <1>11 DEF Joined, Open, OpenAs, NoSession, StartSession, Session, ThreadsAt
    <2> QED BY <2>1 DEF OrderInv, InStage
  <1>12. CASE UNCHANGED vars
    BY <1>12, OrderFrame DEF vars
  <1>13. CASE User
    BY <1>3, <1>4, <1>7, <1>8, <1>9, <1>10, <1>11, <1>13
    DEF User, Insert, Delete, InsertBatch, DeleteBatch
  <1>14. CASE Background
    BY <1>5, <1>6, <1>14 DEF Background
  <1> QED BY <1>10, <1>11, <1>12, <1>13, <1>14 DEF Next

---------------------------------------------------------------------------
(* The steps, seen through range.                                          *)

\* The entries that are not in the levels yet.
Buffered == Overlay(memtable, InFlight)

LEMMA RankedHeld ==
  ASSUME TypeInv, RunNumbersUnique
  PROVE  /\ RankedLevels(levels)
         /\ \A s \in SnapIds : snapshots[s] # None => RankedLevels(snapshots[s].levels)
PROOF
  <1>1. ASSUME NEW lv \in LevelMap, AllRuns(lv) \subseteq HeldRuns PROVE RankedLevels(lv)
    <2> SUFFICES ASSUME NEW l \in Levels PROVE Ranked(RunSet(lv[l]))
      BY DEF RankedLevels
    <2>1. RunSet(lv[l]) \subseteq HeldRuns
      BY <1>1, LevelRuns DEF LevelMap
    <2>2. next_run_number \in Nat /\ \A r \in HeldRuns : r \in Run /\ r.num < next_run_number
      BY HeldBelow DEF RunsBelow, TypeInv, TypeOK
    <2> QED BY <2>1, <2>2 DEF Ranked, RunNumbersUnique
  <1>2. levels \in LevelMap /\ \A s \in SnapIds : snapshots[s] # None => snapshots[s].levels \in LevelMap
    BY DEF TypeInv, TypeOK, TreeSnapshot
  <1> QED BY <1>1, <1>2, HeldParts

\* What a reader finds is a value or nothing.
LEMMA RangeEntryType ==
  ASSUME NEW lv \in LevelMap, RankedLevels(lv), NEW k \in Keys
  PROVE  RangeEntry(lv, k) \in Values \union {Tombstone, Absent}
PROOF
  <1>1. CASE RangeEntry(lv, k) = Absent
    BY <1>1
  <1>2. CASE RangeEntry(lv, k) # Absent
    <2>1. PICK l \in Levels : RangeEntry(lv, k) = LevelEntry(lv, l, k)
      BY <1>2, RangeCases
    <2>2. Ranked(RunSet(lv[l]))
      BY DEF RankedLevels
    <2>3. PICK n \in Nat : \A r \in RunSet(lv[l]) : r.num < n
      BY <2>2 DEF Ranked
    <2>4. RunSet(lv[l]) \subseteq Run
      BY <2>2 DEF Ranked
    <2> QED BY <2>1, <2>3, <2>4, NewestEntryType DEF LevelEntry
  <1> QED BY <1>1, <1>2

LEMMA ContentsType ==
  ASSUME NEW m \in Data, NEW lv \in LevelMap, RankedLevels(lv)
  PROVE  Contents(m, lv) \in Data /\ Contents(m, lv) # None
PROOF
  <1>1. RangeData(lv) \in Data
    BY RangeEntryType DEF RangeData, Data
  <1>2. Contents(m, lv) \in Data
    BY <1>1, EntryMapTypes DEF Contents
  <1> QED BY <1>2, TreeAssumption

LEMMA NothingInFlight ==
  ASSUME TypeInv, pc["user"] # "push"
  PROVE  Buffered = memtable
PROOF BY DEF Buffered, InFlight, Overlay, EmptyData, TypeInv, TypeOK, Data

\* A step after which the caller reads what it read before.
LEMMA ViewSame ==
  ASSUME UNCHANGED <<levels, snapshots>>, Buffered' = Buffered,
         pc["user"] # "closed", pc'["user"] # "closed"
  PROVE  UNCHANGED KV!vars
PROOF BY DEF KV!vars, View, SnapshotViews, Contents, RangeData, RangeEntry, Buffered

\* A write leaves its entries in the memtable or in flight.
LEMMA WriteShows ==
  ASSUME TypeInv, NEW m \in Data,
         \/ WriteMemtable(m)
         \/ SaveSnapshot /\ m = memtable
  PROVE  /\ Buffered' = m
         /\ pc["user"] = "idle" /\ pc'["user"] # "closed"
         /\ UNCHANGED <<levels, snapshots>>
PROOF
  <1>0. pc["user"] = "idle" /\ UNCHANGED <<levels, snapshots>> /\ pc \in [Threads -> UserPc \union BgPc]
        /\ "user" \in Threads
    BY DEF WriteMemtable, SaveSnapshot, Idle, TypeInv, TypeOK, Threads
  <1>1. ASSUME NEW ret \in {"idle", "link"}, StartFlush(m, ret)
        PROVE  Buffered' = m /\ pc'["user"] # "closed"
    <2>1. CASE Present(m) = {}
      <3>1. m = EmptyData
        BY <2>1 DEF Present, Data, EmptyData
      <3>2. memtable' = EmptyData /\ pc'["user"] = ret
        BY <1>0, <1>1, <2>1 DEF StartFlush, UserGoto
      <3> QED BY <3>1, <3>2 DEF Buffered, InFlight, Overlay, EmptyData
    <2>2. CASE Present(m) # {}
      <3>1. memtable' = EmptyData /\ pc'["user"] = "push" /\ flight'.data = m
        BY <1>0, <1>1, <2>2 DEF StartFlush, UserGoto
      <3> QED BY <3>1 DEF Buffered, InFlight, Overlay, EmptyData, Data
    <2> QED BY <2>1, <2>2
  <1>2. CASE memtable' = m /\ UNCHANGED pc
    BY <1>0, <1>2 DEF Buffered, InFlight, Overlay, EmptyData, Data
  <1> QED BY <1>0, <1>1, <1>2 DEF WriteMemtable, SaveSnapshot

LEMMA PutShows ==
  ASSUME TypeInv, NEW S \in SUBSET Keys, NEW w \in [S -> Values],
         WriteMemtable([k \in Keys |-> IF k \in S THEN w[k] ELSE memtable[k]])
  PROVE  KV!Put(w)
PROOF
  <1> DEFINE m == [k \in Keys |-> IF k \in S THEN w[k] ELSE memtable[k]]
  <1>1. m \in Data
    BY DEF TypeInv, TypeOK, Data
  <1> HIDE DEF m
  <1>2. /\ Buffered' = m /\ pc["user"] = "idle" /\ pc'["user"] # "closed"
        /\ UNCHANGED <<levels, snapshots>>
    BY <1>1, WriteShows DEF m
  <1>3. View = Contents(memtable, levels) /\ View' = Contents(m, levels)
    BY <1>2, NothingInFlight DEF View, Buffered, Contents, RangeData, RangeEntry
  <1>4. DOMAIN w = S /\ Keys = DOMAIN View'
    BY <1>3 DEF Contents, Live
  <1>5. \A k \in Keys : View'[k] = IF k \in S THEN w[k] ELSE View[k]
    <2> SUFFICES ASSUME NEW k \in Keys PROVE View'[k] = IF k \in S THEN w[k] ELSE View[k]
      OBVIOUS
    <2>1. CASE k \in S
      <3>1. m[k] = w[k] /\ w[k] # Absent /\ w[k] # Tombstone
        BY <2>1, DataAssumption DEF m
      <3> QED BY <1>3, <2>1, <3>1 DEF Contents, Live, Overlay
    <2>2. CASE k \notin S
      <3>1. m[k] = memtable[k]
        BY <2>2 DEF m
      <3> QED BY <1>3, <2>2, <3>1 DEF Contents, Live, Overlay
    <2> QED BY <2>1, <2>2
  <1>6. View' = [k \in Keys |-> IF k \in DOMAIN w THEN w[k] ELSE View[k]]
    BY <1>3, <1>4, <1>5 DEF Contents, Live
  <1>7. UNCHANGED SnapshotViews
    BY <1>2 DEF SnapshotViews, Contents, RangeData, RangeEntry
  <1> QED BY <1>2, <1>6, <1>7 DEF KV!Put

LEMMA RemoveShows ==
  ASSUME TypeInv, NEW S \in SUBSET Keys,
         WriteMemtable([k \in Keys |-> IF k \in S THEN Tombstone ELSE memtable[k]])
  PROVE  KV!Remove(S)
PROOF
  <1> DEFINE m == [k \in Keys |-> IF k \in S THEN Tombstone ELSE memtable[k]]
  <1>1. m \in Data
    BY DEF TypeInv, TypeOK, Data
  <1> HIDE DEF m
  <1>2. /\ Buffered' = m /\ pc["user"] = "idle" /\ pc'["user"] # "closed"
        /\ UNCHANGED <<levels, snapshots>>
    BY <1>1, WriteShows DEF m
  <1>3. View = Contents(memtable, levels) /\ View' = Contents(m, levels)
    BY <1>2, NothingInFlight DEF View, Buffered, Contents, RangeData, RangeEntry
  <1>5. \A k \in Keys : View'[k] = IF k \in S THEN Absent ELSE View[k]
    <2> SUFFICES ASSUME NEW k \in Keys PROVE View'[k] = IF k \in S THEN Absent ELSE View[k]
      OBVIOUS
    <2>1. CASE k \in S
      <3>1. m[k] = Tombstone
        BY <2>1 DEF m
      <3> QED BY <1>3, <2>1, <3>1, DataAssumption DEF Contents, Live, Overlay
    <2>2. CASE k \notin S
      <3>1. m[k] = memtable[k]
        BY <2>2 DEF m
      <3> QED BY <1>3, <2>2, <3>1 DEF Contents, Live, Overlay
    <2> QED BY <2>1, <2>2
  <1>6. View' = [k \in Keys |-> IF k \in S THEN Absent ELSE View[k]]
    BY <1>3, <1>5 DEF Contents, Live
  <1>7. UNCHANGED SnapshotViews
    BY <1>2 DEF SnapshotViews, Contents, RangeData, RangeEntry
  <1> QED BY <1>2, <1>6, <1>7 DEF KV!Remove

\* The four write calls.
LEMMA WritesShow ==
  ASSUME TypeInv
  PROVE  /\ \A k \in Keys :
              /\ \A v \in Values : Insert(k, v) => KV!Put([i \in {k} |-> v])
              /\ Delete(k) => KV!Remove({k})
         /\ \A S \in SUBSET Keys :
              /\ \A w \in [S -> Values] : InsertBatch(S, w) => KV!Put(w)
              /\ DeleteBatch(S) => KV!Remove(S)
PROOF
  <1>0. memtable \in [Keys -> Values \union {Tombstone, Absent}]
    BY DEF TypeInv, TypeOK, Data
  <1>1. ASSUME NEW k \in Keys, NEW v \in Values, Insert(k, v)
        PROVE  KV!Put([i \in {k} |-> v])
    <2> DEFINE w == [i \in {k} |-> v]
    <2>1. w \in [{k} -> Values] /\ {k} \in SUBSET Keys
      OBVIOUS
    <2>2. [memtable EXCEPT ![k] = v] = [x \in Keys |-> IF x \in {k} THEN w[x] ELSE memtable[x]]
      BY <1>0
    <2>3. WriteMemtable([x \in Keys |-> IF x \in {k} THEN w[x] ELSE memtable[x]])
      BY <1>1, <2>2 DEF Insert
    <2> HIDE DEF w
    <2>4. KV!Put(w)
      BY <2>1, <2>3, PutShows
    <2> QED BY <2>4 DEF w
  <1>2. ASSUME NEW k \in Keys, Delete(k) PROVE KV!Remove({k})
    <2> DEFINE S == {k}
    <2>1. S \in SUBSET Keys
      OBVIOUS
    <2>2. [memtable EXCEPT ![k] = Tombstone] = [x \in Keys |-> IF x \in S THEN Tombstone ELSE memtable[x]]
      BY <1>0
    <2>3. WriteMemtable([x \in Keys |-> IF x \in S THEN Tombstone ELSE memtable[x]])
      BY <1>2, <2>2 DEF Delete
    <2> HIDE DEF S
    <2>4. KV!Remove(S)
      BY <2>1, <2>3, RemoveShows
    <2> QED BY <2>4 DEF S
  <1>3. ASSUME NEW S \in SUBSET Keys PROVE /\ \A w \in [S -> Values] : InsertBatch(S, w) => KV!Put(w)
                                           /\ DeleteBatch(S) => KV!Remove(S)
    BY PutShows, RemoveShows DEF InsertBatch, DeleteBatch
  <1> QED BY <1>1, <1>2, <1>3

\* The caller's snapshots, rollback, close and open.
LEMMA SnapshotShows ==
  ASSUME TypeInv, NEW s \in SnapIds, Snapshot(s)
  PROVE  KV!Snapshot(s)
PROOF
  <1>1. /\ UNCHANGED <<memtable, levels, pc, flight>> /\ pc["user"] = "idle"
        /\ snapshots' = [snapshots EXCEPT ![s] = [memtable |-> memtable, levels |-> levels]]
    BY DEF Snapshot, Idle
  <1>2. View = Contents(memtable, levels)
    BY <1>1, NothingInFlight DEF View, Buffered
  <1>3. UNCHANGED View
    BY <1>1 DEF View, InFlight, Contents, RangeData, RangeEntry
  <1>4. [memtable |-> memtable, levels |-> levels] \in [memtable : Data, levels : [Levels -> Seq(Run)]]
    BY DEF TypeInv, TypeOK, LevelMap
  <1>5. [memtable |-> memtable, levels |-> levels] # None
    BY <1>4, TreeAssumption
  <1> DEFINE rec == [memtable |-> memtable, levels |-> levels]
  <1>6. /\ rec # None /\ rec.memtable = memtable /\ rec.levels = levels
        /\ \A x \in SnapIds : snapshots'[x] = IF x = s THEN rec ELSE snapshots[x]
    BY <1>1, <1>5 DEF TypeInv, TypeOK
  <1> HIDE DEF rec
  <1>7. ASSUME NEW x \in SnapIds
        PROVE  SnapshotViews'[x] = IF x = s THEN View ELSE SnapshotViews[x]
    <2>0. SnapshotViews'[x] = IF snapshots'[x] = None THEN None
                              ELSE Contents(snapshots'[x].memtable, snapshots'[x].levels)
      BY DEF SnapshotViews, Contents, RangeData, RangeEntry
    <2>1. CASE x = s
      <3>1. snapshots'[x] = rec
        BY <1>6, <2>1
      <3> QED BY <1>2, <1>6, <2>0, <2>1, <3>1
    <2>2. CASE x # s
      <3>1. snapshots'[x] = snapshots[x]
        BY <1>6, <2>2
      <3> QED BY <2>0, <2>2, <3>1 DEF SnapshotViews
    <2> QED BY <2>1, <2>2
  <1>8. SnapshotViews' = [SnapshotViews EXCEPT ![s] = View]
    BY <1>7 DEF SnapshotViews
  <1> QED BY <1>1, <1>3, <1>8 DEF KV!Snapshot

LEMMA RollbackShows ==
  ASSUME TypeInv, RunNumbersUnique, NEW s \in SnapIds, Rollback(s)
  PROVE  KV!Rollback(s)
PROOF
  <1>1. /\ UNCHANGED <<snapshots, pc, flight>> /\ pc["user"] = "idle" /\ snapshots[s] # None
        /\ memtable' = snapshots[s].memtable /\ levels' = snapshots[s].levels
    BY DEF Rollback, Idle
  <1>2. snapshots[s].memtable \in Data /\ snapshots[s].levels \in LevelMap
    BY <1>1 DEF TypeInv, TypeOK, TreeSnapshot
  <1>3. RankedLevels(snapshots[s].levels)
    BY <1>1, RankedHeld
  <1>4. SnapshotViews[s] = Contents(snapshots[s].memtable, snapshots[s].levels)
        /\ SnapshotViews[s] # None
    BY <1>1, <1>2, <1>3, ContentsType DEF SnapshotViews
  <1>5. View' = Contents(memtable', levels')
    BY <1>1, <1>2 DEF View, InFlight, Contents, Overlay, EmptyData, Data
  <1>6. View' = SnapshotViews[s]
    BY <1>1, <1>4, <1>5
  <1>7. UNCHANGED SnapshotViews
    BY <1>1 DEF SnapshotViews, Contents, RangeData, RangeEntry
  <1> QED BY <1>1, <1>4, <1>6, <1>7 DEF KV!Rollback

LEMMA EmptyContents ==
  Contents(EmptyData, NoRuns) = [k \in Keys |-> Absent]
PROOF
  <1>1. \A k : RangeEntry(NoRuns, k) = Absent
    BY DEF RangeEntry, NoRuns, RunSet
  <1> QED BY <1>1, DataAssumption DEF Contents, Live, Overlay, RangeData, EmptyData

LEMMA EmptyView ==
  ASSUME memtable = EmptyData, levels = NoRuns, pc["user"] # "push"
  PROVE  View = [k \in Keys |-> Absent]
PROOF
  <1>1. Overlay(EmptyData, EmptyData) = EmptyData
    BY DEF Overlay, EmptyData
  <1> QED BY <1>1, EmptyContents DEF View, InFlight

LEMMA InitShows == Init => KV!Init
PROOF
  <1> SUFFICES ASSUME Init PROVE KV!Init
    OBVIOUS
  <1>1. memtable = EmptyData /\ levels = NoRuns /\ pc["user"] = "idle"
    BY DEF Init, ThreadsAt, Threads
  <1>2. View = [k \in Keys |-> Absent]
    BY <1>1, EmptyView
  <1>3. SnapshotViews = [s \in SnapIds |-> None]
    BY DEF Init, SnapshotViews
  <1> QED BY <1>1, <1>2, <1>3 DEF KV!Init, KV!EmptyMap

\* What a session starts with, or leaves behind.
LEMMA StartViews ==
  ASSUME NEW lv, NEW n, NEW p, p["user"] # "push", Session(lv, n, p)
  PROVE  /\ View' = Contents(EmptyData, lv)
         /\ SnapshotViews' = [s \in SnapIds |-> None]
         /\ pc' = p
PROOF
  <1>1. /\ memtable' = EmptyData /\ levels' = lv /\ pc' = p
        /\ snapshots' = [s \in SnapIds |-> None]
    BY DEF Session
  <1>2. Overlay(EmptyData, EmptyData) = EmptyData /\ InFlight' = EmptyData
    BY <1>1 DEF Overlay, EmptyData, InFlight
  <1>3. View' = Contents(EmptyData, lv)
    <2>1. Overlay(memtable, InFlight)' = Overlay(memtable', InFlight')
      BY DEF Overlay
    <2>2. Overlay(memtable, InFlight)' = EmptyData
      BY <1>1, <1>2, <2>1
    <2>3. RangeData(levels)' = RangeData(levels')
      BY DEF RangeData, RangeEntry
    <2>4. RangeData(levels)' = RangeData(lv)
      BY <1>1, <2>3
    <2>5. View' = Live(Overlay(EmptyData, RangeData(lv)))
      BY <2>2, <2>4 DEF View, Contents, Live, Overlay
    <2> QED BY <2>5 DEF Contents
  <1>4. SnapshotViews' = [s \in SnapIds |-> None]
    BY <1>1 DEF SnapshotViews
  <1> QED BY <1>1, <1>3, <1>4

LEMMA ClosedViews ==
  ASSUME ContentInv, pc["user"] = "closed"
  PROVE  /\ View = [k \in Keys |-> Absent]
         /\ SnapshotViews = [s \in SnapIds |-> None]
PROOF
  <1>1. memtable = EmptyData /\ levels = NoRuns /\ snapshots = [s \in SnapIds |-> None]
    BY DEF ContentInv, ClosedEmpty
  <1>2. SnapshotViews = [s \in SnapIds |-> None]
    BY <1>1 DEF SnapshotViews
  <1> QED BY <1>1, <1>2, EmptyView

\* close shows an empty store, and open the runs that failed writes have left.
LEMMA CloseEmpties ==
  ASSUME pc["user"] # "closed", NoSession
  PROVE  KV!Close
PROOF
  <1> DEFINE p == ThreadsAt("closed", "exit")
  <1>1. Session(NoRuns, 1, p) /\ p["user"] = "closed"
    BY DEF NoSession, ThreadsAt, Threads
  <1>2. /\ View' = Contents(EmptyData, NoRuns)
        /\ SnapshotViews' = [s \in SnapIds |-> None]
        /\ pc'["user"] = "closed"
    <2> HIDE DEF p
    <2> QED BY <1>1, StartViews
  <1> QED BY <1>2, EmptyContents DEF KV!Close, KV!EmptyMap

LEMMA OpenAdopts ==
  ASSUME TypeInv, ContentInv, RankedLevels(levels'), NEW s \in Orders(Openable), OpenAs(s)
  PROVE  IF left.runs = {} THEN KV!Open ELSE KV!Adopt
PROOF
  <1> DEFINE lv == [NoRuns EXCEPT ![0] = s]
             p == ThreadsAt("idle", "wait")
  <1>1. p["user"] = "idle" /\ Session(lv, LastNumber + 1, p) /\ pc["user"] = "closed"
    BY DEF OpenAs, StartSession, ThreadsAt, Threads
  <1>2. /\ lv \in LevelMap /\ AllRuns(lv) = Relevelled(left.runs)
    BY OpenStarts
  <1>3. RankedLevels(lv)
    BY <1>1 DEF Session
  <1> HIDE DEF lv, p
  <1>5. /\ View' = Contents(EmptyData, lv)
        /\ SnapshotViews' = [i \in SnapIds |-> None]
        /\ pc'["user"] = "idle"
    BY <1>1, StartViews
  <1>6. /\ View = [k \in Keys |-> Absent]
        /\ SnapshotViews = [i \in SnapIds |-> None]
    BY <1>1, ClosedViews
  <1>8. CASE left.runs = {}
    <2>1. AllRuns(lv) = {}
      BY <1>2, <1>8 DEF Relevelled
    <2>2. \A k \in Keys : RangeEntry(lv, k) = Absent
      <3>1. \A l \in Levels : RunSet(lv[l]) = {}
        BY <2>1 DEF AllRuns
      <3> QED BY <3>1 DEF RangeEntry
    <2>3. View' = [k \in Keys |-> Absent]
      BY <1>5, <2>2 DEF Contents, Live, Overlay, RangeData, EmptyData
    <2> QED BY <1>1, <1>5, <1>6, <1>8, <2>3 DEF KV!Open
  <1>9. CASE left.runs # {}
    <2>1. \A k \in Keys : RangeEntry(lv, k) \in Values \union {Tombstone, Absent}
      BY <1>2, <1>3, RangeEntryType
    <2>2. Contents(EmptyData, lv) \in [Keys -> Values \union {Absent}]
      BY <2>1 DEF Contents, Live, Overlay, RangeData, EmptyData
    <2> QED BY <1>1, <1>5, <1>6, <1>9, <2>2 DEF KV!Adopt, KV!Maps
  <1> QED BY <1>8, <1>9

---------------------------------------------------------------------------
(* The steps that must not show.                                           *)

LevelsRanked == RankedLevels(levels)

\* The push of a run moves its entries from the flight to L0.
LEMMA PushHidden ==
  ASSUME TypeInv, OrderInv, LevelsRanked, LevelsRanked', FlushPush
  PROVE  UNCHANGED KV!vars
PROOF
  <1> DEFINE w == [levels EXCEPT ![0] = Append(levels[0], flight)]
  <1>1. /\ pc["user"] = "push" /\ flight \in Run /\ pc'["user"] = "credit"
        /\ UNCHANGED <<memtable, snapshots, flight>>
        /\ levels' = w /\ levels \in LevelMap
    BY DEF FlushPush, TypeInv, TypeOK, FlightHeld, UserGoto, Threads
  <1>2. RankedLevels(levels) /\ RankedLevels(w)
    BY <1>1 DEF LevelsRanked, RankedLevels
  <1>3. \A q \in RunSet(levels[0]) : q.num < flight.num
    BY <1>1 DEF OrderInv
  <1> HIDE DEF w
  <1>4. ASSUME NEW k \in Keys
        PROVE  RangeEntry(w, k) = IF flight.data[k] # Absent THEN flight.data[k]
                                  ELSE RangeEntry(levels, k)
    BY <1>1, <1>2, <1>3, RangePush DEF w
  <1>5. View = Contents(Overlay(memtable, flight.data), levels)
        /\ View' = Contents(memtable, w)
    <2>1. View' = Contents(Overlay(memtable, EmptyData), w)
      BY <1>1 DEF View, InFlight, Contents, RangeData, RangeEntry, Overlay, EmptyData
    <2>2. Overlay(memtable, EmptyData) = memtable
      BY DEF Overlay, EmptyData, TypeInv, TypeOK, Data
    <2> QED BY <1>1, <2>1, <2>2 DEF View, InFlight
  <1>6. Contents(Overlay(memtable, flight.data), levels) = Contents(memtable, w)
    BY <1>4 DEF Contents, Overlay, RangeData, Live
  <1>7. UNCHANGED SnapshotViews
    BY <1>1 DEF SnapshotViews, Contents, RangeData, RangeEntry
  <1> QED BY <1>1, <1>5, <1>6, <1>7 DEF KV!vars

\* A write-back that leaves bottom-level runs in place because nothing is left
\* of the merge: the tombstones it drops stop hiding those runs.
ForgetsTombstones ==
  /\ WriteBack("bg")
  /\ generation = job["bg"].gen
  /\ Forgets(levels, job["bg"])

LEMMA WriteBackHidden ==
  ASSUME TypeInv, JobInv, OrderInv, ContentInv, LevelsRanked, LevelsRanked',
         WriteBack("bg"), ~ ForgetsTombstones, pc["user"] # "closed"
  PROVE  UNCHANGED KV!vars
PROOF
  <1> DEFINE j == job["bg"]
             w == Applied(levels, j)
  <1>1. /\ UNCHANGED <<memtable, snapshots, flight>> /\ pc'["user"] = pc["user"]
        /\ j \in Job /\ levels \in LevelMap /\ InStage("bg", "write")
        /\ levels' = IF generation = j.gen THEN w ELSE levels
    BY DEF WriteBack, Return, TypeInv, TypeOK, Threads
  <1>2. CASE generation # j.gen
    <2>1. UNCHANGED levels
      BY <1>1, <1>2
    <2>2. Buffered' = Buffered
      BY <1>1 DEF Buffered, InFlight, Overlay, EmptyData
    <2> QED BY <1>1, <2>1, <2>2, ViewSame
  <1>3. CASE generation = j.gen
    <2>1. levels' = w
      BY <1>1, <1>3
    <2>2. RankedLevels(levels) /\ RankedLevels(w)
      BY <2>1 DEF LevelsRanked, RankedLevels
    <2>3. /\ Len(j.snap[0]) <= Len(levels[0])
          /\ \A i \in DOMAIN j.snap[0] : levels[0][i] = j.snap[0][i]
          /\ \A l \in Levels \ {0} : levels[l] = j.snap[l]
      BY <1>1, <1>3 DEF JobInv, CompactionJobCurrent, InStage, Threads
    <2>4. /\ j.src \in Levels /\ j.src + 1 \in Levels /\ j.src + 1 # 0
          /\ MaxLevel \in Levels /\ MaxLevel # 0
      BY <1>1, LevelAssumption, SourceAndTarget DEF Job, Levels
    <2>5. /\ Len(j.snap[j.src]) <= Len(levels[j.src])
          /\ \A i \in DOMAIN j.snap[j.src] : levels[j.src][i] = j.snap[j.src][i]
      <3>1. CASE j.src = 0
        BY <2>3, <3>1
      <3>2. CASE j.src # 0
        <4>1. levels[j.src] = j.snap[j.src]
          BY <2>3, <2>4, <3>2
        <4>2. Len(levels[j.src]) \in Nat
          BY <1>1, <2>4, LenProperties DEF LevelMap
        <4> QED BY <4>1, <4>2
      <3> QED BY <3>1, <3>2
    <2>6. j.snap[j.src + 1] = levels[j.src + 1] /\ j.snap[MaxLevel] = levels[MaxLevel]
      BY <2>3, <2>4
    <2>7. Older(RunSet(j.snap[j.src]), RunSet(DropFirst(levels[j.src], Len(j.snap[j.src]))))
      <3>1. CASE j.src = 0
        BY <1>1, <1>3, <3>1 DEF OrderInv, JobOrdered, LateRuns, InStage
      <3>2. CASE j.src # 0
        <4>1. levels[j.src] = j.snap[j.src] /\ levels[j.src] \in Seq(Run)
          BY <1>1, <2>3, <2>4, <3>2 DEF LevelMap
        <4>2. RunSet(DropFirst(levels[j.src], Len(j.snap[j.src]))) = {}
          BY <4>1, LateNone
        <4> QED BY <4>2 DEF Older
      <3> QED BY <3>1, <3>2
    <2>8. j.out # None => \A q \in RunSet(levels[j.src + 1]) : q.num < j.out.num
      BY <1>1, <1>3 DEF OrderInv
    <2>9. Len(levels[MaxLevel]) <= 1 /\ Len(j.snap[MaxLevel]) <= 1
      BY <2>6 DEF ContentInv, BottomShort
    <2>10. /\ j.out = None => Present(CompactLevels(j.snap, j.src)) = {}
           /\ j.out # None => j.out.data = CompactLevels(j.snap, j.src)
      BY <1>1 DEF ContentInv, OutputIsMerge
    <2>11. ~ Forgets(levels, j)
      BY <1>3 DEF ForgetsTombstones
    <2> HIDE DEF j, w
    <2>12. Writable(levels, j)
      BY <2>2, <2>5, <2>6, <2>7, <2>8, <2>9, <2>10 DEF Writable
    <2>13. \A k \in Keys : Shown(RangeEntry(w, k)) = Shown(RangeEntry(levels, k))
      BY <1>1, <2>2, <2>11, <2>12, RangeApplied DEF w
    <2>14. \A m : Contents(m, w) = Contents(m, levels)
      BY <2>13, SameContents
    <2>15. View' = Contents(Buffered, w)
      <3>1. View' = Contents(Buffered', levels')
        BY DEF View, Buffered, Contents, RangeData, RangeEntry
      <3>2. Buffered' = Buffered
        BY <1>1 DEF Buffered, InFlight, Overlay, EmptyData
      <3> QED BY <2>1, <3>1, <3>2
    <2>16. View' = View
      BY <2>14, <2>15 DEF View, Buffered
    <2>17. UNCHANGED SnapshotViews
      BY <1>1 DEF SnapshotViews, Contents, RangeData, RangeEntry
    <2> QED BY <1>1, <2>16, <2>17 DEF KV!vars
  <1> QED BY <1>2, <1>3

LEMMA FlushHidden ==
  ASSUME TypeInv, OrderInv, LevelsRanked, LevelsRanked', "flush" \notin Faults, Flush
  PROVE  UNCHANGED KV!vars
PROOF
  <1>1. ~ FlushFail
    BY DEF FlushFail
  <1>2. CASE FlushCredit \/ FlushSignal \/ FlushPoll \/ FlushResume
    <2>1. /\ UNCHANGED <<memtable, levels, snapshots>>
          /\ pc["user"] \in {"credit", "signal", "stall"}
          /\ pc'["user"] \in {"credit", "signal", "stall", "idle", "link"}
      BY <1>2 DEF FlushCredit, FlushSignal, FlushPoll, FlushResume, UserGoto, vars,
                  TypeInv, TypeOK, Threads
    <2>2. Buffered' = Buffered
      BY <2>1 DEF Buffered, InFlight, Overlay, EmptyData
    <2> QED BY <2>1, <2>2, ViewSame
  <1> QED BY <1>1, <1>2, PushHidden DEF Flush

LEMMA BackgroundHidden ==
  ASSUME TypeInv, JobInv, OrderInv, ContentInv, LevelsRanked, LevelsRanked',
         Background, ~ ForgetsTombstones
  PROVE  UNCHANGED KV!vars
PROOF
  <1>1. pc["user"] # "closed"
    BY DEF ContentInv, ClosedEmpty, Background, RunCompaction, LoadGeneration,
           CloneAndSelect, Merge, MergeFail, WriteBack, InStage, BgWake, BgCredit, BgExit
  <1>2. CASE WriteBack("bg")
    BY <1>1, <1>2, WriteBackHidden
  <1>3. CASE ~ WriteBack("bg")
    <2>1. UNCHANGED <<memtable, levels, snapshots, flight>> /\ pc'["user"] = pc["user"]
      BY <1>3 DEF Background, RunCompaction, LoadGeneration, CloneAndSelect, Merge, MergeFail,
                  FailedMerge, Return, BgWake, BgCredit, BgExit, TypeInv, TypeOK, Threads
    <2>2. Buffered' = Buffered
      BY <2>1 DEF Buffered, InFlight, Overlay, EmptyData
    <2> QED BY <1>1, <2>1, <2>2, ViewSame
  <1> QED BY <1>2, <1>3

LEMMA CallerHidden ==
  ASSUME TypeInv, SaveSnapshot \/ Link \/ Drop
  PROVE  UNCHANGED KV!vars
PROOF
  <1>1. CASE SaveSnapshot
    <2>1. memtable \in Data
      BY DEF TypeInv, TypeOK
    <2>2. /\ Buffered' = memtable
          /\ pc["user"] = "idle" /\ pc'["user"] # "closed"
          /\ UNCHANGED <<levels, snapshots>>
      BY <1>1, <2>1, WriteShows
    <2> QED BY <2>2, NothingInFlight, ViewSame
  <1>2. CASE Link \/ Drop
    <2>1. /\ UNCHANGED <<memtable, levels, snapshots>>
          /\ pc["user"] \in {"link", "idle"} /\ pc'["user"] \in {"idle", "joining"}
      BY <1>2 DEF Link, Drop, Idle, UserGoto, TypeInv, TypeOK, Threads
    <2>2. Buffered' = Buffered
      BY <2>1 DEF Buffered, InFlight, Overlay, EmptyData
    <2> QED BY <2>1, <2>2, ViewSame
  <1> QED BY <1>1, <1>2

LEMMA StepShows ==
  ASSUME SoloCompactor, "flush" \notin Faults,
         TypeInv, JobInv, OrderInv, ContentInv, RunNumbersUnique, LevelsRanked, LevelsRanked',
         ~ ForgetsTombstones
  PROVE  CallByCall
PROOF
  <1>1. \A s \in SnapIds : /\ Snapshot(s) => KV!Snapshot(s)
                           /\ Rollback(s) => KV!Rollback(s)
    BY SnapshotShows, RollbackShows
  <1>2. Flush \/ ManualCompaction \/ SaveSnapshot \/ Link \/ Drop \/ Background
          => UNCHANGED KV!vars
    BY FlushHidden, NoManualCompaction, CallerHidden, BackgroundHidden
  <1>3. Joined => KV!Close
    BY CloseEmpties DEF Joined
  <1>4. Open => IF left.runs = {} THEN KV!Open ELSE KV!Adopt
    BY OpenAdopts DEF Open, LevelsRanked
  <1> QED BY <1>1, <1>2, <1>3, <1>4, WritesShow DEF CallByCall

\* The tree is a key-value store, call by call, for every configuration whose
\* caller leaves compaction to the background thread and whose flushes do not
\* fail: whatever the two threads' interleaving, no flush, compaction, failed
\* merge, discarded write-back, save or wait in back-pressure changes what
\* range returns, and each call changes it as KvStore does (lib.rs:984-1043).
\* A merge that fails may leave a whole run in active/, which the next open
\* takes over (compaction.rs:197, lib.rs:531-556): that open is Adopt, every
\* other is KvStore's Open, from nothing.
\* The exception is the step named in the hypothesis: a merge into the bottom
\* level that leaves no entry does not clear that level (compaction.rs:404-417).
THEOREM TreeImplementsKvStore ==
  SoloCompactor /\ "flush" \notin Faults
    => (Spec /\ [][~ ForgetsTombstones]_vars => ImplementsKvStore)
PROOF
  <1> SUFFICES ASSUME SoloCompactor, "flush" \notin Faults
               PROVE  Spec /\ [][~ ForgetsTombstones]_vars => ImplementsKvStore
    OBVIOUS
  <1>1. Spec => []TypeInv
    BY TypeInit, TypeNext, PTL DEF Spec
  <1>2. TypeInv /\ TypeInv' /\ JobInv /\ [Next]_vars => JobInv'
    BY JobNext
  <1>3. Spec => []JobInv
    BY <1>1, <1>2, JobInit, PTL DEF Spec
  <1>4. TypeInv /\ TypeInv' /\ JobInv /\ OrderInv /\ [Next]_vars => OrderInv'
    BY OrderNext
  <1>5. Spec => []OrderInv
    BY <1>1, <1>3, <1>4, OrderInit, PTL DEF Spec
  <1>6. TypeInv /\ TypeInv' /\ JobInv /\ ContentInv /\ [Next]_vars => ContentInv'
    BY ContentNext
  <1>7. Spec => []ContentInv
    BY <1>1, <1>3, <1>6, ContentInit, PTL DEF Spec
  <1>8. TypeInv /\ RunNumbersUnique => LevelsRanked
    BY RankedHeld DEF LevelsRanked
  <1>9. Spec => [](RunNumbersUnique /\ LevelsRanked)
    BY <1>1, <1>8, RunsHaveTheirNumbers, PTL
  <1>10. /\ TypeInv /\ JobInv /\ OrderInv /\ ContentInv /\ RunNumbersUnique
         /\ LevelsRanked /\ LevelsRanked' /\ [~ ForgetsTombstones]_vars
         => [CallByCall]_vars
    BY StepShows
  <1> QED BY <1>1, <1>3, <1>5, <1>7, <1>9, <1>10, InitShows, PTL DEF Spec, ImplementsKvStore

---------------------------------------------------------------------------
(* A caller that deletes nothing: no run, memtable or snapshot has a       *)
(* tombstone, and no run is empty.                                         *)

PlainCaller == Calls \cap {"delete", "delete_batch"} = {}

Plain(d) == \A k \in Keys : d[k] # Tombstone

PlainInv ==
  /\ Plain(memtable)
  /\ \A s \in SnapIds : snapshots[s] # None => Plain(snapshots[s].memtable)
  /\ \A r \in Files : Plain(r.data) /\ Present(r.data) # {}

LEMMA RankedHeldLevels ==
  ASSUME TypeInv, RunNumbersUnique, NEW lv \in LevelMap, AllRuns(lv) \subseteq HeldRuns
  PROVE  RankedLevels(lv)
PROOF
  <1> SUFFICES ASSUME NEW l \in Levels PROVE Ranked(RunSet(lv[l]))
    BY DEF RankedLevels
  <1>1. RunSet(lv[l]) \subseteq HeldRuns
    BY LevelRuns DEF LevelMap
  <1>2. next_run_number \in Nat /\ \A r \in HeldRuns : r \in Run /\ r.num < next_run_number
    BY HeldBelow DEF RunsBelow, TypeInv, TypeOK
  <1> QED BY <1>1, <1>2 DEF Ranked, RunNumbersUnique

LEMMA PlainNewest ==
  ASSUME NEW R, Ranked(R), \A r \in R : Plain(r.data), NEW k \in Keys
  PROVE  NewestEntry(R, k) # Tombstone
PROOF
  <1>1. CASE NewestEntry(R, k) = Absent
    BY <1>1, DataAssumption
  <1>2. CASE NewestEntry(R, k) # Absent
    <2>1. PICK r \in R : NewestEntry(R, k) = r.data[k]
      BY <1>2, NewestCases
    <2> QED BY <2>1 DEF Plain
  <1> QED BY <1>1, <1>2

\* A merge makes no tombstones.
LEMMA PlainMerges ==
  ASSUME NEW lv \in LevelMap, RankedLevels(lv), \A r \in AllRuns(lv) : Plain(r.data),
         NEW src \in 0 .. MaxLevel - 1
  PROVE  Plain(CompactLevels(lv, src)) /\ Plain(CompactAllRuns(lv))
PROOF
  <1>0. src \in Levels
    BY SourceAndTarget
  <1>1. \A d : Plain(Live(d))
    BY DataAssumption DEF Plain, Live
  <1>2. RunSet(lv[src]) \subseteq AllRuns(lv)
    BY <1>0, LevelRuns DEF LevelMap
  <1>3. \A k \in Keys : NewestEntry(RunSet(lv[src]), k) # Tombstone
    <2>1. Ranked(RunSet(lv[src])) /\ \A r \in RunSet(lv[src]) : Plain(r.data)
      BY <1>0, <1>2 DEF RankedLevels
    <2> QED BY <2>1, PlainNewest
  <1>4. Plain(MergeRuns(RunSet(lv[src])))
    BY <1>3 DEF Plain, MergeRuns
  <1> QED BY <1>1, <1>4 DEF CompactLevels, CompactAllRuns

LEMMA PlainInit == Init => PlainInv
PROOF
  <1> SUFFICES ASSUME Init PROVE PlainInv
    OBVIOUS
  <1>1. Files = {}
    BY NoRunsType, NoJobType DEF Init, Files, HeldRuns, Threads, NothingLeft
  <1> QED BY <1>1, DataAssumption DEF Init, PlainInv, Plain, EmptyData

\* The memtable, the flight and the memtables of the snapshots.
LEMMA PlainBuffers ==
  ASSUME PlainCaller, TypeInv, PlainInv, [Next]_vars
  PROVE  /\ Plain(memtable')
         /\ \A s \in SnapIds : snapshots'[s] # None => Plain(snapshots'[s].memtable)
         /\ flight' # None => Plain(flight'.data)
PROOF
  <1> DEFINE Goal == /\ Plain(memtable')
                     /\ \A s \in SnapIds : snapshots'[s] # None => Plain(snapshots'[s].memtable)
                     /\ flight' # None => Plain(flight'.data)
  <1>0. /\ Plain(memtable) /\ Plain(EmptyData)
        /\ \A s \in SnapIds : snapshots[s] # None => Plain(snapshots[s].memtable)
        /\ flight # None => Plain(flight.data)
    <2>1. flight # None => flight \in HeldRuns
      BY HeldParts
    <2> QED BY <2>1, DataAssumption DEF PlainInv, Files, Plain, EmptyData
  <1>1. ASSUME UNCHANGED snapshots, memtable' = memtable \/ memtable' = EmptyData,
               flight' = flight \/ flight' = None
        PROVE  Goal
    BY <1>0, <1>1
  <1>2. ASSUME NEW m, Plain(m), WriteMemtable(m) \/ (SaveSnapshot /\ m = memtable)
        PROVE  Goal
    <2>1. UNCHANGED snapshots
      BY <1>2 DEF WriteMemtable, SaveSnapshot
    <2>2. Plain(memtable')
      BY <1>0, <1>2 DEF WriteMemtable, SaveSnapshot, StartFlush
    <2>3. flight' = flight \/ flight' = [num |-> next_run_number, level |-> 0, data |-> m]
      BY <1>2 DEF WriteMemtable, SaveSnapshot, StartFlush
    <2>4. flight' # None => Plain(flight'.data)
      BY <1>0, <1>2, <2>3
    <2> QED BY <1>0, <2>1, <2>2, <2>4
  <1>3. ASSUME NEW k \in Keys, NEW v \in Values, Insert(k, v) PROVE Goal
    <2>1. Plain([memtable EXCEPT ![k] = v])
      BY <1>0, DataAssumption DEF Plain, TypeInv, TypeOK, Data
    <2> QED BY <1>2, <1>3, <2>1 DEF Insert
  <1>4. ASSUME NEW S \in SUBSET Keys, NEW w \in [S -> Values], InsertBatch(S, w) PROVE Goal
    <2>1. Plain([k \in Keys |-> IF k \in S THEN w[k] ELSE memtable[k]])
      BY <1>0, DataAssumption DEF Plain
    <2> QED BY <1>2, <1>4, <2>1 DEF InsertBatch
  <1>5. /\ \A k \in Keys : ~ Delete(k)
        /\ \A S \in SUBSET Keys : ~ DeleteBatch(S)
    BY DEF PlainCaller, Delete, DeleteBatch
  <1>6. ASSUME SaveSnapshot PROVE Goal
    BY <1>0, <1>2, <1>6
  <1>7. ASSUME Flush PROVE Goal
    BY <1>1, <1>7 DEF Flush, FlushFail, FlushPush, FlushCredit, FlushSignal, FlushPoll,
                      FlushResume, vars
  <1>8. ASSUME ManualCompaction \/ Background \/ Link \/ Drop \/ UNCHANGED vars PROVE Goal
    BY <1>1, <1>8 DEF ManualCompaction, Compact, CompactAll, MergeAll, MergeAllFail, WriteAll,
       Background, RunCompaction, LoadGeneration, CloneAndSelect, Merge, MergeFail, FailedMerge,
       WriteBack, BgWake, BgCredit, BgExit, Link, Drop, vars
  <1>9. ASSUME NEW s \in SnapIds, Snapshot(s) PROVE Goal
    <2>1. \A x \in SnapIds : snapshots'[x] # None => Plain(snapshots'[x].memtable)
      BY <1>0, <1>9 DEF Snapshot, TypeInv, TypeOK
    <2> QED BY <1>0, <1>9, <2>1 DEF Snapshot
  <1>10. ASSUME NEW s \in SnapIds, Rollback(s) PROVE Goal
    BY <1>0, <1>10 DEF Rollback
  <1>11. ASSUME Joined \/ Open PROVE Goal
    BY <1>0, <1>11 DEF Joined, Open, OpenAs, NoSession, StartSession, Session
  <1> HIDE DEF Goal
  <1>12. Goal
    <2>1. ASSUME User PROVE Goal
      BY <1>3, <1>4, <1>5, <1>6, <1>7, <1>8, <1>9, <1>10, <1>11, <2>1 DEF User
    <2>2. ASSUME ~ User PROVE Goal
      BY <1>8, <1>11, <2>2 DEF Next
    <2> QED BY <2>1, <2>2
  <1> QED BY <1>12 DEF Goal

LEMMA PlainNext ==
  ASSUME PlainCaller, TypeInv, TypeInv', RunNumbersUnique, PlainInv, [Next]_vars
  PROVE  PlainInv'
PROOF
  <1>1. /\ Plain(memtable')
        /\ \A s \in SnapIds : snapshots'[s] # None => Plain(snapshots'[s].memtable)
        /\ flight' # None => Plain(flight'.data)
    BY PlainBuffers
  <1>2. ASSUME NEW r, NewRun(r) PROVE Plain(r.data)
    <2>1. CASE WriteMemtable(r.data)
      <3>1. CASE memtable' = r.data
        BY <1>1, <3>1
      <3>2. CASE memtable' # r.data
        <4>1. /\ flight' = [num |-> next_run_number, level |-> 0, data |-> r.data]
              /\ pc'["user"] = "push"
          BY <1>2, <2>1, <3>2 DEF WriteMemtable, StartFlush, UserGoto, NewRun,
             TypeInv, TypeOK, Threads
        <4>2. flight' # None
          BY <4>1, TreeAssumption DEF TypeInv, FlightHeld
        <4> QED BY <1>1, <4>1, <4>2
      <3> QED BY <3>1, <3>2
    <2>2. CASE SaveSnapshot /\ r.data = memtable
      BY <2>2 DEF PlainInv
    <2>3. ASSUME NEW t \in Threads
          PROVE  /\ Plain(CompactLevels(job[t].snap, job[t].src))
                 /\ Plain(CompactAllRuns(job[t].snap))
      <3> DEFINE lv == job[t].snap
      <3>1. lv \in LevelMap /\ job[t].src \in 0 .. MaxLevel - 1
        BY DEF TypeInv, TypeOK, Job
      <3>2. AllRuns(lv) \subseteq HeldRuns
        BY HeldParts
      <3>3. \A q \in AllRuns(lv) : Plain(q.data)
        BY <3>2 DEF PlainInv, Files
      <3> HIDE DEF lv
      <3>4. RankedLevels(lv)
        BY <3>1, <3>2, RankedHeldLevels
      <3>5. Plain(CompactLevels(lv, job[t].src)) /\ Plain(CompactAllRuns(lv))
        BY <3>1, <3>3, <3>4, PlainMerges
      <3> QED BY <3>5 DEF lv
    <2>4. "user" \in Threads
      BY DEF Threads
    <2> QED BY <1>2, <2>1, <2>2, <2>3, <2>4 DEF NewRun
  <1>3. \A r : NewRun(r) => Present(r.data) # {}
    BY DEF NewRun
  <1>4. \A r \in Files' : Plain(r.data) /\ Present(r.data) # {}
    <2>1. \A r \in Relevelled(left.runs) : Plain(r.data) /\ Present(r.data) # {}
      <3>1. \A r \in Relevelled(left.runs) : \E q \in left.runs : r.data = q.data
        BY RelevelledIs DEF TypeInv, TypeOK
      <3> QED BY <3>1 DEF PlainInv, Files
    <2> QED BY <1>2, <1>3, <2>1, HeldNext DEF HeldStep, PlainInv, Files
  <1> QED BY <1>1, <1>4 DEF PlainInv

\* Without tombstones a merge into the bottom level leaves every key it found.
LEMMA NothingForgotten ==
  ASSUME TypeInv, RunNumbersUnique, JobInv, ContentInv, PlainInv
  PROVE  ~ ForgetsTombstones
PROOF
  <1> SUFFICES ASSUME ForgetsTombstones PROVE FALSE
    OBVIOUS
  <1> DEFINE j == job["bg"]
             lv == j.snap
             d == CompactLevels(lv, j.src)
  <1>1. /\ j \in Job /\ lv \in LevelMap /\ j.src \in 0 .. MaxLevel - 1
        /\ MaxLevel \in Levels /\ MaxLevel # 0 /\ j.src + 1 = MaxLevel
        /\ j.out = None /\ levels[MaxLevel] # <<>>
        /\ InStage("bg", "write") /\ generation = j.gen
    BY LevelAssumption
    DEF ForgetsTombstones, Forgets, WriteBack, TypeInv, TypeOK, Threads, Job, Levels
  <1>2. lv[MaxLevel] = levels[MaxLevel]
    BY <1>1 DEF JobInv, CompactionJobCurrent, InStage, Threads
  <1>3. Present(d) = {}
    BY <1>1 DEF ContentInv, OutputIsMerge
  <1>4. AllRuns(lv) \subseteq HeldRuns
    BY HeldParts DEF Threads
  <1>5. Len(lv[MaxLevel]) <= 1
    BY <1>2 DEF ContentInv, BottomShort
  <1> HIDE DEF lv, d, j
  <1>6. RankedLevels(lv)
    BY <1>1, <1>4, RankedHeldLevels
  <1>7. PICK q \in RunSet(lv[MaxLevel]) : TRUE
    <2>1. lv[MaxLevel] \in Seq(Run) /\ lv[MaxLevel] # <<>>
      BY <1>1, <1>2 DEF LevelMap
    <2>2. 1 \in DOMAIN lv[MaxLevel]
      BY <2>1, EmptySeq, LenProperties
    <2> QED BY <2>2 DEF RunSet
  <1>8. RunSet(lv[MaxLevel]) \subseteq HeldRuns
    BY <1>1, <1>4, LevelRuns DEF LevelMap
  <1>9. PICK k \in Keys : q.data[k] # Absent
    BY <1>7, <1>8 DEF PlainInv, Files, Present
  <1> DEFINE r == NewestEntry(RunSet(lv[j.src]), k)
             t == LevelEntry(lv, j.src + 1, k)
             m == IF r # Absent THEN r ELSE t
  <1>10. t # Absent
    BY <1>1, <1>6, <1>7, <1>9, LevelHit
  <1>11. r # Tombstone /\ t # Tombstone
    <2>1. \A l \in Levels : \A x \in RunSet(lv[l]) : Plain(x.data)
      BY <1>1, <1>4, LevelRuns DEF LevelMap, PlainInv, Files
    <2>2. \A l \in Levels : NewestEntry(RunSet(lv[l]), k) # Tombstone
      BY <1>6, <2>1, PlainNewest DEF RankedLevels
    <2>3. j.src \in Levels
      BY <1>1, SourceAndTarget
    <2> QED BY <1>1, <2>2, <2>3 DEF LevelEntry
  <1>12. d[k] = Shown(m)
    BY <1>1, <1>5, CompactedEntry DEF d
  <1>13. d[k] # Absent
    BY <1>10, <1>11, <1>12 DEF Shown
  <1> QED BY <1>3, <1>13 DEF Present

LEMMA PlainAlways ==
  ASSUME PlainCaller
  PROVE  Spec => []PlainInv
PROOF
  <1>1. Spec => []TypeInv
    BY TypeInit, TypeNext, PTL DEF Spec
  <1>2. TypeInv /\ TypeInv' /\ RunNumbersUnique /\ PlainInv /\ [Next]_vars => PlainInv'
    BY PlainNext
  <1> QED BY <1>1, <1>2, PlainInit, RunsHaveTheirNumbers, PTL DEF Spec

\* A tree whose caller deletes nothing implements KvStore without exception:
\* whatever number of merges into the bottom level, rollbacks to snapshots that
\* still hold their inputs, and discarded write-backs (compaction.rs:385-417).
\* KvStore's Open is Adopt where merges that failed have left whole runs.
THEOREM PlainTreeImplementsKvStore ==
  SoloCompactor /\ "flush" \notin Faults /\ PlainCaller
    => (Spec => ImplementsKvStore /\ KV!Spec)
PROOF
  <1> SUFFICES ASSUME SoloCompactor, "flush" \notin Faults, PlainCaller
               PROVE  Spec => ImplementsKvStore /\ KV!Spec
    OBVIOUS
  <1>1. Spec => []TypeInv
    BY TypeInit, TypeNext, PTL DEF Spec
  <1>2. TypeInv /\ TypeInv' /\ JobInv /\ [Next]_vars => JobInv'
    BY JobNext
  <1>3. Spec => []JobInv
    BY <1>1, <1>2, JobInit, PTL DEF Spec
  <1>4. TypeInv /\ TypeInv' /\ JobInv /\ ContentInv /\ [Next]_vars => ContentInv'
    BY ContentNext
  <1>5. Spec => []ContentInv
    BY <1>1, <1>3, <1>4, ContentInit, PTL DEF Spec
  <1>6. TypeInv /\ RunNumbersUnique /\ JobInv /\ ContentInv /\ PlainInv => ~ ForgetsTombstones
    BY NothingForgotten
  <1>7. Spec => [][~ ForgetsTombstones]_vars
    BY <1>1, <1>3, <1>5, <1>6, PlainAlways, RunsHaveTheirNumbers, PTL
  <1>8. Spec /\ [][~ ForgetsTombstones]_vars => ImplementsKvStore
    BY TreeImplementsKvStore
  <1> QED BY <1>7, <1>8, CallByCallRefines, PTL

---------------------------------------------------------------------------
(* get and range.                                                          *)

\* Ascending, but for one run that may be there more than once.
Rising(s) == \A i, j \in DOMAIN s : i < j => s[i].num < s[j].num \/ s[i] = s[j]

LEMMA AscendsRising ==
  ASSUME NEW s \in Seq(Run), NEW F, IsFiniteSet(F), Ascends(s, F),
         Cardinality(F \intersect RunSet(s)) <= 1
  PROVE  Rising(s)
PROOF
  <1> DEFINE G == F \intersect RunSet(s)
  <1>1. IsFiniteSet(G)
    BY FS_Subset
  <1>2. Cardinality(G) \in Nat /\ Cardinality(G) <= 1
    BY <1>1, FS_CardinalityType
  <1>3. \A a, b \in G : a = b
    <2> HIDE DEF G
    <2>1. Cardinality(G) = 0 \/ Cardinality(G) = 1
      BY <1>2
    <2> QED BY <1>1, <2>1, FS_EmptySet, FS_Singleton
  <1>4. \A i \in DOMAIN s : s[i] \in RunSet(s)
    BY DEF RunSet
  <1> QED BY <1>3, <1>4 DEF Ascends, Rising

\* Over rising levels without tombstones, the backwards walk that stops at
\* the first value and the merge by run number find the same entry.
LEMMA GetIsRange ==
  ASSUME NEW lv \in LevelMap, RankedLevels(lv), \A l \in Levels : Rising(lv[l]),
         \A r \in AllRuns(lv) : Plain(r.data), NEW k \in Keys
  PROVE  GetEntry(lv, k) = RangeEntry(lv, k)
PROOF
  <1> DEFINE H == Hits(lv, k)
             top == CHOOSE p \in H : \A q \in H :
                      p[1] < q[1] \/ (p[1] = q[1] /\ p[2] >= q[2])
  <1>1. \A l \in Levels : /\ lv[l] \in Seq(Run) /\ DOMAIN lv[l] \subseteq Nat
                          /\ l \in Nat
    BY LevelAssumption, LenProperties DEF LevelMap, Levels
  <1>2. \A l \in Levels : \A i \in DOMAIN lv[l] :
          /\ lv[l][i] \in RunSet(lv[l])
          /\ lv[l][i].data[k] \in Values <=> lv[l][i].data[k] # Absent
    <2> SUFFICES ASSUME NEW l \in Levels, NEW i \in DOMAIN lv[l]
                 PROVE  /\ lv[l][i] \in RunSet(lv[l])
                        /\ lv[l][i].data[k] \in Values <=> lv[l][i].data[k] # Absent
      OBVIOUS
    <2>1. lv[l][i] \in RunSet(lv[l])
      BY DEF RunSet
    <2>2. lv[l][i] \in Run /\ lv[l][i] \in AllRuns(lv)
      BY <2>1, LevelRuns DEF LevelMap
    <2>3. lv[l][i].data[k] \in Values \union {Tombstone, Absent}
          /\ lv[l][i].data[k] # Tombstone
      BY <2>2 DEF Run, Data, Plain
    <2> QED BY <2>1, <2>3, DataAssumption
  <1>3. \A p : p \in H <=> \E l \in Levels : \E i \in DOMAIN lv[l] :
                             p = <<l, i>> /\ lv[l][i].data[k] # Absent
    BY <1>2 DEF Hits
  <1>4. GetEntry(lv, k) = IF H = {} THEN Absent ELSE lv[top[1]][top[2]].data[k]
    BY DEF GetEntry
  <1> HIDE DEF H
  <1>5. CASE \A l \in Levels : LevelEntry(lv, l, k) = Absent
    <2>1. \A l \in Levels : \A i \in DOMAIN lv[l] : lv[l][i].data[k] = Absent
      BY <1>2, <1>5, LevelHit
    <2>2. H = {}
      BY <1>3, <2>1
    <2> QED BY <1>4, <1>5, <2>2, RangeNone
  <1>6. CASE ~ \A l \in Levels : LevelEntry(lv, l, k) = Absent
    <2>1. PICK l \in Levels : /\ LevelEntry(lv, l, k) # Absent
                              /\ \A n \in Levels : n < l => LevelEntry(lv, n, k) = Absent
                              /\ RangeEntry(lv, k) = LevelEntry(lv, l, k)
      BY <1>6, RangeCases
    <2>2. PICK r \in RunSet(lv[l]) :
                 /\ r.data[k] # Absent
                 /\ \A q \in RunSet(lv[l]) : q.data[k] # Absent => q.num <= r.num
                 /\ LevelEntry(lv, l, k) = r.data[k]
      BY <2>1, NewestCases DEF LevelEntry, RankedLevels
    <2>3. PICK i \in DOMAIN lv[l] : r = lv[l][i] /\ \A h \in DOMAIN lv[l] : r = lv[l][h] => h <= i
      <3> DEFINE S == {h \in DOMAIN lv[l] : r = lv[l][h]}
      <3>1. /\ DOMAIN lv[l] = 1 .. Len(lv[l]) /\ Len(lv[l]) \in Nat
            /\ \E h \in DOMAIN lv[l] : r = lv[l][h]
        BY <1>1, LenProperties DEF RunSet
      <3>2. S \subseteq Nat /\ S # {} /\ Len(lv[l]) + 1 \in Nat /\ \A h \in S : h < Len(lv[l]) + 1
        BY <3>1
      <3> HIDE DEF S
      <3>3. \E m \in S : \A h \in S : h <= m
        BY <3>2, BoundedMax
      <3> QED BY <3>3 DEF S
    <2>4. <<l, i>> \in H
      BY <1>3, <2>2, <2>3
    <2>5. ASSUME NEW q \in H
          PROVE  l < q[1] \/ (l = q[1] /\ i >= q[2])
      <3>0. PICK n \in Levels : \E h \in DOMAIN lv[n] : q = <<n, h>> /\ lv[n][h].data[k] # Absent
        BY <1>3
      <3>1. PICK h \in DOMAIN lv[n] : q = <<n, h>> /\ lv[n][h].data[k] # Absent
        BY <3>0
      <3>2. q[1] = n /\ q[2] = h
        BY <3>1
      <3>3. LevelEntry(lv, n, k) # Absent
        BY <1>2, <3>1, LevelHit
      <3>4. ~ (n < l)
        BY <2>1, <3>3
      <3>5. CASE n = l
        <4>1. lv[l][h].num <= lv[l][i].num
          BY <1>2, <2>2, <2>3, <3>1, <3>5
        <4>2. lv[l][h].num \in Nat /\ lv[l][i].num \in Nat
          <5>1. lv[l][h] \in Run /\ lv[l][i] \in Run
            BY <1>1, <3>1, <3>5, ElementOfSeq, LenProperties
          <5> QED BY <5>1 DEF Run
        <4>3. ~ (i < h)
          <5> SUFFICES ASSUME i < h PROVE FALSE
            OBVIOUS
          <5>1. lv[l][i].num < lv[l][h].num \/ lv[l][i] = lv[l][h]
            BY <2>3, <3>1, <3>5 DEF Rising
          <5>2. lv[l][i] = lv[l][h]
            BY <4>1, <4>2, <5>1
          <5>3. h <= i
            BY <2>3, <3>1, <3>5, <5>2
          <5>4. i \in Nat /\ h \in Nat
            BY <1>1, <3>1
          <5> QED BY <5>3, <5>4
        <4>4. i \in Nat /\ h \in Nat
          BY <1>1, <3>1
        <4> QED BY <3>2, <3>5, <4>3, <4>4
      <3>6. CASE n # l
        BY <1>1, <3>2, <3>4, <3>6
      <3> QED BY <3>5, <3>6
    <2>6. top \in H /\ \A q \in H : top[1] < q[1] \/ (top[1] = q[1] /\ top[2] >= q[2])
      <3>1. \E p \in H : \A q \in H : p[1] < q[1] \/ (p[1] = q[1] /\ p[2] >= q[2])
        <4>1. <<l, i>>[1] = l /\ <<l, i>>[2] = i
          OBVIOUS
        <4> QED BY <2>4, <2>5, <4>1
      <3> QED BY <3>1
    <2> HIDE DEF top
    <2>t. PICK n \in Levels : \E h \in DOMAIN lv[n] : top = <<n, h>>
      BY <1>3, <2>6
    <2>7. PICK h \in DOMAIN lv[n] : top = <<n, h>>
      BY <2>t
    <2>8. n = l /\ h = i
      <3>1. n \in Nat /\ l \in Nat /\ h \in Nat /\ i \in Nat
        BY <1>1, <2>3, <2>7
      <3>2. top[1] = n /\ top[2] = h /\ <<l, i>>[1] = l /\ <<l, i>>[2] = i
        BY <2>7
      <3>3. n < l \/ (n = l /\ h >= i)
        BY <2>4, <2>6, <3>2
      <3>4. l < n \/ (l = n /\ i >= h)
        BY <2>5, <2>6, <3>2
      <3> QED BY <3>1, <3>3, <3>4
    <2>9. lv[top[1]][top[2]] = r
      BY <2>3, <2>7, <2>8
    <2> QED BY <1>4, <2>1, <2>2, <2>4, <2>9
  <1> QED BY <1>5, <1>6

\* get and range agree at all times in a tree whose caller deletes nothing and
\* leaves compaction to the background thread: the order of the Vecs that get
\* walks is the order of the run numbers that range sorts by
\* (lib.rs:873-888, 995-1017).  Excepted is a session that has found two runs
\* of failed merges or more, which open orders by their smallest keys
\* (lib.rs:575-578).
THEOREM GetAndRangeAgree ==
  SoloCompactor /\ PlainCaller => (Spec => []GetAgreesWithRange)
PROOF
  <1> SUFFICES ASSUME SoloCompactor, PlainCaller PROVE Spec => []GetAgreesWithRange
    OBVIOUS
  <1>1. Spec => []TypeInv
    BY TypeInit, TypeNext, PTL DEF Spec
  <1>2. TypeInv /\ TypeInv' /\ JobInv /\ [Next]_vars => JobInv'
    BY JobNext
  <1>3. Spec => []JobInv
    BY <1>1, <1>2, JobInit, PTL DEF Spec
  <1>4. TypeInv /\ TypeInv' /\ JobInv /\ AscInv /\ [Next]_vars => AscInv'
    BY AscNext
  <1>5. Spec => []AscInv
    BY <1>1, <1>3, <1>4, AscInit, PTL DEF Spec
  <1>6. TypeInv /\ RunNumbersUnique /\ AscInv /\ PlainInv => GetAgreesWithRange
    <2> SUFFICES ASSUME TypeInv, RunNumbersUnique, AscInv, PlainInv,
                        \A l \in Levels : Cardinality(found \intersect RunSet(levels[l])) <= 1
                 PROVE  Answers(memtable, levels) = Contents(memtable, levels)
      BY DEF GetAgreesWithRange
    <2>1. levels \in LevelMap /\ RankedLevels(levels) /\ \A l \in Levels : Rising(levels[l])
      <3>1. \A l \in Levels : levels[l] \in Seq(Run) /\ Ascends(levels[l], found)
        BY DEF TypeInv, TypeOK, LevelMap, AscInv
      <3>2. \A l \in Levels : Rising(levels[l])
        BY <3>1, AscendsRising DEF TypeInv, LeftInv
      <3> QED BY <3>2, RankedHeld DEF TypeInv, TypeOK
    <2>2. \A r \in AllRuns(levels) : Plain(r.data)
      BY HeldParts DEF PlainInv, Files
    <2>3. \A k \in Keys : GetEntry(levels, k) = RangeEntry(levels, k)
      BY <2>1, <2>2, GetIsRange
    <2>4. GetData(levels) = RangeData(levels)
      BY <2>3 DEF GetData, RangeData
    <2> QED BY <2>4 DEF Answers, Contents
  <1> QED BY <1>1, <1>5, <1>6, PlainAlways, RunsHaveTheirNumbers, PTL
=============================================================================
