------------------------- MODULE LsmSessionsProofs -------------------------
(* Theorems about LsmSessions: what a session starts with, whichever way   *)
(* it starts, and that sessions implement KvStore with its named copies.   *)
EXTENDS LsmSessions, LsmContentsProofs

---------------------------------------------------------------------------
(* The first state of a session.                                           *)

\* Runs with at least one entry: only those are written.
Filled(R) == \A r \in R : Present(r.data) # {}

\* The runs whose files are there have a bound and a number each.
LEMMA FilesRanked ==
  ASSUME TypeInv, RunNumbersUnique, pc["user"] # "closed"
  PROVE  Ranked(Files)
PROOF
  <1>1. next_run_number \in Nat
    BY DEF TypeInv, TypeOK
  <1>2. Files \subseteq Run /\ \A r \in Files : r.num < next_run_number
    BY HeldBelow DEF RunsBelow
  <1> QED BY <1>1, <1>2 DEF Ranked, RunNumbersUnique, Files

\* The highest number of a set of runs.
LEMMA MaxNumTop ==
  ASSUME NEW R, Ranked(R)
  PROVE  /\ MaxNum(R) \in Nat
         /\ R \subseteq RunsBelow(MaxNum(R) + 1)
         /\ \A n \in Nat : R \subseteq RunsBelow(n) /\ n > 0 => MaxNum(R) < n
PROOF
  <1> DEFINE S == {0} \union {r.num : r \in R}
  <1>1. PICK n \in Nat : \A r \in R : r.num < n
    BY DEF Ranked
  <1>2. S \subseteq Nat /\ S # {} /\ n + 1 \in Nat /\ \A x \in S : x < n + 1
    BY <1>1 DEF Ranked, Run
  <1>3. MaxNum(R) = Max(S)
    BY DEF MaxNum
  <1>4. \A r \in R : r \in Run /\ r.num \in Nat /\ r.num \in S
    BY DEF Ranked, Run
  <1>5. \A x \in S : x = 0 \/ \E r \in R : x = r.num
    OBVIOUS
  <1> HIDE DEF S
  <1>6. MaxNum(R) \in S /\ MaxNum(R) \in Nat /\ \A x \in S : x <= MaxNum(R)
    BY <1>2, <1>3, MaxIs
  <1>7. \A r \in R : r.num < MaxNum(R) + 1
    BY <1>4, <1>6
  <1>8. ASSUME NEW m \in Nat, R \subseteq RunsBelow(m), m > 0 PROVE MaxNum(R) < m
    BY <1>5, <1>6, <1>8 DEF RunsBelow
  <1> QED BY <1>4, <1>6, <1>7, <1>8 DEF RunsBelow

\* Sets of runs that their numbers tell apart are finite.
LEMMA RankedFinite ==
  ASSUME NEW R, Ranked(R)
  PROVE  IsFiniteSet(R)
PROOF
  <1> DEFINE S == {r.num : r \in R}
             f == [r \in R |-> r.num]
  <1>1. PICK n \in Nat : \A r \in R : r.num < n
    BY DEF Ranked
  <1>2. S \in SUBSET Nat /\ \A x \in S : x <= n
    BY <1>1 DEF Ranked, Run
  <1>3. IsFiniteSet(S)
    <2> HIDE DEF S
    <2> QED BY <1>2, FS_BoundedSetOfNaturals
  <1>4. f \in [R -> S] /\ \A r, q \in R : f[r] = f[q] => r = q
    BY DEF Ranked
  <1>5. f \in Injection(R, S)
    <2> HIDE DEF f, S
    <2> QED BY <1>4, Fun_IsInj
  <1> HIDE DEF f, S
  <1> QED BY <1>3, <1>5, FS_Injection

---------------------------------------------------------------------------
(* Opening a saved snapshot: each level is a sort of the runs whose level  *)
(* field names it, so it holds these runs and no others.                   *)

LEMMA PlaceIn ==
  ASSUME NEW lv \in LevelMap, NEW l, NEW p
  PROVE  p \in Places(lv, l) <=>
           \E m \in Levels : \E i \in DOMAIN lv[m] : p = <<m, i>> /\ lv[m][i].level = l
PROOF BY DEF Places

LEMMA PlaceType ==
  ASSUME NEW lv \in LevelMap, NEW l, NEW p \in Places(lv, l)
  PROVE  /\ p[1] \in Levels /\ p[1] \in Nat
         /\ p[2] \in DOMAIN lv[p[1]] /\ p[2] \in Nat
         /\ p = <<p[1], p[2]>>
         /\ At(lv, p) \in RunSet(lv[p[1]]) /\ At(lv, p) \in AllRuns(lv) /\ At(lv, p) \in Run
         /\ At(lv, p).level = l
PROOF
  <1>1. PICK m \in Levels : \E i \in DOMAIN lv[m] : p = <<m, i>> /\ lv[m][i].level = l
    BY PlaceIn
  <1>2. PICK i \in DOMAIN lv[m] : p = <<m, i>> /\ lv[m][i].level = l
    BY <1>1
  <1>3. lv[m] \in Seq(Run) /\ m \in Nat
    BY LevelAssumption DEF LevelMap, Levels
  <1>4. i \in Nat /\ lv[m][i] \in Run
    <2>1. DOMAIN lv[m] = 1 .. Len(lv[m]) /\ Len(lv[m]) \in Nat
      BY <1>3, LenProperties
    <2> QED BY <1>3, <2>1, ElementOfSeq
  <1>5. lv[m][i] \in RunSet(lv[m]) /\ lv[m][i] \in AllRuns(lv)
    BY DEF RunSet, AllRuns
  <1>6. p[1] = m /\ p[2] = i /\ At(lv, p) = lv[m][i]
    BY <1>2 DEF At
  <1> QED BY <1>2, <1>3, <1>4, <1>5, <1>6

LEMMA PlacesFinite ==
  ASSUME NEW lv \in LevelMap, NEW l
  PROVE  IsFiniteSet(Places(lv, l))
PROOF
  <1> DEFINE Of(m) == {<<m, i>> : i \in {j \in DOMAIN lv[m] : lv[m][j].level = l}}
             f == [m \in Levels |-> Of(m)]
             T == {Of(m) : m \in Levels}
  <1>1. ASSUME NEW m \in Levels PROVE IsFiniteSet(Of(m))
    <2>1. DOMAIN lv[m] = 1 .. Len(lv[m]) /\ Len(lv[m]) \in Nat
      BY LenProperties DEF LevelMap
    <2>2. IsFiniteSet({m}) /\ IsFiniteSet(DOMAIN lv[m])
      <3>1. 1 \in Int /\ Len(lv[m]) \in Int
        BY <2>1
      <3>2. IsFiniteSet(1 .. Len(lv[m]))
        BY <3>1, FS_Interval
      <3> QED BY <2>1, <3>2, FS_Singleton
    <2>3. IsFiniteSet({m} \X DOMAIN lv[m])
      BY <2>2, FS_Product
    <2>4. Of(m) \in SUBSET ({m} \X DOMAIN lv[m])
      OBVIOUS
    <2> HIDE DEF Of
    <2> QED BY <2>3, <2>4, FS_Subset
  <1>2. f \in [Levels -> T] /\ \A t \in T : \E m \in Levels : f[m] = t
    OBVIOUS
  <1>3. IsFiniteSet(Levels)
    BY LevelAssumption, FS_Interval DEF Levels
  <1>4. Places(lv, l) = UNION T
    BY DEF Places
  <1>5. \A t \in T : IsFiniteSet(t)
    BY <1>1
  <1> HIDE DEF f, T
  <1>6. f \in Surjection(Levels, T)
    BY <1>2, Fun_IsSurj
  <1>7. IsFiniteSet(T)
    BY <1>3, <1>6, FS_Surjection
  <1> QED BY <1>4, <1>5, <1>7, FS_UNION

LEMMA MinKeyType ==
  ASSUME NEW r, Present(r.data) # {}
  PROVE  MinKey(r) \in Nat
PROOF
  <1>1. Present(r.data) \subseteq Nat
    BY SessionAssumption DEF Present
  <1>2. \E m \in Present(r.data) : \A x \in Present(r.data) : m <= x
    BY <1>1, LeastNumber
  <1>3. MinKey(r) \in Present(r.data)
    BY <1>2 DEF MinKey, Min
  <1> QED BY <1>1, <1>3

\* sort_by puts two places in the same order as everyone else does.
LEMMA SortsBeforeOrder ==
  ASSUME NEW lv \in LevelMap, Filled(AllRuns(lv)), NEW l,
         NEW p \in Places(lv, l), NEW q \in Places(lv, l)
  PROVE  /\ ~ SortsBefore(lv, p, p)
         /\ p # q => SortsBefore(lv, p, q) \/ SortsBefore(lv, q, p)
         /\ \A x \in Places(lv, l) :
              SortsBefore(lv, p, q) /\ SortsBefore(lv, q, x) => SortsBefore(lv, p, x)
PROOF
  <1>1. \A x \in Places(lv, l) : /\ MinKey(At(lv, x)) \in Nat
                                 /\ x[1] \in Nat /\ x[2] \in Nat
    BY PlaceType, MinKeyType DEF Filled
  <1>2. ~ SortsBefore(lv, p, p)
    BY <1>1 DEF SortsBefore
  <1>3. p = <<p[1], p[2]>> /\ q = <<q[1], q[2]>>
    BY PlaceType
  <1>4. ASSUME p # q PROVE SortsBefore(lv, p, q) \/ SortsBefore(lv, q, p)
    <2>1. p[1] # q[1] \/ p[2] # q[2]
      BY <1>3, <1>4
    <2> QED BY <1>1, <2>1 DEF SortsBefore
  <1>5. ASSUME NEW x \in Places(lv, l), SortsBefore(lv, p, q), SortsBefore(lv, q, x)
        PROVE  SortsBefore(lv, p, x)
    BY <1>1, <1>5 DEF SortsBefore
  <1> QED BY <1>2, <1>4, <1>5

\* Every index of the sorted Vec is that of one place.
LEMMA SortedIndexIsOrder ==
  ASSUME NEW lv \in LevelMap, Filled(AllRuns(lv)), NEW l
  PROVE  LET n == Cardinality(Places(lv, l))
         IN  /\ n \in Nat
             /\ \A p \in Places(lv, l) : SortedIndex(lv, l, p) \in 1 .. n
             /\ \A p, q \in Places(lv, l) :
                  SortedIndex(lv, l, p) = SortedIndex(lv, l, q) => p = q
             /\ \A i \in 1 .. n : \E p \in Places(lv, l) : SortedIndex(lv, l, p) = i
PROOF
  <1> DEFINE P == Places(lv, l)
             n == Cardinality(P)
             UpTo(p) == {q \in P : ~ SortsBefore(lv, p, q)}
             f == [p \in P |-> SortedIndex(lv, l, p)]
  <1>1. IsFiniteSet(P) /\ n \in Nat
    BY PlacesFinite, FS_CardinalityType
  <1>2. \A p \in P : SortedIndex(lv, l, p) = Cardinality(UpTo(p))
    BY DEF SortedIndex
  <1>3. ASSUME NEW p \in P
        PROVE  /\ p \in UpTo(p) /\ IsFiniteSet(UpTo(p))
               /\ Cardinality(UpTo(p)) \in 1 .. n
    <2>1. p \in UpTo(p) /\ UpTo(p) \in SUBSET P
      BY SortsBeforeOrder
    <2> HIDE DEF UpTo, P
    <2>2. IsFiniteSet(UpTo(p)) /\ Cardinality(UpTo(p)) <= n
      BY <1>1, <2>1, FS_Subset
    <2>3. Cardinality(UpTo(p)) \in Nat /\ Cardinality(UpTo(p)) # 0
      BY <2>1, <2>2, FS_CardinalityType, FS_EmptySet
    <2> QED BY <1>1, <2>1, <2>2, <2>3
  <1>4. ASSUME NEW p \in P, NEW q \in P, SortsBefore(lv, p, q)
        PROVE  Cardinality(UpTo(p)) # Cardinality(UpTo(q))
    <2>1. UpTo(p) \in SUBSET UpTo(q)
      BY <1>4, SortsBeforeOrder
    <2>2. q \in UpTo(q) /\ q \notin UpTo(p)
      BY <1>3, <1>4
    <2>3. IsFiniteSet(UpTo(q))
      BY <1>3
    <2> HIDE DEF UpTo
    <2> QED BY <2>1, <2>2, <2>3, FS_Subset
  <1>5. \A p, q \in P : SortedIndex(lv, l, p) = SortedIndex(lv, l, q) => p = q
    <2> SUFFICES ASSUME NEW p \in P, NEW q \in P,
                        SortedIndex(lv, l, p) = SortedIndex(lv, l, q), p # q
                 PROVE  FALSE
      OBVIOUS
    <2>1. Cardinality(UpTo(p)) = Cardinality(UpTo(q))
      BY <1>2
    <2>2. SortsBefore(lv, p, q) \/ SortsBefore(lv, q, p)
      BY SortsBeforeOrder
    <2> HIDE DEF UpTo, P
    <2> QED BY <1>4, <2>1, <2>2
  <1>6. f \in [P -> 1 .. n] /\ \A p, q \in P : f[p] = f[q] => p = q
    BY <1>2, <1>3, <1>5
  <1>7. \A i \in 1 .. n : \E p \in P : f[p] = i
    <2> HIDE DEF f, P
    <2>1. f \in Injection(P, 1 .. n)
      BY <1>6, Fun_IsInj
    <2>2. IsFiniteSet(1 .. n) /\ Cardinality(1 .. n) = n
      BY <1>1, FS_Interval
    <2>3. f \in Surjection(P, 1 .. n)
      BY <2>1, <2>2, FS_Injection
    <2> QED BY <2>3, Fun_SurjectionProperties
  <1> QED BY <1>1, <1>2, <1>3, <1>5, <1>7

LEMMA RestoredType ==
  ASSUME NEW lv \in LevelMap, Filled(AllRuns(lv)), NEW l
  PROVE  /\ RestoredLevel(lv, l) \in Seq(Run)
         /\ RunSet(RestoredLevel(lv, l)) = {r \in AllRuns(lv) : r.level = l}
PROOF
  <1> DEFINE P == Places(lv, l)
             n == Cardinality(P)
             here(i) == CHOOSE p \in P : SortedIndex(lv, l, p) = i
             s == RestoredLevel(lv, l)
  <1>1. n \in Nat /\ \A i \in 1 .. n : here(i) \in P /\ SortedIndex(lv, l, here(i)) = i
    BY SortedIndexIsOrder
  <1>2. \A p \in P : SortedIndex(lv, l, p) \in 1 .. n /\ here(SortedIndex(lv, l, p)) = p
    BY SortedIndexIsOrder
  <1>3. s = [i \in 1 .. n |-> At(lv, here(i))]
    BY DEF RestoredLevel
  <1> HIDE DEF s, n, here, P
  <1>4. \A p \in P : At(lv, p) \in Run /\ At(lv, p) \in AllRuns(lv) /\ At(lv, p).level = l
    BY PlaceType DEF P
  <1>5. s \in Seq(Run)
    <2>1. \A i \in 1 .. n : At(lv, here(i)) \in Run
      BY <1>1, <1>4
    <2> QED BY <1>1, <1>3, <2>1, SeqDef
  <1>6. RunSet(s) \subseteq {r \in AllRuns(lv) : r.level = l}
    BY <1>1, <1>3, <1>4 DEF RunSet
  <1>7. ASSUME NEW r \in AllRuns(lv), r.level = l PROVE r \in RunSet(s)
    <2>1. PICK m \in Levels : \E i \in DOMAIN lv[m] : r = lv[m][i]
      BY DEF AllRuns, RunSet
    <2>2. PICK i \in DOMAIN lv[m] : r = lv[m][i]
      BY <2>1
    <2>3. <<m, i>> \in P /\ At(lv, <<m, i>>) = r
      BY <1>7, <2>2, PlaceIn DEF At, P
    <2>4. PICK j \in 1 .. n : here(j) = <<m, i>>
      BY <1>2, <2>3
    <2> QED BY <1>3, <2>3, <2>4 DEF RunSet
  <1> QED BY <1>5, <1>6, <1>7 DEF s

\* The restored tree has the saved runs and no others.
LEMMA RestoredRuns ==
  ASSUME NEW lv \in LevelMap, Filled(AllRuns(lv))
  PROVE  RestoredLevels(lv) \in LevelMap /\ AllRuns(RestoredLevels(lv)) = AllRuns(lv)
PROOF
  <1>1. \A l \in Levels : /\ RestoredLevels(lv)[l] \in Seq(Run)
                          /\ RunSet(RestoredLevels(lv)[l]) = {r \in AllRuns(lv) : r.level = l}
    BY RestoredType DEF RestoredLevels
  <1>2. AllRuns(lv) \subseteq Run
    <2>1. 0 \in Levels
      BY LevelAssumption DEF Levels
    <2> QED BY <2>1, LevelRuns DEF LevelMap
  <1>3. RestoredLevels(lv) \in LevelMap
    BY <1>1 DEF RestoredLevels, LevelMap
  <1>4. \A r \in AllRuns(lv) : r.level \in Levels
    BY <1>2 DEF Run
  <1>5. AllRuns(RestoredLevels(lv)) = AllRuns(lv)
    BY <1>1, <1>4 DEF AllRuns
  <1> QED BY <1>3, <1>5

---------------------------------------------------------------------------
(* Every session starts from runs that are whole, filled and told apart by *)
(* their numbers, and counts on from above them.                           *)

Saveable(lv) == Ranked(AllRuns(lv)) /\ Filled(AllRuns(lv))

SavedInv ==
  /\ saved \in [Names -> LevelMap \union {None}]
  /\ \A n \in Names : saved[n] # None => Saveable(saved[n])

SessionInv ==
  /\ TypeInv
  /\ RunNumbersUnique
  /\ Filled(Files)
  /\ SavedInv

LEMMA UnfinishedHeld == Unfinished \subseteq HeldRuns
PROOF BY HeldParts DEF Unfinished

\* What a crash leaves was there before it, and counts below the counter.
LEMMA CrashLeaves ==
  ASSUME TypeInv, RunNumbersUnique, Crash
  PROVE  /\ left'.runs \subseteq Files /\ Ranked(left'.runs)
         /\ next_run_number \in Nat /\ LeftBelow(left', next_run_number)
PROOF
  <1>0. /\ next_run_number \in Nat /\ left.torn \in Nat
        /\ pc["user"] # "closed" /\ Files \subseteq RunsBelow(next_run_number)
    BY HeldBelow DEF TypeInv, TypeOK, Crash
  <1>1. PICK done \in SUBSET Unfinished : \E begun \in SUBSET (Unfinished \ done) :
          left' = [runs |-> left.runs \union (HeldRuns \ Unfinished) \union done,
                   torn |-> Max({left.torn} \union {r.num : r \in begun})]
    BY DEF Crash
  <1>10. PICK begun \in SUBSET (Unfinished \ done) :
           left' = [runs |-> left.runs \union (HeldRuns \ Unfinished) \union done,
                    torn |-> Max({left.torn} \union {r.num : r \in begun})]
    BY <1>1
  <1> DEFINE S == {left.torn} \union {r.num : r \in begun}
  <1>2. left'.runs \subseteq Files /\ left'.torn = Max(S)
    BY <1>10, UnfinishedHeld DEF Files
  <1>3. \A r \in begun : r.num \in Nat /\ r.num < next_run_number
    BY <1>0, UnfinishedHeld DEF Files, RunsBelow, Run
  <1>4. Max(S) \in Nat
    <2> DEFINE n == next_run_number + left.torn + 1
    <2>1. S \subseteq Nat /\ S # {} /\ n \in Nat /\ \A x \in S : x < n
      BY <1>0, <1>3
    <2> HIDE DEF S, n
    <2> QED BY <2>1, MaxIs
  <1> HIDE DEF S
  <1>5. Ranked(left'.runs)
    BY <1>0, <1>2, FilesRanked, RankedSubset
  <1>6. left'.runs \subseteq RunsBelow(next_run_number)
    BY <1>0, <1>2
  <1>7. left' \in [runs : SUBSET Run, torn : Nat]
    <2>1. left'.runs \in SUBSET Run
      BY <1>6 DEF RunsBelow
    <2> QED BY <1>2, <1>4, <1>10, <2>1
  <1> QED BY <1>0, <1>2, <1>5, <1>6, <1>7, RankedFinite DEF LeftBelow

LEMMA NothingLeftType ==
  /\ NothingLeft.runs = {} /\ Ranked({}) /\ Filled({})
  /\ \A n \in Nat : LeftBelow(NothingLeft, n)
PROOF BY FS_EmptySet DEF NothingLeft, Ranked, Filled, LeftBelow, RunsBelow

LEMMA SessionInit == SInit => SessionInv
PROOF
  <1> SUFFICES ASSUME SInit PROVE SessionInv
    OBVIOUS
  <1>1. TypeInv /\ RunNumbersUnique
    BY TypeInit, UniqueInit DEF SInit
  <1>2. Filled(Files)
    <2>1. Files = {}
      BY NoRunsType, NoJobType DEF SInit, Init, Files, HeldRuns, Threads, NothingLeft
    <2> QED BY <2>1 DEF Filled
  <1>3. SavedInv
    BY DEF SInit, SavedInv
  <1> QED BY <1>1, <1>2, <1>3 DEF SessionInv

\* A session that starts from filled runs with numbers of their own, or ends.
LEMMA SessionStarts ==
  ASSUME NEW lv \in LevelMap, NEW n \in Nat, AllRuns(lv) \subseteq RunsBelow(n),
         NEW m \in Nat, LeftBelow(left', m),
         (StartSession(lv, n) /\ m = n) \/ (NoSession /\ lv = NoRuns /\ n = 1),
         NEW R, R = AllRuns(lv) \union left'.runs, Ranked(R), Filled(R)
  PROVE  TypeInv' /\ RunNumbersUnique' /\ Filled(Files)' /\ Files' = R
PROOF
  <1>0. IsFiniteSet(AllRuns(lv))
    BY RankedSubset, RankedFinite
  <1>1. ASSUME NEW p \in [Threads -> UserPc \union BgPc],
               p["user"] = "idle" \/ (p["user"] = "closed" /\ p["bg"] = "exit"),
               Session(lv, n, p), p["user"] = "idle" => m = n
        PROVE  TypeInv' /\ HeldRuns' = AllRuns(lv)
    BY <1>0, <1>1, SessionType
  <1>2. TypeInv' /\ HeldRuns' = AllRuns(lv)
    BY <1>1 DEF StartSession, NoSession, ThreadsAt, Threads, UserPc, BgPc
  <1>3. Files' = R
    BY <1>2 DEF Files
  <1> QED BY <1>2, <1>3 DEF RunNumbersUnique, Ranked, Filled, Files

\* open is one of the tree's, with an order of its own.
LEMMA OpenIsOpen ==
  ASSUME OpenActive
  PROVE  /\ Open /\ UNCHANGED saved
         /\ \E s \in Orders(Openable) : OpenAs(s)
PROOF BY DEF OpenActive, ByMinKey, Open

LEMMA SessionNext ==
  ASSUME SessionInv, [SNext]_svars
  PROVE  SessionInv'
PROOF
  <1>0. TypeInv /\ RunNumbersUnique /\ Filled(Files) /\ SavedInv
    BY DEF SessionInv
  <1>1. ASSUME [Next]_vars PROVE TypeInv' /\ RunNumbersUnique' /\ Filled(Files)'
    <2>1. TypeInv' /\ RunNumbersUnique'
      BY <1>0, <1>1, TypeNext, UniqueNext
    <2>2. \A r : NewRun(r) => Present(r.data) # {}
      BY DEF NewRun
    <2>3. Filled(Relevelled(left.runs))
      <3>1. \A q \in Relevelled(left.runs) : \E r \in left.runs : q.data = r.data
        BY <1>0, RelevelledIs DEF TypeInv, TypeOK
      <3> QED BY <1>0, <3>1 DEF Filled, Files
    <2>4. Filled(Files)'
      BY <1>0, <1>1, <2>2, <2>3, HeldNext DEF HeldStep, Filled, Files
    <2> QED BY <2>1, <2>4
  <1>2. UNCHANGED saved => SavedInv'
    BY <1>0 DEF SavedInv
  <1>3. CASE \/ (User \/ Background) /\ UNCHANGED saved
             \/ UNCHANGED svars
             \/ OpenActive
    <2>1. [Next]_vars /\ UNCHANGED saved
      BY <1>3, OpenIsOpen DEF Next, svars
    <2> QED BY <1>1, <1>2, <2>1 DEF SessionInv
  <1>4. ASSUME NEW n \in Names, SaveLink(n) PROVE SessionInv'
    <2>1. TypeInv' /\ RunNumbersUnique' /\ Filled(Files)'
      BY <1>1, <1>4 DEF SaveLink, Next
    <2>2. levels \in LevelMap /\ Saveable(levels)
      <3>1. AllRuns(levels) \subseteq Files /\ Ranked(Files)
        BY <1>0, <1>4, HeldParts, FilesRanked DEF SaveLink, Link, Files
      <3>2. Ranked(AllRuns(levels)) /\ Filled(AllRuns(levels))
        BY <1>0, <3>1, RankedSubset DEF Filled
      <3> QED BY <1>0, <3>2 DEF Saveable, TypeInv, TypeOK
    <2>3. SavedInv'
      BY <1>0, <1>4, <2>2 DEF SaveLink, SavedInv
    <2> QED BY <2>1, <2>3 DEF SessionInv
  <1>5. ASSUME NEW n \in Names, DeleteSnapshot(n) PROVE SessionInv'
    <2>1. TypeInv' /\ RunNumbersUnique' /\ Filled(Files)'
      BY <1>1, <1>5 DEF DeleteSnapshot
    <2>2. SavedInv'
      BY <1>0, <1>5 DEF DeleteSnapshot, SavedInv
    <2> QED BY <2>1, <2>2 DEF SessionInv
  <1>6. ASSUME NEW n \in Names, OpenSnapshot(n) PROVE SessionInv'
    <2> DEFINE lv == RestoredLevels(saved[n])
               R == AllRuns(saved[n])
    <2>1. saved[n] \in LevelMap /\ Ranked(R) /\ Filled(R)
      BY <1>0, <1>6 DEF OpenSnapshot, SavedInv, Saveable
    <2>2. lv \in LevelMap /\ AllRuns(lv) = R
      BY <2>1, RestoredRuns
    <2>3. MaxNum(R) + 1 \in Nat /\ R \subseteq RunsBelow(MaxNum(R) + 1)
      BY <2>1, MaxNumTop
    <2>4. StartSession(lv, MaxNum(R) + 1) /\ left' = NothingLeft /\ UNCHANGED saved
      BY <1>6 DEF OpenSnapshot
    <2> HIDE DEF lv, R
    <2>5. R = AllRuns(lv) \union left'.runs /\ LeftBelow(left', MaxNum(R) + 1)
      BY <2>2, <2>3, <2>4, NothingLeftType
    <2>6. TypeInv' /\ RunNumbersUnique' /\ Filled(Files)'
      BY <2>1, <2>2, <2>3, <2>4, <2>5, SessionStarts
    <2> QED BY <1>2, <2>4, <2>6 DEF SessionInv
  <1>7. CASE Crash
    <2>1. /\ left'.runs \subseteq Files /\ Ranked(left'.runs)
          /\ next_run_number \in Nat /\ LeftBelow(left', next_run_number)
      BY <1>0, <1>7, CrashLeaves
    <2>2. NoSession /\ UNCHANGED saved
      BY <1>7 DEF Crash
    <2>3. 1 \in Nat /\ AllRuns(NoRuns) = {} /\ {} \subseteq RunsBelow(1)
          /\ NoRuns \in LevelMap /\ left'.runs = AllRuns(NoRuns) \union left'.runs
      BY NoRunsType
    <2>4. Filled(left'.runs)
      BY <1>0, <2>1 DEF Filled
    <2>5. TypeInv' /\ RunNumbersUnique' /\ Filled(Files)'
      BY <2>1, <2>2, <2>3, <2>4, SessionStarts
    <2> QED BY <1>2, <2>2, <2>5 DEF SessionInv
  <1> QED BY <1>3, <1>4, <1>5, <1>6, <1>7 DEF SNext

\* Sessions keep their types: whatever order of sessions, crashes, saved and
\* restored snapshots, in every tree that a session starts from each level is
\* a sequence of runs and the counter is a number (lib.rs:526-577, 723-769).
THEOREM SessionTypeCorrect == SSpec => []SessionTypeOK
PROOF
  <1>1. SSpec => []SessionInv
    BY SessionInit, SessionNext, PTL DEF SSpec
  <1>2. SessionInv => SessionTypeOK
    BY DEF SessionInv, TypeInv, SavedInv, SessionTypeOK
  <1> QED BY <1>1, <1>2, PTL

\* Run numbers stay unique across sessions: after a crash or a failed merge that
\* leaves half a run or a whole one, after open, which adopts every whole run it
\* finds and counts on from the highest file number, and after open_snapshot, which counts on from the
\* saved runs alone, no two runs that are held share a number
\* (lib.rs:528-556, 723-748).
THEOREM SessionsKeepRunNumbersUnique == SSpec => []RunNumbersUnique
PROOF
  <1>1. SSpec => []SessionInv
    BY SessionInit, SessionNext, PTL DEF SSpec
  <1>2. SessionInv => RunNumbersUnique
    BY DEF SessionInv
  <1> QED BY <1>1, <1>2, PTL

---------------------------------------------------------------------------
(* Across sessions the tree is the store with named copies.  The proof     *)
(* needs what open_snapshot relies on: a run sits in the level that its    *)
(* level field names, so that the sort into levels moves none; and what    *)
(* save_snapshot relies on: between its flush and its links the memtable   *)
(* is empty.                                                               *)

Placed(lv) == \A l \in Levels : \A r \in RunSet(lv[l]) : r.level = l

PlacedInv ==
  /\ Placed(levels)
  /\ \A s \in SnapIds : snapshots[s] # None => Placed(snapshots[s].levels)
  /\ pc["user"] = "push" => flight.level = 0
  /\ InStage("bg", "write") /\ job["bg"].out # None
       => job["bg"].out.level = job["bg"].src + 1

FlushedInv ==
  pc["user"] \in {"push", "credit", "signal", "stall", "link"} => memtable = EmptyData

CopiesInv ==
  \A n \in Names : saved[n] # None => Placed(saved[n]) /\ BottomShort(saved[n])

\* The invariants of one session, of the tree alone.
TreeInv == JobInv /\ OrderInv /\ ContentInv /\ PlacedInv /\ FlushedInv

LEMMA PlacedReplace ==
  ASSUME NEW lv \in LevelMap, Placed(lv), NEW l \in Levels, NEW x,
         \A r \in RunSet(x) : r.level = l
  PROVE  Placed([lv EXCEPT ![l] = x])
PROOF
  <1>1. \A m \in Levels : [lv EXCEPT ![l] = x][m] = IF m = l THEN x ELSE lv[m]
    BY DEF LevelMap
  <1> QED BY <1>1 DEF Placed

LEMMA PlacedNoRuns == Placed(NoRuns)
PROOF
  <1>1. \A l \in Levels : RunSet(NoRuns[l]) = {}
    BY DEF RunSet, NoRuns
  <1> QED BY <1>1 DEF Placed

\* A write-back puts the output where its level field says.
LEMMA AppliedPlaced ==
  ASSUME NEW lv \in LevelMap, NEW j \in Job, Placed(lv),
         j.out # None => j.out.level = j.src + 1
  PROVE  Placed(Applied(lv, j))
PROOF
  <1> DEFINE src == j.src
             tgt == j.src + 1
             n == Len(j.snap[src])
             cut == [lv EXCEPT ![src] = DropFirst(@, n)]
  <1>1. /\ src \in Levels /\ tgt \in Levels /\ tgt # src
        /\ lv[src] \in Seq(Run) /\ lv[tgt] \in Seq(Run) /\ n \in Nat
    BY SourceAndTarget, LenProperties DEF Job, LevelMap
  <1>2. /\ DropFirst(lv[src], n) \in Seq(Run)
        /\ RunSet(DropFirst(lv[src], n)) \subseteq RunSet(lv[src])
    BY <1>1, DropFirstRuns
  <1>3. cut = [lv EXCEPT ![src] = DropFirst(lv[src], n)]
    OBVIOUS
  <1>4. cut \in LevelMap /\ cut[tgt] = lv[tgt]
    BY <1>1, <1>2, <1>3 DEF LevelMap
  <1>5. \A r \in RunSet(DropFirst(lv[src], n)) : r.level = src
    BY <1>1, <1>2 DEF Placed
  <1>6. Placed(cut)
    BY <1>1, <1>3, <1>5, PlacedReplace
  <1>7. CASE j.out = None
    <2>1. Applied(lv, j) = cut
      BY <1>7 DEF Applied
    <2> QED BY <1>6, <2>1
  <1>8. CASE j.out # None
    <2> DEFINE x == IF tgt = MaxLevel THEN <<j.out>> ELSE Append(cut[tgt], j.out)
    <2>1. Applied(lv, j) = [cut EXCEPT ![tgt] = x]
      BY <1>8 DEF Applied
    <2>2. j.out \in Run /\ j.out.level = tgt
      BY <1>8 DEF Job
    <2>3. \A r \in RunSet(<<j.out>>) : r = j.out
      BY DEF RunSet
    <2>4. RunSet(Append(cut[tgt], j.out)) = RunSet(lv[tgt]) \union {j.out}
      BY <1>1, <1>4, <2>2, AppendRuns
    <2>5. \A r \in RunSet(x) : r.level = tgt
      BY <1>1, <2>2, <2>3, <2>4 DEF Placed
    <2> HIDE DEF x, cut
    <2>6. Placed([cut EXCEPT ![tgt] = x])
      BY <1>1, <1>4, <1>6, <2>5, PlacedReplace
    <2> QED BY <2>1, <2>6
  <1> QED BY <1>7, <1>8

\* Steps of the caller's thread that leave the levels and the job alone.
LEMMA PlacedFrame ==
  ASSUME PlacedInv, UNCHANGED <<levels, snapshots, job>>, pc'["bg"] = pc["bg"],
         pc'["user"] = "push" => flight'.level = 0
  PROVE  PlacedInv'
PROOF BY DEF PlacedInv, Placed, InStage

LEMMA PlacedNext ==
  ASSUME SoloCompactor, TypeInv, JobInv, PlacedInv, [Next]_vars
  PROVE  PlacedInv'
PROOF
  <1>0. /\ 0 \in Levels
        /\ levels \in LevelMap
        /\ pc \in [Threads -> UserPc \union BgPc]
        /\ "user" \in Threads /\ "bg" \in Threads
        /\ job \in [Threads -> Job] /\ job["bg"] \in Job
        /\ flush_ret \in {"idle", "link"}
    BY LevelAssumption DEF Levels, TypeInv, TypeOK, Threads
  <1>1. ASSUME NEW m, WriteMemtable(m) \/ SaveSnapshot PROVE PlacedInv'
    <2>1. /\ UNCHANGED <<levels, snapshots, job>> /\ pc'["bg"] = pc["bg"]
          /\ pc'["user"] = "push" => flight'.level = 0
      BY <1>0, <1>1 DEF WriteMemtable, SaveSnapshot, StartFlush, UserGoto, Idle
    <2> QED BY <2>1, PlacedFrame
  <1>2. CASE Flush
    <2>1. CASE FlushPush
      <3>1. flight \in Run /\ flight.level = 0 /\ levels[0] \in Seq(Run)
        BY <1>0, <2>1 DEF FlushPush, TypeInv, FlightHeld, PlacedInv, LevelMap
      <3>2. levels' = [levels EXCEPT ![0] = Append(levels[0], flight)]
        BY <2>1 DEF FlushPush
      <3>3. \A r \in RunSet(Append(levels[0], flight)) : r.level = 0
        BY <1>0, <3>1, AppendRuns DEF PlacedInv, Placed
      <3>4. Placed(levels')
        BY <1>0, <3>2, <3>3, PlacedReplace DEF PlacedInv
      <3>5. /\ UNCHANGED <<snapshots, job>>
            /\ pc'["user"] = "credit" /\ pc'["bg"] = pc["bg"]
        BY <1>0, <2>1 DEF FlushPush, UserGoto
      <3> QED BY <3>4, <3>5 DEF PlacedInv, Placed, InStage
    <2>2. CASE FlushFail \/ FlushCredit \/ FlushSignal \/ FlushPoll \/ FlushResume
      <3>1. UNCHANGED <<levels, snapshots, job>> /\ pc'["bg"] = pc["bg"]
        BY <1>0, <2>2 DEF FlushFail, FlushCredit, FlushSignal, FlushPoll, FlushResume,
                          UserGoto, vars
      <3>2. pc'["user"] # "push"
        BY <1>0, <2>2 DEF FlushFail, FlushCredit, FlushSignal, FlushPoll, FlushResume,
                          UserGoto, vars
      <3> QED BY <3>1, <3>2, PlacedFrame
    <2> QED BY <1>2, <2>1, <2>2 DEF Flush
  <1>3. CASE RunCompaction("bg")
    <2>1. UNCHANGED <<snapshots, flight>> /\ pc'["user"] = pc["user"]
      BY <1>0, <1>3 DEF RunCompaction, LoadGeneration, CloneAndSelect, Merge, MergeFail,
                        FailedMerge, WriteBack, Return
    <2>2. Placed(levels')
      <3>1. CASE WriteBack("bg")
        <4>1. job["bg"].out # None => job["bg"].out.level = job["bg"].src + 1
          BY <3>1 DEF WriteBack, PlacedInv
        <4>2. Placed(Applied(levels, job["bg"]))
          BY <1>0, <4>1, AppliedPlaced DEF PlacedInv
        <4> QED BY <3>1, <4>2 DEF WriteBack, PlacedInv
      <3>2. CASE ~ WriteBack("bg")
        BY <1>3, <3>2 DEF RunCompaction, LoadGeneration, CloneAndSelect, Merge, MergeFail,
                          FailedMerge, PlacedInv
      <3> QED BY <3>1, <3>2
    <2>3. InStage("bg", "write")' /\ job'["bg"].out # None
            => job'["bg"].out.level = job'["bg"].src + 1
      <3>1. CASE Merge("bg")
        <4>1. job' = [job EXCEPT !["bg"].stage = "write", !["bg"].out = MergedRun(job["bg"])]
          BY <3>1 DEF Merge
        <4>2. MergedRun(job["bg"]) # None => MergedRun(job["bg"]).level = job["bg"].src + 1
          BY <1>0, MergedRunType
        <4>3. job'["bg"].out = MergedRun(job["bg"]) /\ job'["bg"].src = job["bg"].src
          BY <1>0, <4>1 DEF Job
        <4> QED BY <4>2, <4>3
      <3>2. CASE ~ Merge("bg")
        <4>1. ~ InStage("bg", "write")'
          BY <1>0, <1>3, <3>2 DEF RunCompaction, LoadGeneration, CloneAndSelect, MergeFail,
             FailedMerge, WriteBack, Return, InStage, NoJob, Job
        <4> QED BY <4>1
      <3> QED BY <3>1, <3>2
    <2> QED BY <2>1, <2>2, <2>3 DEF PlacedInv, Placed
  <1>4. CASE BgWake \/ BgCredit \/ BgExit
    <2>1. UNCHANGED <<levels, snapshots, flight>> /\ pc'["user"] = pc["user"]
      BY <1>0, <1>4 DEF BgWake, BgCredit, BgExit
    <2>2. ~ InStage("bg", "write")'
      BY <1>0, <1>4 DEF BgWake, BgCredit, BgExit, InStage, NewJob
    <2> QED BY <2>1, <2>2 DEF PlacedInv, Placed
  <1>5. ~ ManualCompaction
    BY NoManualCompaction
  <1>6. ASSUME NEW s \in SnapIds, Snapshot(s) PROVE PlacedInv'
    <2>1. UNCHANGED <<levels, job, pc, flight>>
      BY <1>6 DEF Snapshot
    <2>2. \A x \in SnapIds : snapshots'[x] # None => Placed(snapshots'[x].levels)
      BY <1>6 DEF Snapshot, PlacedInv, TypeInv, TypeOK, Placed
    <2> QED BY <2>1, <2>2 DEF PlacedInv, Placed, InStage
  <1>7. ASSUME NEW s \in SnapIds, Rollback(s) PROVE PlacedInv'
    <2>1. UNCHANGED <<snapshots, job, pc, flight>> /\ levels' = snapshots[s].levels
          /\ snapshots[s] # None
      BY <1>7 DEF Rollback
    <2> QED BY <2>1 DEF PlacedInv, Placed, InStage
  <1>8. CASE Link \/ Drop
    <2>1. /\ UNCHANGED <<levels, snapshots, job>> /\ pc'["bg"] = pc["bg"]
          /\ pc'["user"] # "push"
      BY <1>0, <1>8 DEF Link, Drop, UserGoto
    <2> QED BY <2>1, PlacedFrame
  <1>9. CASE Joined \/ Open
    <2>1. /\ pc'["bg"] \in {"wait", "exit"} /\ pc'["user"] # "push"
          /\ snapshots' = [s \in SnapIds |-> None]
      BY <1>9 DEF Joined, Open, OpenAs, NoSession, StartSession, Session, ThreadsAt, Threads
    <2>2. CASE Joined
      <3>1. levels' = NoRuns
        BY <2>2 DEF Joined, NoSession, Session
      <3> QED BY <2>1, <3>1, PlacedNoRuns DEF PlacedInv, Placed, InStage
    <2>3. CASE Open
      <3>1. PICK s \in Orders(Openable) : OpenAs(s)
        BY <2>3 DEF Open
      <3>2. /\ RunSet(levels'[0]) = Relevelled(left.runs)
            /\ \A l \in Levels \ {0} : levels'[l] = <<>>
        BY <3>1, Opened
      <3>3. \A r \in Relevelled(left.runs) : r.level = 0
        BY RelevelledIs DEF TypeInv, TypeOK
      <3>4. Placed(levels')
        BY <3>2, <3>3 DEF Placed, RunSet
      <3> QED BY <2>1, <3>4 DEF PlacedInv, Placed, InStage
    <2> QED BY <1>9, <2>2, <2>3
  <1>10. CASE UNCHANGED vars
    BY <1>10 DEF vars, PlacedInv, InStage, Placed
  <1>11. CASE User
    BY <1>1, <1>2, <1>5, <1>6, <1>7, <1>8, <1>9, <1>11
    DEF User, Insert, Delete, InsertBatch, DeleteBatch
  <1> QED BY <1>3, <1>4, <1>8, <1>9, <1>10, <1>11 DEF Next, Background

\* A flush leaves the memtable empty until it returns, and save_snapshot
\* until it has linked the runs.
LEMMA FlushedNext ==
  ASSUME SoloCompactor, TypeInv, JobInv, FlushedInv, [Next]_vars
  PROVE  FlushedInv'
PROOF
  <1> DEFINE P == {"push", "credit", "signal", "stall", "link"}
  <1>0. pc \in [Threads -> UserPc \union BgPc] /\ "user" \in Threads
    BY DEF TypeInv, TypeOK, Threads
  <1>1. ASSUME pc'["user"] \notin P \/ memtable' = EmptyData
               \/ (pc["user"] \in P /\ memtable' = memtable)
        PROVE  FlushedInv'
    BY <1>1 DEF FlushedInv
  <1>2. ASSUME NEW m, WriteMemtable(m) \/ SaveSnapshot
        PROVE  pc'["user"] \notin P \/ memtable' = EmptyData
    BY <1>0, <1>2 DEF WriteMemtable, SaveSnapshot, StartFlush, UserGoto, Idle
  <1>3. CASE Flush
    <2>1. memtable' = memtable /\ pc["user"] \in P
      BY <1>3 DEF Flush, FlushPush, FlushFail, FlushCredit, FlushSignal, FlushPoll,
                  FlushResume, vars
    <2> QED BY <1>1, <2>1
  <1>4. CASE Background \/ UNCHANGED vars
    <2>1. UNCHANGED memtable /\ pc'["user"] = pc["user"]
      BY <1>0, <1>4 DEF Background, RunCompaction, LoadGeneration, CloneAndSelect, Merge,
                  MergeFail, FailedMerge, WriteBack, Return, BgWake, BgCredit, BgExit, vars
    <2> QED BY <2>1 DEF FlushedInv
  <1>5. ~ ManualCompaction
    BY NoManualCompaction
  <1>6. ASSUME \/ \E s \in SnapIds : Snapshot(s) \/ Rollback(s)
               \/ Link \/ Drop \/ Joined \/ Open
        PROVE  pc'["user"] \notin P
    BY <1>0, <1>6 DEF Snapshot, Rollback, Link, Drop, Joined, Open, OpenAs, NoSession,
                 StartSession, Session, ThreadsAt, Threads, UserGoto, Idle
  <1>7. CASE User
    BY <1>1, <1>2, <1>3, <1>5, <1>6, <1>7 DEF User, Insert, Delete, InsertBatch, DeleteBatch
  <1> QED BY <1>1, <1>4, <1>6, <1>7 DEF Next

\* What open_snapshot restores is level by level what was saved.
LEMMA RestoredPlaced ==
  ASSUME NEW lv \in LevelMap, Filled(AllRuns(lv)), Placed(lv), BottomShort(lv)
  PROVE  LET w == RestoredLevels(lv)
         IN  /\ Placed(w) /\ BottomShort(w)
             /\ \A l \in Levels : RunSet(w[l]) = RunSet(lv[l])
PROOF
  <1> DEFINE w == RestoredLevels(lv)
  <1>1. \A l \in Levels : /\ w[l] = RestoredLevel(lv, l) /\ w[l] \in Seq(Run)
                          /\ RunSet(w[l]) = {r \in AllRuns(lv) : r.level = l}
    BY RestoredType DEF RestoredLevels
  <1>2. \A l \in Levels : {r \in AllRuns(lv) : r.level = l} = RunSet(lv[l])
    BY DEF AllRuns, Placed
  <1> HIDE DEF w
  <1>3. \A l \in Levels : RunSet(w[l]) = RunSet(lv[l])
    BY <1>1, <1>2
  <1>4. Placed(w)
    BY <1>3 DEF Placed
  <1>5. BottomShort(w)
    <2> DEFINE P == Places(lv, MaxLevel)
    <2>1. MaxLevel \in Levels /\ lv[MaxLevel] \in Seq(Run) /\ Len(lv[MaxLevel]) <= 1
      BY LevelAssumption DEF Levels, LevelMap, BottomShort
    <2>2. ASSUME NEW p \in P PROVE p = <<MaxLevel, 1>>
      <3>1. /\ p[1] \in Levels /\ p[2] \in DOMAIN lv[p[1]] /\ p = <<p[1], p[2]>>
            /\ At(lv, p) \in RunSet(lv[p[1]]) /\ At(lv, p).level = MaxLevel
        BY PlaceType
      <3>2. p[1] = MaxLevel
        BY <3>1 DEF Placed
      <3>3. DOMAIN lv[MaxLevel] = 1 .. Len(lv[MaxLevel]) /\ Len(lv[MaxLevel]) \in Nat
        BY <2>1, LenProperties
      <3>4. p[2] = 1
        BY <2>1, <3>1, <3>2, <3>3
      <3> QED BY <3>1, <3>2, <3>4
    <2>3. P \in SUBSET {<<MaxLevel, 1>>}
      BY <2>2
    <2>4. Cardinality(P) <= 1 /\ Cardinality(P) \in Nat
      <3> HIDE DEF P
      <3>1. IsFiniteSet({<<MaxLevel, 1>>}) /\ Cardinality({<<MaxLevel, 1>>}) = 1
        BY FS_Singleton
      <3> QED BY <2>3, <3>1, FS_Subset, FS_CardinalityType
    <2>5. DOMAIN w[MaxLevel] = 1 .. Cardinality(P)
      BY <1>1, <2>1 DEF RestoredLevel
    <2>6. Len(w[MaxLevel]) = Cardinality(P)
      <3>1. w[MaxLevel] \in Seq(Run)
        BY <1>1, <2>1
      <3>2. DOMAIN w[MaxLevel] = 1 .. Len(w[MaxLevel]) /\ Len(w[MaxLevel]) \in Nat
        BY <3>1, LenProperties
      <3> HIDE DEF P
      <3> QED BY <2>4, <2>5, <3>2
    <2> QED BY <2>4, <2>6 DEF BottomShort
  <1> QED BY <1>3, <1>4, <1>5 DEF w

LEMMA TreeInit == Init => TreeInv
PROOF
  <1>1. Init => PlacedInv /\ FlushedInv
    BY PlacedNoRuns DEF Init, PlacedInv, FlushedInv, InStage, ThreadsAt, Threads
  <1> QED BY <1>1, JobInit, OrderInit, ContentInit DEF TreeInv

\* A session that starts on placed levels, or ends.
LEMMA TreeStarts ==
  ASSUME NEW lv, Placed(lv), BottomShort(lv), NEW n,
         StartSession(lv, n) \/ (NoSession /\ lv = NoRuns)
  PROVE  TreeInv'
PROOF
  <1>1. /\ memtable' = EmptyData /\ levels' = lv /\ generation' = 0
        /\ job' = [t \in Threads |-> NoJob]
        /\ snapshots' = [s \in SnapIds |-> None]
        /\ \/ pc'["user"] = "idle" /\ pc'["bg"] = "wait"
           \/ pc'["user"] = "closed" /\ pc'["bg"] = "exit" /\ levels' = NoRuns
    BY DEF StartSession, NoSession, Session, ThreadsAt, Threads
  <1>2. ~ InStage("bg", "write")' /\ pc'["bg"] # "compacting"
    BY <1>1 DEF InStage
  <1>3. JobInv'
    BY <1>1 DEF JobInv, CompactionJobCurrent, NoJob, Threads
  <1>4. OrderInv'
    BY <1>1, <1>2 DEF OrderInv
  <1>5. ContentInv'
    BY <1>1, <1>2 DEF ContentInv, OutputIsMerge, ClosedEmpty, BottomShort
  <1>6. PlacedInv' /\ FlushedInv'
    BY <1>1, <1>2 DEF PlacedInv, FlushedInv, Placed
  <1> QED BY <1>3, <1>4, <1>5, <1>6 DEF TreeInv

LEMMA TreeNext ==
  ASSUME SoloCompactor, SessionInv, SessionInv', TreeInv, CopiesInv, [SNext]_svars
  PROVE  TreeInv' /\ CopiesInv'
PROOF
  <1>0. TypeInv /\ TypeInv' /\ SavedInv
    BY DEF SessionInv
  <1>1. ASSUME [Next]_vars PROVE TreeInv'
    BY <1>0, <1>1, JobNext, OrderNext, ContentNext, PlacedNext, FlushedNext DEF TreeInv
  <1>2. UNCHANGED saved => CopiesInv'
    BY DEF CopiesInv
  <1>3. CASE \/ (User \/ Background) /\ UNCHANGED saved
             \/ UNCHANGED svars
             \/ OpenActive
    <2>1. [Next]_vars /\ UNCHANGED saved
      BY <1>3, OpenIsOpen DEF Next, svars
    <2> QED BY <1>1, <1>2, <2>1
  <1>4. ASSUME NEW n \in Names, SaveLink(n) PROVE TreeInv' /\ CopiesInv'
    <2>1. Placed(levels) /\ BottomShort(levels)
      BY DEF TreeInv, PlacedInv, ContentInv
    <2>2. CopiesInv'
      BY <1>0, <1>4, <2>1 DEF SaveLink, CopiesInv, SavedInv
    <2> QED BY <1>1, <1>4, <2>2 DEF SaveLink, Next
  <1>5. ASSUME NEW n \in Names, DeleteSnapshot(n) PROVE TreeInv' /\ CopiesInv'
    <2>1. CopiesInv'
      BY <1>0, <1>5 DEF DeleteSnapshot, CopiesInv, SavedInv
    <2> QED BY <1>1, <1>5, <2>1 DEF DeleteSnapshot
  <1>6. ASSUME NEW n \in Names, OpenSnapshot(n) PROVE TreeInv' /\ CopiesInv'
    <2>1. /\ saved[n] \in LevelMap /\ Filled(AllRuns(saved[n]))
          /\ Placed(saved[n]) /\ BottomShort(saved[n])
      BY <1>0, <1>6 DEF OpenSnapshot, SavedInv, Saveable, CopiesInv
    <2>2. Placed(RestoredLevels(saved[n])) /\ BottomShort(RestoredLevels(saved[n]))
      BY <2>1, RestoredPlaced
    <2> QED BY <1>2, <1>6, <2>2, TreeStarts DEF OpenSnapshot
  <1>7. CASE Crash
    BY <1>2, <1>7, PlacedNoRuns, ShortNoRuns, TreeStarts DEF Crash
  <1> QED BY <1>3, <1>4, <1>5, <1>6, <1>7 DEF SNext

---------------------------------------------------------------------------
(* Each call is the store's.                                               *)

LEMMA SavedRanked ==
  ASSUME NEW lv \in LevelMap, Ranked(AllRuns(lv))
  PROVE  RankedLevels(lv)
PROOF
  <1>1. \A l \in Levels : RunSet(lv[l]) \subseteq AllRuns(lv)
    BY DEF AllRuns
  <1> QED BY <1>1, RankedSubset DEF RankedLevels

\* What the caller does not see in the tree does not show in the store.
LEMMA DurableSame ==
  ASSUME UNCHANGED KV!vars, UNCHANGED saved
  PROVE  UNCHANGED DurableKV!vars
PROOF
  <1>1. UNCHANGED SavedViews
    BY DEF SavedViews, Contents, RangeData, RangeEntry
  <1> QED BY <1>1 DEF KV!vars, DurableKV!vars

LEMMA DurableWrites ==
  ASSUME TypeInv, UNCHANGED saved, NEW k \in Keys
  PROVE  /\ \A v \in Values : Insert(k, v) => DurableKV!Put([i \in {k} |-> v])
         /\ Delete(k) => DurableKV!Remove({k})
PROOF
  <1>1. UNCHANGED SavedViews
    BY DEF SavedViews, Contents, RangeData, RangeEntry
  <1>2. \A v \in Values : Insert(k, v) => KV!Put([i \in {k} |-> v])
    BY WritesShow
  <1>3. Delete(k) => KV!Remove({k})
    BY WritesShow
  <1>4. ASSUME NEW w, KV!Put(w) PROVE DurableKV!Put(w)
    BY <1>1, <1>4 DEF KV!Put, DurableKV!Put
  <1>5. ASSUME KV!Remove({k}) PROVE DurableKV!Remove({k})
    BY <1>1, <1>5 DEF KV!Remove, DurableKV!Remove
  <1> QED BY <1>2, <1>3, <1>4, <1>5

LEMMA CloseShows ==
  ASSUME pc["user"] # "closed", NoSession, UNCHANGED saved
  PROVE  DurableKV!Close
PROOF
  <1>1. KV!Close
    BY CloseEmpties
  <1>2. UNCHANGED SavedViews
    BY DEF SavedViews, Contents, RangeData, RangeEntry
  <1> QED BY <1>1, <1>2 DEF KV!Close, KV!EmptyMap, DurableKV!Close, DurableKV!EmptyMap

\* save_snapshot links what range shows: its flush has emptied the memtable.
LEMMA SaveLinkShows ==
  ASSUME SessionInv, TreeInv, NEW n \in Names, SaveLink(n)
  PROVE  IF saved[n] = None THEN DurableKV!SaveSnapshot(n) ELSE UNCHANGED DurableKV!vars
PROOF
  <1>1. TypeInv /\ SavedInv /\ Link /\ pc["user"] = "link"
    BY DEF SessionInv, SaveLink, Link
  <1>2. UNCHANGED KV!vars
    BY <1>1, CallerHidden
  <1>3. CASE saved[n] # None
    BY <1>2, <1>3, DurableSame DEF SaveLink
  <1>4. CASE saved[n] = None
    <2>1. saved' = [saved EXCEPT ![n] = levels]
      BY <1>4 DEF SaveLink
    <2>2. View = Contents(EmptyData, levels)
      <3>1. memtable = EmptyData /\ InFlight = EmptyData
        BY <1>1 DEF TreeInv, FlushedInv, InFlight
      <3>2. Overlay(EmptyData, EmptyData) = EmptyData
        BY DEF Overlay, EmptyData
      <3> QED BY <3>1, <3>2 DEF View
    <2>3. levels \in LevelMap /\ levels # None
      BY <1>1, SessionAssumption DEF TypeInv, TypeOK
    <2>4. SavedViews' = [SavedViews EXCEPT ![n] = View]
      <3>1. \A i \in Names : saved'[i] = IF i = n THEN levels ELSE saved[i]
        BY <1>1, <2>1 DEF SavedInv
      <3>2. SavedViews' = [i \in Names |-> IF saved'[i] = None THEN None
                                           ELSE Contents(EmptyData, saved'[i])]
        BY DEF SavedViews, Contents, RangeData, RangeEntry
      <3>3. \A i \in Names : SavedViews'[i] = IF i = n THEN View ELSE SavedViews[i]
        BY <2>2, <2>3, <3>1, <3>2 DEF SavedViews
      <3> QED BY <3>2, <3>3 DEF SavedViews
    <2>5. SavedViews[n] = None
      BY <1>4 DEF SavedViews
    <2> QED BY <1>1, <1>2, <1>4, <2>4, <2>5 DEF KV!vars, DurableKV!SaveSnapshot
  <1> QED BY <1>3, <1>4

\* A saved snapshot has contents.
LEMMA SavedShown ==
  ASSUME SavedInv, NEW n \in Names, saved[n] # None
  PROVE  SavedViews[n] # None
PROOF
  <1>1. saved[n] \in LevelMap /\ RankedLevels(saved[n])
    BY SavedRanked DEF SavedInv, Saveable
  <1>2. EmptyData \in Data
    BY DEF EmptyData, Data
  <1>3. Contents(EmptyData, saved[n]) # None
    BY <1>1, <1>2, ContentsType
  <1> QED BY <1>3 DEF SavedViews

LEMMA DeleteShows ==
  ASSUME SavedInv, NEW n \in Names, DeleteSnapshot(n)
  PROVE  DurableKV!DeleteSnapshot(n)
PROOF
  <1>1. /\ pc["user"] = "idle" /\ saved[n] # None /\ UNCHANGED vars
        /\ saved' = [saved EXCEPT ![n] = None]
    BY DEF DeleteSnapshot, Idle
  <1>2. UNCHANGED <<pc, View, SnapshotViews>>
    BY <1>1 DEF vars, View, SnapshotViews, InFlight, Contents, RangeData, RangeEntry
  <1>3. SavedViews[n] # None
    BY <1>1, SavedShown
  <1>4. SavedViews' = [SavedViews EXCEPT ![n] = None]
    <2>1. \A i \in Names : saved'[i] = IF i = n THEN None ELSE saved[i]
      BY <1>1 DEF SavedInv
    <2>2. SavedViews' = [i \in Names |-> IF saved'[i] = None THEN None
                                         ELSE Contents(EmptyData, saved'[i])]
      BY DEF SavedViews, Contents, RangeData, RangeEntry
    <2> QED BY <2>1, <2>2 DEF SavedViews
  <1> QED BY <1>1, <1>2, <1>3, <1>4 DEF DurableKV!DeleteSnapshot

\* open_snapshot brings back what was saved.
LEMMA OpenSnapshotShows ==
  ASSUME SessionInv, TreeInv, CopiesInv, NEW n \in Names, OpenSnapshot(n)
  PROVE  DurableKV!OpenSnapshot(n)
PROOF
  <1> DEFINE lv == saved[n]
             w == RestoredLevels(saved[n])
             p == ThreadsAt("idle", "wait")
  <1>1. /\ lv \in LevelMap /\ Ranked(AllRuns(lv)) /\ Filled(AllRuns(lv))
        /\ Placed(lv) /\ BottomShort(lv) /\ lv # None /\ pc["user"] = "closed"
    BY DEF SessionInv, SavedInv, Saveable, CopiesInv, OpenSnapshot
  <1>2. /\ Session(w, MaxNum(AllRuns(lv)) + 1, p)
        /\ p["user"] = "idle" /\ UNCHANGED saved
    BY DEF OpenSnapshot, StartSession, ThreadsAt, Threads
  <1> HIDE DEF lv, w, p
  <1>3. /\ View' = Contents(EmptyData, w)
        /\ SnapshotViews' = [s \in SnapIds |-> None]
        /\ pc'["user"] = "idle"
    BY <1>2, StartViews
  <1>4. Contents(EmptyData, w) = Contents(EmptyData, lv)
    <2>1. w \in LevelMap /\ AllRuns(w) = AllRuns(lv)
      BY <1>1, RestoredRuns DEF lv, w
    <2>2. RankedLevels(lv) /\ RankedLevels(w)
      BY <1>1, <2>1, SavedRanked
    <2>3. \A l \in Levels : RunSet(w[l]) = RunSet(lv[l])
      BY <1>1, RestoredPlaced DEF lv, w
    <2>4. \A k \in Keys : \A l \in Levels : LevelEntry(lv, l, k) = LevelEntry(w, l, k)
      BY <2>3 DEF LevelEntry
    <2>5. \A k \in Keys : RangeEntry(lv, k) = RangeEntry(w, k)
      BY <2>2, <2>4, RangeSame
    <2> QED BY <2>5, SameContents
  <1>5. SavedViews[n] = Contents(EmptyData, lv) /\ SavedViews[n] # None
    BY <1>1, SavedShown DEF lv, SavedViews, SessionInv
  <1>6. SnapshotViews = [s \in SnapIds |-> None]
    BY <1>1, ClosedViews DEF TreeInv
  <1>7. UNCHANGED SavedViews
    BY <1>2 DEF SavedViews, Contents, RangeData, RangeEntry
  <1> QED BY <1>1, <1>3, <1>4, <1>5, <1>6, <1>7 DEF DurableKV!OpenSnapshot

\* open shows what the runs in active/ hold: nothing, when there are none.
LEMMA OpenActiveShows ==
  ASSUME SessionInv, TreeInv, LevelsRanked', OpenActive
  PROVE  IF left.runs = {} THEN DurableKV!Open ELSE DurableKV!Adopt
PROOF
  <1>1. UNCHANGED SavedViews
    BY OpenIsOpen DEF SavedViews, Contents, RangeData, RangeEntry
  <1>2. IF left.runs = {} THEN KV!Open ELSE KV!Adopt
    <2>1. PICK s \in Orders(Openable) : OpenAs(s)
      BY OpenIsOpen
    <2>2. TypeInv /\ ContentInv /\ RankedLevels(levels')
      BY DEF SessionInv, TreeInv, LevelsRanked, RankedLevels
    <2> QED BY <2>1, <2>2, OpenAdopts
  <1> QED BY <1>1, <1>2 DEF KV!Open, KV!Adopt, KV!Maps, DurableKV!Open, DurableKV!Adopt,
                            DurableKV!Maps

\* Only save_snapshot and delete_snapshot touch the saved snapshots.
LEMMA SavedFrame ==
  ASSUME TypeInv, [SNext]_svars, Flush \/ SaveSnapshot \/ Drop \/ Background \/ Joined \/ Crash
  PROVE  UNCHANGED saved
PROOF
  <1>0. /\ pc \in [Threads -> UserPc \union BgPc] /\ job \in [Threads -> Job]
        /\ "bg" \in Threads /\ job["bg"] \in Job
    BY DEF TypeInv, TypeOK, Threads
  <1>1. ASSUME NEW n \in Names, SaveLink(n) PROVE FALSE
    <2>1. /\ pc["user"] = "link" /\ pc'["user"] = "idle"
          /\ UNCHANGED <<memtable, levels, job>>
      BY <1>0, <1>1 DEF SaveLink, Link, UserGoto, Threads
    <2>2. ~ Flush /\ ~ SaveSnapshot /\ ~ Drop /\ ~ Joined
      BY <2>1 DEF Flush, FlushFail, FlushPush, FlushCredit, FlushSignal, FlushPoll,
                  FlushResume, SaveSnapshot, Drop, Joined, Idle
    <2>3. ~ Background
      BY <1>0, <2>1 DEF Background, RunCompaction, LoadGeneration, CloneAndSelect, Merge,
                        MergeFail, FailedMerge, WriteBack, Return, BgWake, BgCredit, BgExit,
                        Threads
    <2>4. ~ Crash
      BY <2>1 DEF Crash, NoSession, Session, ThreadsAt, Threads
    <2> QED BY <2>2, <2>3, <2>4
  <1>2. ASSUME NEW n \in Names, DeleteSnapshot(n) PROVE FALSE
    <2>1. pc["user"] = "idle" /\ UNCHANGED <<pc, job, should_run>>
      BY <1>2 DEF DeleteSnapshot, Idle, vars
    <2>2. ~ Flush /\ ~ Joined /\ ~ Drop /\ ~ SaveSnapshot
      BY <1>0, <2>1 DEF Flush, FlushFail, FlushPush, FlushCredit, FlushSignal, FlushPoll,
                  FlushResume, SaveSnapshot, StartFlush, Drop, Joined, UserGoto, Threads
    <2>3. ~ RunCompaction("bg")
      <3>1. RunCompaction("bg") => job'["bg"].stage # job["bg"].stage
        BY <1>0 DEF RunCompaction, InStage, LoadGeneration, CloneAndSelect, Merge,
                    MergeFail, FailedMerge, WriteBack, Return, NoJob, Job
      <3> QED BY <2>1, <3>1
    <2>4. ~ BgWake /\ ~ BgCredit /\ ~ BgExit
      BY <1>0, <2>1 DEF BgWake, BgCredit, BgExit, Threads
    <2>5. ~ Crash
      BY <2>1 DEF Crash, NoSession, Session, ThreadsAt, Threads
    <2> QED BY <2>2, <2>3, <2>4, <2>5 DEF Background
  <1>3. UNCHANGED svars => UNCHANGED saved
    BY DEF svars
  <1> QED BY <1>1, <1>2, <1>3 DEF SNext, OpenSnapshot, Crash, OpenActive

LEMMA SessionStepShows ==
  ASSUME SoloCompactor, "flush" \notin Faults, SessionInv, TreeInv, CopiesInv,
         LevelsRanked, LevelsRanked', [SNext]_svars, ~ ForgetsTombstones
  PROVE  SessionsCallByCall
PROOF
  <1>0. /\ TypeInv /\ JobInv /\ OrderInv /\ ContentInv /\ SavedInv
        /\ "user" \in Threads
    BY DEF SessionInv, TreeInv, Threads
  <1>1. ASSUME NEW k \in Keys, UNCHANGED saved
        PROVE  /\ \A v \in Values : Insert(k, v) => DurableKV!Put([i \in {k} |-> v])
               /\ Delete(k) => DurableKV!Remove({k})
    BY <1>0, <1>1, DurableWrites
  <1>2. \A n \in Names :
          /\ SaveLink(n) => IF saved[n] = None THEN DurableKV!SaveSnapshot(n)
                                               ELSE UNCHANGED DurableKV!vars
          /\ DeleteSnapshot(n) => DurableKV!DeleteSnapshot(n)
          /\ OpenSnapshot(n) => DurableKV!OpenSnapshot(n)
    BY <1>0, SaveLinkShows, DeleteShows, OpenSnapshotShows
  <1>3. ASSUME Joined \/ Crash PROVE DurableKV!Close
    <2>1. UNCHANGED saved
      BY <1>0, <1>3, SavedFrame
    <2>2. pc["user"] # "closed" /\ NoSession
      BY <1>3 DEF Joined, Crash
    <2> QED BY <2>1, <2>2, CloseShows
  <1>4. OpenActive => IF left.runs = {} THEN DurableKV!Open ELSE DurableKV!Adopt
    BY OpenActiveShows
  <1>5. ASSUME Flush \/ SaveSnapshot \/ Drop \/ Background PROVE UNCHANGED DurableKV!vars
    <2>1. UNCHANGED saved
      BY <1>0, <1>5, SavedFrame
    <2>2. UNCHANGED KV!vars
      BY <1>0, <1>5, FlushHidden, CallerHidden, BackgroundHidden
    <2> QED BY <2>1, <2>2, DurableSame
  <1> QED BY <1>1, <1>2, <1>3, <1>4, <1>5 DEF SessionsCallByCall

\* Every step of a session is one of the store's, or does not show.
LEMMA SessionStepRefines ==
  ASSUME SoloCompactor, "flush" \notin Faults, SessionInv, TreeInv, CopiesInv,
         LevelsRanked, LevelsRanked', [SNext]_svars, [~ ForgetsTombstones]_svars
  PROVE  [DurableKV!Next]_(DurableKV!vars)
PROOF
  <1>0. TypeInv /\ RunNumbersUnique
    BY DEF SessionInv
  <1>1. CASE UNCHANGED svars
    <2>1. UNCHANGED saved /\ UNCHANGED vars
      BY <1>1 DEF svars
    <2>2. UNCHANGED KV!vars
      BY <2>1 DEF vars, KV!vars, View, SnapshotViews, Contents, InFlight, RangeData,
                  RangeEntry, Overlay, Live, EmptyData
    <2> QED BY <2>1, <2>2, DurableSame
  <1>2. CASE SNext /\ ~ ForgetsTombstones
    <2>1. SessionsCallByCall
      BY <1>2, SessionStepShows
    <2>2. CASE UNCHANGED saved /\ (User \/ Background)
      <3>0. UNCHANGED SavedViews
        BY <2>2 DEF SavedViews, Contents, RangeData, RangeEntry
      <3>1. ASSUME NEW S \in SUBSET Keys, NEW w \in [S -> Values], KV!Put(w)
            PROVE  DurableKV!Next
        <4>1. DurableKV!Put(w)
          BY <3>0, <3>1 DEF KV!Put, DurableKV!Put
        <4> QED BY <4>1 DEF DurableKV!Next
      <3>2. ASSUME NEW S \in SUBSET Keys, KV!Remove(S) PROVE DurableKV!Next
        <4>1. DurableKV!Remove(S)
          BY <3>0, <3>2 DEF KV!Remove, DurableKV!Remove
        <4> QED BY <4>1 DEF DurableKV!Next
      <3>3. ASSUME NEW k \in Keys, NEW v \in Values, Insert(k, v) PROVE DurableKV!Next
        <4>1. KV!Put([i \in {k} |-> v])
          BY <1>0, <3>3, WritesShow
        <4>2. {k} \in SUBSET Keys /\ [i \in {k} |-> v] \in [{k} -> Values]
          OBVIOUS
        <4> QED BY <3>1, <4>1, <4>2
      <3>4. ASSUME NEW k \in Keys, Delete(k) PROVE DurableKV!Next
        <4>1. KV!Remove({k}) /\ {k} \in SUBSET Keys
          BY <1>0, <3>4, WritesShow
        <4> QED BY <3>2, <4>1
      <3>5. ASSUME NEW S \in SUBSET Keys, NEW w \in [S -> Values], InsertBatch(S, w)
            PROVE  DurableKV!Next
        BY <1>0, <3>1, <3>5, WritesShow
      <3>6. ASSUME NEW S \in SUBSET Keys, DeleteBatch(S) PROVE DurableKV!Next
        BY <1>0, <3>2, <3>6, WritesShow
      <3>7. ASSUME NEW s \in SnapIds, Snapshot(s) PROVE DurableKV!Next
        <4>1. KV!Snapshot(s)
          BY <1>0, <3>7, SnapshotShows
        <4>2. DurableKV!Snapshot(s)
          BY <3>0, <4>1 DEF KV!Snapshot, DurableKV!Snapshot
        <4> QED BY <4>2 DEF DurableKV!Next
      <3>8. ASSUME NEW s \in SnapIds, Rollback(s) PROVE DurableKV!Next
        <4>1. KV!Rollback(s)
          BY <1>0, <3>8, RollbackShows
        <4>2. DurableKV!Rollback(s)
          BY <3>0, <4>1 DEF KV!Rollback, DurableKV!Rollback
        <4> QED BY <4>2 DEF DurableKV!Next
      <3>9. ASSUME Joined PROVE DurableKV!Next
        BY <2>1, <3>9 DEF SessionsCallByCall, DurableKV!Next
      <3>10. ASSUME Flush \/ SaveSnapshot \/ Drop \/ Background
             PROVE  UNCHANGED DurableKV!vars
        BY <2>1, <3>10 DEF SessionsCallByCall
      <3>11. ~ ManualCompaction
        BY NoManualCompaction DEF TreeInv
      <3> QED BY <2>2, <3>3, <3>4, <3>5, <3>6, <3>7, <3>8, <3>9, <3>10, <3>11 DEF User
    <2>3. ASSUME NEW n \in Names, SaveLink(n) \/ DeleteSnapshot(n) \/ OpenSnapshot(n)
          PROVE  [DurableKV!Next]_(DurableKV!vars)
      <3>1. CASE SaveLink(n)
        <4>1. CASE saved[n] = None
          BY <2>1, <3>1, <4>1 DEF SessionsCallByCall, DurableKV!Next
        <4>2. CASE saved[n] # None
          BY <2>1, <3>1, <4>2 DEF SessionsCallByCall
        <4> QED BY <4>1, <4>2
      <3>2. CASE DeleteSnapshot(n) \/ OpenSnapshot(n)
        BY <2>1, <3>2 DEF SessionsCallByCall, DurableKV!Next
      <3> QED BY <2>3, <3>1, <3>2
    <2>4. CASE Crash \/ OpenActive
      BY <2>1, <2>4 DEF SessionsCallByCall, DurableKV!Next
    <2> QED BY <1>2, <2>2, <2>3, <2>4 DEF SNext
  <1> QED BY <1>1, <1>2

LEMMA TreeAlways ==
  ASSUME SoloCompactor
  PROVE  SSpec => [](TreeInv /\ CopiesInv)
PROOF
  <1>1. SSpec => []SessionInv
    BY SessionInit, SessionNext, PTL DEF SSpec
  <1>2. SInit => TreeInv /\ CopiesInv
    BY TreeInit DEF SInit, CopiesInv
  <1>3. SessionInv /\ SessionInv' /\ TreeInv /\ CopiesInv /\ [SNext]_svars
          => TreeInv' /\ CopiesInv'
    BY TreeNext
  <1> QED BY <1>1, <1>2, <1>3, PTL DEF SSpec

LEMMA SessionInitShows == SInit => DurableKV!Init
PROOF
  <1> SUFFICES ASSUME SInit PROVE DurableKV!Init
    OBVIOUS
  <1>1. KV!Init
    BY InitShows DEF SInit
  <1>2. SavedViews = [n \in Names |-> None]
    BY DEF SInit, SavedViews
  <1> QED BY <1>1, <1>2 DEF KV!Init, DurableKV!Init, KV!EmptyMap, DurableKV!EmptyMap

\* Across any number of sessions, crashes, saves and restores the tree is the
\* store with named copies, for every configuration whose caller leaves
\* compaction to the background thread and whose flushes do not fail: a save
\* holds what range shows while writes of the other thread go on, and
\* open_snapshot, which sorts the runs back into levels from their metadata,
\* shows exactly that (lib.rs:661-834, 1291-1324).  An open that finds whole
\* runs in active/, of a crash or of merges that failed, is Adopt; one that
\* finds none opens an empty store.  The excepted step is the one of
\* TreeImplementsKvStore (compaction.rs:404-417).
THEOREM SessionsImplementDurableKvStore ==
  SoloCompactor /\ "flush" \notin Faults
    => (SSpec /\ [][~ ForgetsTombstones]_svars
          => ImplementsDurableKvStore /\ DurableKV!Spec)
PROOF
  <1> SUFFICES ASSUME SoloCompactor, "flush" \notin Faults
               PROVE  SSpec /\ [][~ ForgetsTombstones]_svars
                        => ImplementsDurableKvStore /\ DurableKV!Spec
    OBVIOUS
  <1>1. SSpec => []SessionInv
    BY SessionInit, SessionNext, PTL DEF SSpec
  <1>2. SSpec => [](TreeInv /\ CopiesInv)
    BY TreeAlways
  <1>3. SessionInv => LevelsRanked
    BY RankedHeld DEF SessionInv, LevelsRanked
  <1>4. SSpec => []LevelsRanked
    BY <1>1, <1>3, PTL
  <1>5. /\ SessionInv /\ TreeInv /\ CopiesInv /\ LevelsRanked /\ LevelsRanked'
        /\ [SNext]_svars /\ [~ ForgetsTombstones]_svars
        => [SessionsCallByCall]_svars
    BY SessionStepShows
  <1>6. SSpec /\ [][~ ForgetsTombstones]_svars => ImplementsDurableKvStore
    BY <1>1, <1>2, <1>4, <1>5, SessionInitShows, PTL DEF SSpec, ImplementsDurableKvStore
  <1>7. /\ SessionInv /\ TreeInv /\ CopiesInv /\ LevelsRanked /\ LevelsRanked'
        /\ [SNext]_svars /\ [~ ForgetsTombstones]_svars
        => [DurableKV!Next]_(DurableKV!vars)
    BY SessionStepRefines
  <1>8. SSpec /\ [][~ ForgetsTombstones]_svars => DurableKV!Spec
    BY <1>1, <1>2, <1>4, <1>7, SessionInitShows, PTL DEF SSpec, DurableKV!Spec
  <1> QED BY <1>6, <1>8

---------------------------------------------------------------------------
(* A caller that deletes nothing: no run that a session writes, saves,     *)
(* leaves or starts from has a tombstone.                                  *)

PlainRuns(R) == \A r \in R : Plain(r.data)

PlainSessionInv ==
  /\ PlainInv
  /\ \A n \in Names : saved[n] # None => PlainRuns(AllRuns(saved[n]))

\* A session that starts from filled plain runs, or ends.
LEMMA PlainStarts ==
  ASSUME NEW R, PlainRuns(R), Filled(R), Files' = R,
         NEW lv, NEW n, StartSession(lv, n) \/ NoSession
  PROVE  PlainInv'
PROOF
  <1>1. memtable' = EmptyData /\ snapshots' = [s \in SnapIds |-> None]
    BY DEF StartSession, NoSession, Session
  <1>2. Plain(EmptyData)
    BY DataAssumption DEF Plain, EmptyData
  <1> QED BY <1>1, <1>2 DEF PlainInv, Plain, PlainRuns, Filled

LEMMA PlainSessionNext ==
  ASSUME PlainCaller, SessionInv, SessionInv', PlainSessionInv, [SNext]_svars
  PROVE  PlainSessionInv'
PROOF
  <1>0. TypeInv /\ TypeInv' /\ RunNumbersUnique /\ SavedInv /\ PlainInv
    BY DEF SessionInv, PlainSessionInv
  <1>1. ASSUME [Next]_vars PROVE PlainInv'
    BY <1>0, <1>1, PlainNext
  <1>2. UNCHANGED saved => \A n \in Names : saved'[n] # None => PlainRuns(AllRuns(saved'[n]))
    BY DEF PlainSessionInv, PlainRuns, AllRuns
  <1>3. CASE \/ (User \/ Background) /\ UNCHANGED saved
             \/ UNCHANGED svars
             \/ OpenActive
    <2>1. [Next]_vars /\ UNCHANGED saved
      BY <1>3, OpenIsOpen DEF Next, svars
    <2> QED BY <1>1, <1>2, <2>1 DEF PlainSessionInv, PlainRuns, AllRuns
  <1>4. ASSUME NEW n \in Names, SaveLink(n) PROVE PlainSessionInv'
    <2>1. PlainInv'
      BY <1>1, <1>4 DEF SaveLink, Next
    <2>2. PlainRuns(AllRuns(levels))
      BY <1>0, HeldParts DEF PlainInv, PlainRuns, Files
    <2>3. \A i \in Names : saved'[i] # None => PlainRuns(AllRuns(saved'[i]))
      BY <1>0, <1>4, <2>2 DEF SaveLink, SavedInv, PlainSessionInv
    <2> QED BY <2>1, <2>3 DEF PlainSessionInv, PlainRuns, AllRuns
  <1>5. ASSUME NEW n \in Names, DeleteSnapshot(n) PROVE PlainSessionInv'
    <2>1. PlainInv'
      BY <1>1, <1>5 DEF DeleteSnapshot
    <2>2. \A i \in Names : saved'[i] # None => PlainRuns(AllRuns(saved'[i]))
      BY <1>0, <1>5 DEF DeleteSnapshot, SavedInv, PlainSessionInv
    <2> QED BY <2>1, <2>2 DEF PlainSessionInv, PlainRuns, AllRuns
  <1>6. ASSUME NEW n \in Names, OpenSnapshot(n) PROVE PlainSessionInv'
    <2> DEFINE lv == RestoredLevels(saved[n])
               R == AllRuns(saved[n])
    <2>1. saved[n] \in LevelMap /\ Ranked(R) /\ Filled(R) /\ PlainRuns(R)
      BY <1>0, <1>6 DEF OpenSnapshot, SavedInv, Saveable, PlainSessionInv
    <2>2. lv \in LevelMap /\ AllRuns(lv) = R
      BY <2>1, RestoredRuns
    <2>3. MaxNum(R) + 1 \in Nat /\ R \subseteq RunsBelow(MaxNum(R) + 1)
      BY <2>1, MaxNumTop
    <2>4. StartSession(lv, MaxNum(R) + 1) /\ left' = NothingLeft /\ UNCHANGED saved
      BY <1>6 DEF OpenSnapshot
    <2> HIDE DEF lv, R
    <2>5. R = AllRuns(lv) \union left'.runs /\ LeftBelow(left', MaxNum(R) + 1)
      BY <2>2, <2>3, <2>4, NothingLeftType
    <2>6. Files' = R
      BY <2>1, <2>2, <2>3, <2>4, <2>5, SessionStarts
    <2>7. PlainInv'
      BY <2>1, <2>4, <2>6, PlainStarts
    <2> QED BY <1>2, <2>4, <2>7 DEF PlainSessionInv, PlainRuns, AllRuns
  <1>7. CASE Crash
    <2>1. /\ left'.runs \subseteq Files /\ Ranked(left'.runs)
          /\ next_run_number \in Nat /\ LeftBelow(left', next_run_number)
      BY <1>0, <1>7, CrashLeaves
    <2>2. NoSession /\ UNCHANGED saved
      BY <1>7 DEF Crash
    <2>3. 1 \in Nat /\ AllRuns(NoRuns) = {} /\ {} \subseteq RunsBelow(1)
          /\ NoRuns \in LevelMap /\ left'.runs = AllRuns(NoRuns) \union left'.runs
      BY NoRunsType
    <2>4. Filled(left'.runs) /\ PlainRuns(left'.runs)
      BY <1>0, <2>1 DEF Filled, PlainRuns, PlainInv
    <2>5. Files' = left'.runs
      BY <2>1, <2>2, <2>3, <2>4, SessionStarts
    <2>6. PlainInv'
      BY <2>2, <2>4, <2>5, PlainStarts
    <2> QED BY <1>2, <2>2, <2>6 DEF PlainSessionInv, PlainRuns, AllRuns
  <1> QED BY <1>3, <1>4, <1>5, <1>6, <1>7 DEF SNext

\* Sessions of a caller that deletes nothing implement the store with named
\* copies without exception, whatever merges into the bottom level, failed
\* merges, crashes and restores come between (compaction.rs:385-417,
\* lib.rs:661-834).  What merges and crashes leave whole, open adopts.
THEOREM PlainSessionsImplementDurableKvStore ==
  SoloCompactor /\ "flush" \notin Faults /\ PlainCaller
    => (SSpec => ImplementsDurableKvStore /\ DurableKV!Spec)
PROOF
  <1> SUFFICES ASSUME SoloCompactor, "flush" \notin Faults, PlainCaller
               PROVE  SSpec => ImplementsDurableKvStore /\ DurableKV!Spec
    OBVIOUS
  <1>1. SSpec => []SessionInv
    BY SessionInit, SessionNext, PTL DEF SSpec
  <1>2. SSpec => [](TreeInv /\ CopiesInv)
    BY TreeAlways
  <1>3. SInit => PlainSessionInv
    BY PlainInit DEF SInit, PlainSessionInv
  <1>4. SessionInv /\ SessionInv' /\ PlainSessionInv /\ [SNext]_svars => PlainSessionInv'
    BY PlainSessionNext
  <1>5. SSpec => []PlainSessionInv
    BY <1>1, <1>3, <1>4, PTL DEF SSpec
  <1>6. SessionInv /\ TreeInv /\ CopiesInv /\ PlainSessionInv => ~ ForgetsTombstones
    BY NothingForgotten DEF SessionInv, TreeInv, PlainSessionInv
  <1>7. SSpec => [][~ ForgetsTombstones]_svars
    BY <1>1, <1>2, <1>5, <1>6, PTL
  <1>8. SSpec /\ [][~ ForgetsTombstones]_svars => ImplementsDurableKvStore /\ DurableKV!Spec
    BY SessionsImplementDurableKvStore
  <1> QED BY <1>7, <1>8, PTL
=============================================================================
