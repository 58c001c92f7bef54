--------------------------- MODULE QueriesProofs ---------------------------
(* What is written to a run's files is what both readers find in them, for  *)
(* every length of keys and values, every hash and every number of entries; *)
(* and with it what scan_prefix, a snapshot's iterator and the folds show.  *)
EXTENDS Queries, LsmContentsProofs, FunctionTheorems

---------------------------------------------------------------------------
(* Loops.                                                                  *)

\* A set that has 0 and the successor of each number it has, has every number.
LEMMA AllNumbers ==
  ASSUME NEW S, 0 \in S, \A n \in Nat : n \in S => n + 1 \in S
  PROVE  Nat \subseteq S
PROOF
  <1> DEFINE T == Nat \ S
  <1>1. SUFFICES ASSUME T # {} PROVE FALSE
    OBVIOUS
  <1>2. PICK y \in T : \A x \in T : y <= x
    BY <1>1, LeastNumber
  <1>3. y \in Nat /\ y \notin S /\ y # 0
    BY <1>2
  <1>4. y - 1 \in Nat /\ y - 1 < y /\ (y - 1) + 1 = y
    BY <1>3
  <1> QED BY <1>2, <1>3, <1>4

\* A loop over T that starts with a and makes step n with g[n].
Loop(f, N, a, g) == f = [n \in 0 .. N |-> IF n = 0 THEN a ELSE g[n][f[n - 1]]]

\* Such a loop exists, as a function over its steps.
LEMMA LoopExists ==
  ASSUME NEW T, NEW a \in T, NEW N \in Nat, NEW g \in [1 .. N -> [T -> T]]
  PROVE  \E f \in [0 .. N -> T] : Loop(f, N, a, g)
PROOF
  <1> DEFINE S == {m \in Nat : m <= N => \E f \in [0 .. m -> T] : Loop(f, m, a, g)}
  <1>1. 0 \in S
    <2>1. [n \in 0 .. 0 |-> a] \in [0 .. 0 -> T] /\ Loop([n \in 0 .. 0 |-> a], 0, a, g)
      BY DEF Loop
    <2> QED BY <2>1
  <1>2. ASSUME NEW m \in Nat, m \in S PROVE m + 1 \in S
    <2>1. SUFFICES ASSUME m + 1 <= N
                   PROVE  \E f \in [0 .. m + 1 -> T] : Loop(f, m + 1, a, g)
      OBVIOUS
    <2>2. PICK f \in [0 .. m -> T] : Loop(f, m, a, g)
      BY <1>2, <2>1
    <2> DEFINE h == [n \in 0 .. m + 1 |-> IF n = m + 1 THEN g[m + 1][f[m]] ELSE f[n]]
    <2>3. g[m + 1][f[m]] \in T
      <3>1. m + 1 \in 1 .. N /\ f[m] \in T
        BY <2>1, <2>2
      <3> QED BY <3>1
    <2>4. h \in [0 .. m + 1 -> T]
      BY <2>2, <2>3
    <2>5. ASSUME NEW n \in 0 .. m + 1
          PROVE  h[n] = IF n = 0 THEN a ELSE g[n][h[n - 1]]
      <3>1. CASE n = m + 1
        <4>1. n # 0 /\ n - 1 = m /\ h[m] = f[m]
          BY <3>1
        <4> QED BY <3>1, <4>1
      <3>2. CASE n # m + 1
        <4>1. n \in 0 .. m /\ h[n] = f[n] /\ (n # 0 => h[n - 1] = f[n - 1])
          BY <3>2
        <4>2. f[n] = IF n = 0 THEN a ELSE g[n][f[n - 1]]
          BY <2>2, <4>1 DEF Loop
        <4> QED BY <4>1, <4>2
      <3> QED BY <3>1, <3>2
    <2>6. Loop(h, m + 1, a, g)
      BY <2>5 DEF Loop
    <2> HIDE DEF h
    <2> QED BY <2>4, <2>6
  <1>3. Nat \subseteq S
    <2> HIDE DEF S
    <2> QED BY <1>1, <1>2, AllNumbers
  <1> QED BY <1>3

---------------------------------------------------------------------------
(* The order of keys.                                                      *)

Precedes(a, b, i) ==
  /\ i \in 1 .. Len(a) /\ i <= Len(b)
  /\ a[i] < b[i] /\ \A j \in 1 .. i - 1 : a[j] = b[j]

Begins(a, b) == Len(a) <= Len(b) /\ \A j \in 1 .. Len(a) : a[j] = b[j]

\* IsPrefix of the community modules, byte by byte.
LEMMA PrefixIs ==
  ASSUME NEW a \in Seq(Byte), NEW b \in Seq(Byte)
  PROVE  IsPrefix(a, b) <=> Begins(a, b)
PROOF
  <1>1. Len(a) \in Nat /\ Len(b) \in Nat
    OBVIOUS
  <1>2. SUFFICES ASSUME Len(a) <= Len(b)
                 PROVE  SubSeq(a, 1, Len(a)) = SubSeq(b, 1, Len(a)) <=>
                          \A j \in 1 .. Len(a) : a[j] = b[j]
    BY DEF IsPrefix, Begins
  <1>3. /\ Len(SubSeq(a, 1, Len(a))) = Len(a) /\ Len(SubSeq(b, 1, Len(a))) = Len(a)
        /\ SubSeq(a, 1, Len(a)) \in Seq(Byte) /\ SubSeq(b, 1, Len(a)) \in Seq(Byte)
        /\ \A j \in 1 .. Len(a) : /\ SubSeq(a, 1, Len(a))[j] = a[j]
                                  /\ SubSeq(b, 1, Len(a))[j] = b[j]
    BY <1>1, <1>2
  <1> QED BY <1>1, <1>3, SeqEqual

\* Ord for byte strings: a prefix, or the first byte that differs.
LEMMA LeqIs ==
  ASSUME NEW a \in Seq(Byte), NEW b \in Seq(Byte)
  PROVE  KeyLeq(a, b) <=> Begins(a, b) \/ \E i \in Nat : Precedes(a, b, i)
PROOF
  <1>1. Len(a) \in Nat /\ Len(b) \in Nat
    OBVIOUS
  <1>2. ASSUME NEW i \in 1 .. Len(a), i <= Len(b)
        PROVE  SubSeq(a, 1, i - 1) = SubSeq(b, 1, i - 1) <=>
                 \A j \in 1 .. i - 1 : a[j] = b[j]
    <2>1. PICK m \in Nat : m = i - 1 /\ m <= Len(a) /\ m <= Len(b)
      BY <1>1, <1>2
    <2>2. /\ Len(SubSeq(a, 1, m)) = m /\ Len(SubSeq(b, 1, m)) = m
          /\ SubSeq(a, 1, m) \in Seq(Byte) /\ SubSeq(b, 1, m) \in Seq(Byte)
          /\ \A j \in 1 .. m : SubSeq(a, 1, m)[j] = a[j] /\ SubSeq(b, 1, m)[j] = b[j]
      BY <2>1, <1>1
    <2>3. SubSeq(a, 1, m) = SubSeq(b, 1, m) <=> \A j \in 1 .. m : a[j] = b[j]
      BY <2>2, SeqEqual
    <2> QED BY <2>1, <2>3
  <1>3. DOMAIN a \intersect DOMAIN b = {i \in 1 .. Len(a) : i <= Len(b)}
    BY <1>1
  <1>4. ASSUME NEW i \in DOMAIN a \intersect DOMAIN b,
               a[i] < b[i], SubSeq(a, 1, i - 1) = SubSeq(b, 1, i - 1)
        PROVE  i \in Nat /\ Precedes(a, b, i)
    <2>1. i \in 1 .. Len(a) /\ i <= Len(b)
      BY <1>3
    <2> QED BY <1>1, <1>2, <1>4, <2>1 DEF Precedes
  <1>5. ASSUME NEW i \in Nat, Precedes(a, b, i)
        PROVE  /\ i \in DOMAIN a \intersect DOMAIN b
               /\ a[i] < b[i] /\ SubSeq(a, 1, i - 1) = SubSeq(b, 1, i - 1)
    <2>1. i \in 1 .. Len(a) /\ i <= Len(b)
      BY <1>5 DEF Precedes
    <2> QED BY <1>2, <1>3, <1>5, <2>1 DEF Precedes
  <1>6. (\E i \in DOMAIN a \intersect DOMAIN b :
           a[i] < b[i] /\ SubSeq(a, 1, i - 1) = SubSeq(b, 1, i - 1))
        <=> \E i \in Nat : Precedes(a, b, i)
    BY <1>4, <1>5
  <1> QED BY <1>6, PrefixIs DEF KeyLeq

\* Byte strings are totally ordered.
LEMMA KeyOrder ==
  ASSUME NEW a \in Seq(Byte), NEW b \in Seq(Byte)
  PROVE  /\ KeyLeq(a, a)
         /\ KeyLeq(a, b) \/ KeyLeq(b, a)
         /\ KeyLeq(a, b) /\ KeyLeq(b, a) => a = b
         /\ \A c \in Seq(Byte) : KeyLeq(a, b) /\ KeyLeq(b, c) => KeyLeq(a, c)
PROOF
  <1>1. \A x \in Seq(Byte) : Len(x) \in Nat /\ \A i \in 1 .. Len(x) : x[i] \in Nat
    BY TableAssumption DEF Byte
  <1>2. KeyLeq(a, a)
    BY <1>1, LeqIs DEF Begins
  <1>3. KeyLeq(a, b) \/ KeyLeq(b, a)
    <2> DEFINE D == {i \in 1 .. Len(a) : i <= Len(b) /\ a[i] # b[i]}
    <2>1. CASE D = {}
      <3>1. \A i \in 1 .. Len(a) : i <= Len(b) => a[i] = b[i]
        BY <2>1
      <3>2. CASE Len(a) <= Len(b)
        <4>1. Begins(a, b)
          BY <1>1, <3>1, <3>2 DEF Begins
        <4> QED BY <4>1, LeqIs
      <3>3. CASE Len(b) <= Len(a)
        <4>1. ASSUME NEW j \in 1 .. Len(b) PROVE b[j] = a[j]
          BY <1>1, <3>1, <3>3
        <4>2. Begins(b, a)
          BY <3>3, <4>1 DEF Begins
        <4> QED BY <4>2, LeqIs
      <3> QED BY <1>1, <3>2, <3>3
    <2>2. CASE D # {}
      <3>1. D \subseteq Nat
        BY <1>1
      <3>2. PICK i \in D : \A j \in D : i <= j
        BY <2>2, <3>1, LeastNumber
      <3>3. \A j \in 1 .. i - 1 : a[j] = b[j]
        BY <1>1, <3>2
      <3>4. Precedes(a, b, i) \/ Precedes(b, a, i)
        BY <1>1, <3>2, <3>3 DEF Precedes
      <3> QED BY <3>1, <3>2, <3>4, LeqIs
    <2> QED BY <2>1, <2>2
  <1>4. ASSUME KeyLeq(a, b), KeyLeq(b, a) PROVE a = b
    <2>1. ASSUME NEW x \in Seq(Byte), NEW y \in Seq(Byte), NEW i \in Nat, Precedes(x, y, i)
          PROVE  ~ KeyLeq(y, x)
      <3>1. ~ Begins(y, x)
        BY <1>1, <2>1 DEF Precedes, Begins
      <3>2. ASSUME NEW j \in Nat, Precedes(y, x, j) PROVE FALSE
        <4>1. CASE i < j
          BY <1>1, <2>1, <3>2, <4>1 DEF Precedes
        <4>2. CASE j < i
          BY <1>1, <2>1, <3>2, <4>2 DEF Precedes
        <4>3. CASE i = j
          BY <1>1, <2>1, <3>2, <4>3 DEF Precedes
        <4> QED BY <4>1, <4>2, <4>3
      <3> QED BY <3>1, <3>2, LeqIs
    <2>2. Begins(a, b) /\ Begins(b, a)
      BY <1>4, <2>1, LeqIs
    <2> QED BY <1>1, <2>2, SeqEqual DEF Begins
  <1>5. ASSUME NEW c \in Seq(Byte), KeyLeq(a, b), KeyLeq(b, c) PROVE KeyLeq(a, c)
    <2>1. CASE Begins(a, b) /\ Begins(b, c)
      <3>1. Begins(a, c)
        BY <1>1, <2>1 DEF Begins
      <3> QED BY <3>1, LeqIs
    <2>2. ASSUME Begins(a, b), NEW i \in Nat, Precedes(b, c, i) PROVE KeyLeq(a, c)
      <3>1. CASE i <= Len(a)
        <4>1. Precedes(a, c, i)
          BY <1>1, <2>2, <3>1 DEF Begins, Precedes
        <4> QED BY <4>1, LeqIs
      <3>2. CASE ~(i <= Len(a))
        <4>1. Begins(a, c)
          BY <1>1, <2>2, <3>2 DEF Begins, Precedes
        <4> QED BY <4>1, LeqIs
      <3> QED BY <3>1, <3>2
    <2>3. ASSUME NEW i \in Nat, Precedes(a, b, i), Begins(b, c) PROVE KeyLeq(a, c)
      <3>1. Precedes(a, c, i)
        BY <1>1, <2>3 DEF Begins, Precedes
      <3> QED BY <3>1, LeqIs
    <2>4. ASSUME NEW i \in Nat, Precedes(a, b, i), NEW j \in Nat, Precedes(b, c, j)
          PROVE  KeyLeq(a, c)
      <3>1. CASE i <= j
        <4>1. Precedes(a, c, i)
          BY <1>1, <2>4, <3>1 DEF Precedes
        <4> QED BY <4>1, LeqIs
      <3>2. CASE ~(i <= j)
        <4>1. Precedes(a, c, j)
          BY <1>1, <2>4, <3>2 DEF Precedes
        <4> QED BY <4>1, LeqIs
      <3> QED BY <3>1, <3>2
    <2> QED BY <1>5, <2>1, <2>2, <2>3, <2>4, LeqIs
  <1> QED BY <1>2, <1>3, <1>4, <1>5

\* The keys of a run, each once.
LEMMA SortedKeysAre ==
  ASSUME NEW d \in Data
  PROVE  /\ Cardinality(Present(d)) \in Nat
         /\ DOMAIN SortedKeys(d) = 1 .. Cardinality(Present(d))
         /\ \A i \in DOMAIN SortedKeys(d) : SortedKeys(d)[i] \in Present(d)
         /\ \A i, j \in DOMAIN SortedKeys(d) : SortedKeys(d)[i] = SortedKeys(d)[j] => i = j
         /\ \A k \in Present(d) : \E i \in DOMAIN SortedKeys(d) : SortedKeys(d)[i] = k
PROOF
  <1> DEFINE P == Present(d)
             n == Cardinality(P)
             UpTo(k) == {j \in P : KeyLeq(j, k)}
             Rank(k) == Cardinality(UpTo(k))
             f == [k \in P |-> Rank(k)]
             s == SortedKeys(d)
  <1>1. P \subseteq Keys /\ P \subseteq Seq(Byte)
    <2>1. Keys \subseteq Seq(Byte)
      BY DataAssumption, TableAssumption
    <2> QED BY <2>1 DEF Present
  <1>2. IsFiniteSet(P) /\ n \in Nat
    BY <1>1, DataAssumption, FS_Subset, FS_CardinalityType
  <1>3. ASSUME NEW k \in P
        PROVE  k \in UpTo(k) /\ IsFiniteSet(UpTo(k)) /\ Rank(k) \in 1 .. n
    <2>1. k \in UpTo(k) /\ UpTo(k) \in SUBSET P
      BY <1>1, KeyOrder
    <2> HIDE DEF UpTo, P
    <2>2. IsFiniteSet(UpTo(k)) /\ Cardinality(UpTo(k)) <= n
      BY <1>2, <2>1, FS_Subset
    <2>3. Cardinality(UpTo(k)) \in Nat /\ Cardinality(UpTo(k)) # 0
      BY <2>1, <2>2, FS_CardinalityType, FS_EmptySet
    <2> QED BY <1>2, <2>1, <2>2, <2>3
  <1>4. ASSUME NEW k \in P, NEW j \in P, KeyLeq(k, j), k # j
        PROVE  Rank(k) # Rank(j)
    <2>1. UpTo(k) \in SUBSET UpTo(j)
      BY <1>1, <1>4, KeyOrder
    <2>2. j \in UpTo(j) /\ j \notin UpTo(k)
      BY <1>1, <1>3, <1>4, KeyOrder
    <2>3. IsFiniteSet(UpTo(j))
      BY <1>3
    <2> HIDE DEF UpTo
    <2> QED BY <2>1, <2>2, <2>3, FS_Subset
  <1>5. \A k, j \in P : Rank(k) = Rank(j) => k = j
    BY <1>1, <1>4, KeyOrder
  <1>6. \A i \in 1 .. n : \E k \in P : Rank(k) = i
    <2> HIDE DEF Rank, P
    <2>1. f \in [P -> 1 .. n] /\ \A k, j \in P : f[k] = f[j] => k = j
      BY <1>3, <1>5
    <2> HIDE DEF f
    <2>2. f \in Injection(P, 1 .. n)
      BY <2>1, Fun_IsInj
    <2>3. IsFiniteSet(1 .. n) /\ Cardinality(1 .. n) = n
      BY <1>2, FS_Interval
    <2>4. f \in Surjection(P, 1 .. n)
      BY <1>2, <2>2, <2>3, FS_Injection
    <2>5. \A i \in 1 .. n : \E k \in P : f[k] = i
      BY <2>4, Fun_SurjectionProperties
    <2> QED BY <2>5 DEF f
  <1>7. s = [i \in 1 .. n |-> CHOOSE k \in P : Rank(k) = i]
    BY DEF SortedKeys
  <1> HIDE DEF s, Rank, P
  <1>8. DOMAIN s = 1 .. n /\ \A i \in 1 .. n : s[i] \in P /\ Rank(s[i]) = i
    BY <1>6, <1>7
  <1>9. \A k \in P : s[Rank(k)] = k
    BY <1>3, <1>5, <1>8
  <1> QED BY <1>2, <1>3, <1>8, <1>9 DEF P, s

---------------------------------------------------------------------------
(* The writer's loop.                                                      *)

TableFiles ==
  [keyops : Seq(Nat), blobs : Seq(Nat), offsets : Seq(Nat),
   current_keyops_offset : Nat, blob_offset : Nat]

Entries == Values \union {Tombstone}

\* The offsets are the lengths of what is written.
Counted(w) == w.current_keyops_offset = Len(w.keyops) /\ w.blob_offset = Len(w.blobs)

\* The value v is what the entry's fields in keyops refer to.
BlobIn(keyops, blobs, at, v) ==
  /\ at + 2 * OffsetWidth <= Len(keyops)
  /\ keyops[at + 1] \in Nat /\ keyops[at + OffsetWidth + 1] = Len(v)
  /\ keyops[at + 1] + Len(v) <= Len(blobs)
  /\ \A i \in 1 .. Len(v) : blobs[keyops[at + 1] + i] = v[i]

\* The entry of k and v is at a position.
EntryIn(keyops, blobs, at, k, v) ==
  /\ at + EntryLen(k, v) <= Len(keyops)
  /\ keyops[at + 1] = Len(k)
  /\ \A i \in 1 .. Len(k) : keyops[at + LenWidth + i] = k[i]
  /\ keyops[at + LenWidth + Len(k) + 1] = IF v = Tombstone THEN 0 ELSE 1
  /\ v # Tombstone => BlobIn(keyops, blobs, at + LenWidth + Len(k) + 1, v)

\* c is a and then b.
Concatenated(a, b, c) ==
  /\ Len(c) = Len(a) + Len(b)
  /\ \A i \in 1 .. Len(a) : c[i] = a[i]
  /\ \A i \in 1 .. Len(b) : c[Len(a) + i] = b[i]

\* Concatenation keeps both parts in their places.
LEMMA Concat ==
  ASSUME NEW a \in Seq(Nat), NEW b \in Seq(Nat)
  PROVE  a \o b \in Seq(Nat) /\ Concatenated(a, b, a \o b)
PROOF
  <1>1. Len(a) \in Nat /\ Len(b) \in Nat
    OBVIOUS
  <1> QED BY <1>1 DEF Concatenated

\* A number's field.
IsField(f, width, n) == f \in Seq(Nat) /\ Len(f) = width /\ f[1] = n

\* to_le_bytes writes as many bytes as the width says.
LEMMA FieldType ==
  ASSUME NEW width \in Nat \ {0}, NEW n \in Nat
  PROVE  IsField(Field(width, n), width, n)
PROOF
  <1>1. Field(width, n) \in [1 .. width -> Nat]
    BY DEF Field
  <1> QED BY <1>1, SeqDef DEF Field, IsField

\* Keys and values are byte strings.
LEMMA KeyType ==
  /\ Keys \subseteq Seq(Byte) /\ Keys \subseteq Seq(Nat) /\ Values \subseteq Seq(Nat)
  /\ \A k \in Keys : Len(k) = KeyLen
PROOF
  <1>1. Byte \subseteq Nat
    BY TableAssumption DEF Byte
  <1>2. Keys \subseteq Seq(Byte) /\ \A k \in Keys : Len(k) = KeyLen
    BY DataAssumption, TableAssumption
  <1>3. Seq(Byte) \subseteq Seq(Nat)
    <2> SUFFICES ASSUME NEW x \in Seq(Byte) PROVE x \in Seq(Nat)
      OBVIOUS
    <2>1. x \in [1 .. Len(x) -> Byte] /\ Len(x) \in Nat
      BY LenProperties
    <2>2. x \in [1 .. Len(x) -> Nat]
      BY <1>1, <2>1
    <2> QED BY <2>1, <2>2, SeqDef
  <1> QED BY <1>2, <1>3, TableAssumption

\* The bytes of an entry; its operation is at m.
IsEntry(e, k, v, o) ==
  LET m == LenWidth + Len(k) + 1
  IN  /\ e \in Seq(Nat) /\ Len(e) = EntryLen(k, v)
      /\ e[1] = Len(k)
      /\ \A i \in 1 .. Len(k) : e[LenWidth + i] = k[i]
      /\ e[m] = IF v = Tombstone THEN 0 ELSE 1
      /\ v # Tombstone => e[m + 1] = o /\ e[m + OffsetWidth + 1] = Len(v)

\* The bytes of an entry that finish writes (sstable.rs:152-187).
LEMMA EntryBytes ==
  ASSUME NEW k \in Keys, NEW v \in Entries, NEW o \in Nat
  PROVE  EntryLen(k, v) \in Nat \ {0} /\ IsEntry(KeyopsEntry(k, v, o), k, v, o)
PROOF
  <1> DEFINE a == Field(LenWidth, Len(k))
             e == KeyopsEntry(k, v, o)
  <1>1. k \in Seq(Nat) /\ Len(k) \in Nat
    BY KeyType
  <1>2. PICK f \in Seq(Nat) : f = a \o k /\ a \in Seq(Nat) /\ Concatenated(a, k, f)
                              /\ IsField(a, 4, Len(k))
    <2>1. IsField(a, LenWidth, Len(k)) /\ LenWidth = 4
      <3>1. LenWidth \in Nat \ {0} /\ LenWidth = 4
        BY DEF LenWidth
      <3> QED BY <1>1, <3>1, FieldType
    <2>2. a \in Seq(Nat)
      BY <2>1 DEF IsField
    <2> HIDE DEF a
    <2> QED BY <1>1, <2>1, <2>2, Concat
  <1>3. /\ Len(f) = 4 + Len(k) /\ f[1] = Len(k)
        /\ \A i \in 1 .. Len(k) : f[4 + i] = k[i]
    <2> HIDE DEF a
    <2>1. Len(a) = 4 /\ a[1] = Len(k)
      BY <1>2 DEF IsField
    <2> QED BY <1>1, <1>2, <2>1 DEF Concatenated
  <1>4. CASE v = Tombstone
    <2>0. <<0>> \in Seq(Nat)
      OBVIOUS
    <2>1. PICK b \in Seq(Nat) : b = <<0>>
      BY <2>0
    <2>2. Len(b) = 1 /\ b[1] = 0
      BY <2>1
    <2>3. e = f \o b
      BY <1>2, <1>4, <2>1 DEF KeyopsEntry
    <2> HIDE DEF e
    <2>4. e \in Seq(Nat) /\ Concatenated(f, b, e)
      BY <2>3, Concat
    <2>5. Len(e) = Len(f) + 1 /\ (\A i \in 1 .. Len(f) : e[i] = f[i]) /\ e[Len(f) + 1] = 0
      BY <2>2, <2>4 DEF Concatenated
    <2>6. /\ Len(e) = 4 + Len(k) + 1
          /\ e[1] = Len(k) /\ \A i \in 1 .. Len(k) : e[4 + i] = k[i]
          /\ e[4 + Len(k) + 1] = 0
      BY <1>1, <1>3, <2>5
    <2> QED BY <1>1, <1>4, <2>4, <2>6 DEF EntryLen, LenWidth, OpWidth, e, IsEntry
  <1>5. CASE v # Tombstone
    <2>1. v \in Seq(Nat) /\ Len(v) \in Nat
      BY <1>5, KeyType DEF Entries
    <2> DEFINE ref == Field(OffsetWidth, o)
               len == Field(OffsetWidth, Len(v))
    <2>2. IsField(ref, 8, o) /\ IsField(len, 8, Len(v))
      <3>1. OffsetWidth \in Nat \ {0} /\ OffsetWidth = 8
        BY DEF OffsetWidth
      <3> QED BY <2>1, <3>1, FieldType
    <2>0. <<1>> \in Seq(Nat)
      OBVIOUS
    <2>3. PICK one \in Seq(Nat) : one = <<1>>
      BY <2>0
    <2>4. Len(one) = 1 /\ one[1] = 1
      BY <2>3
    <2>5. e = f \o ((one \o ref) \o len)
      BY <1>2, <1>5, <2>3 DEF KeyopsEntry
    <2> HIDE DEF a, e, ref, len
    <2>6. /\ ref \in Seq(Nat) /\ Len(ref) = 8 /\ ref[1] = o
          /\ len \in Seq(Nat) /\ Len(len) = 8 /\ len[1] = Len(v)
      BY <2>2 DEF IsField
    <2>7. PICK g \in Seq(Nat) : g = one \o ref /\ Concatenated(one, ref, g)
      BY <2>6, Concat
    <2>8. PICK b \in Seq(Nat) : b = g \o len /\ Concatenated(g, len, b)
      BY <2>6, Concat
    <2>9. e \in Seq(Nat) /\ Concatenated(f, b, e)
      BY <2>5, <2>7, <2>8, Concat
    <2>10. Len(g) = 9 /\ g[1] = 1 /\ g[2] = o
      <3>1. Len(g) = 9 /\ g[1] = 1 /\ g[Len(one) + 1] = ref[1]
        <4>1. 1 \in 1 .. 1 /\ 1 \in 1 .. 8
          OBVIOUS
        <4>2. Len(g) = 9 /\ g[1] = one[1]
          <5>1. Concatenated(one, ref, g)
            BY <2>7
          <5> QED BY <2>4, <2>6, <4>1, <5>1 DEF Concatenated
        <4>3. g[Len(one) + 1] = ref[1]
          BY <2>6, <2>7, <4>1 DEF Concatenated
        <4> QED BY <2>4, <4>2, <4>3
      <3> QED BY <2>4, <2>6, <3>1
    <2>11. Len(b) = 17 /\ b[1] = 1 /\ b[2] = o /\ b[10] = Len(v)
      <3>1. Len(b) = 17 /\ b[1] = 1 /\ b[2] = o /\ b[Len(g) + 1] = len[1]
        <4>1. 1 \in 1 .. 9 /\ 2 \in 1 .. 9 /\ 1 \in 1 .. 8
          OBVIOUS
        <4>2. Len(b) = 17 /\ b[1] = g[1] /\ b[2] = g[2]
          <5>1. Concatenated(g, len, b)
            BY <2>8
          <5> QED BY <2>6, <2>10, <4>1, <5>1 DEF Concatenated
        <4>3. b[Len(g) + 1] = len[1]
          BY <2>6, <2>8, <4>1 DEF Concatenated
        <4> QED BY <2>10, <4>2, <4>3
      <3> QED BY <2>6, <2>10, <3>1
    <2>12. /\ Len(e) = Len(f) + 17 /\ \A i \in 1 .. Len(f) : e[i] = f[i]
           /\ e[Len(f) + 1] = 1 /\ e[Len(f) + 2] = o /\ e[Len(f) + 10] = Len(v)
      <3>1. 1 \in 1 .. 17 /\ 2 \in 1 .. 17 /\ 10 \in 1 .. 17
        OBVIOUS
      <3> QED BY <2>9, <2>11, <3>1 DEF Concatenated
    <2>13. PICK m \in Nat : m = 4 + Len(k) + 1 /\ m = Len(f) + 1
      BY <1>1, <1>3
    <2>14. /\ Len(e) = m + 16
           /\ e[1] = Len(k) /\ \A i \in 1 .. Len(k) : e[4 + i] = k[i]
           /\ e[m] = 1 /\ e[m + 1] = o /\ e[m + 8 + 1] = Len(v)
      <3>1. Len(e) = m + 16 /\ e[m] = 1
        BY <1>3, <2>12, <2>13
      <3>2. m + 1 = Len(f) + 2 /\ m + 8 + 1 = Len(f) + 10
        BY <2>13
      <3>3. e[1] = Len(k) /\ \A i \in 1 .. Len(k) : e[4 + i] = k[i]
        <4>1. 1 \in 1 .. Len(f) /\ \A i \in 1 .. Len(k) : 4 + i \in 1 .. Len(f)
          BY <1>1, <1>3
        <4> QED BY <1>3, <2>12, <4>1
      <3> QED BY <2>12, <3>1, <3>2, <3>3
    <2> QED BY <1>1, <1>5, <2>9, <2>13, <2>14
            DEF EntryLen, LenWidth, OpWidth, OffsetWidth, e, IsEntry
  <1> QED BY <1>4, <1>5

\* An entry stands as long as the files only grow.
LEMMA EntryStays ==
  ASSUME NEW f \in Seq(Nat), NEW b \in Seq(Nat), NEW g \in Seq(Nat), NEW c \in Seq(Nat),
         Begins(f, g), Begins(b, c),
         NEW k \in Keys, NEW v \in Entries, NEW at \in Nat, EntryIn(f, b, at, k, v)
  PROVE  EntryIn(g, c, at, k, v)
PROOF
  <1>1. k \in Seq(Nat) /\ Len(k) \in Nat /\ (v # Tombstone => v \in Seq(Nat) /\ Len(v) \in Nat)
    BY KeyType DEF Entries
  <1>2. /\ Len(f) \in Nat /\ Len(b) \in Nat /\ Len(g) \in Nat /\ Len(c) \in Nat
        /\ Len(f) <= Len(g) /\ Len(b) <= Len(c)
        /\ \A i \in 1 .. Len(f) : g[i] = f[i]
        /\ \A i \in 1 .. Len(b) : c[i] = b[i]
    BY DEF Begins
  <1>3. EntryLen(k, v) \in Nat /\ EntryLen(k, v) >= LenWidth + Len(k) + 1
    BY <1>1 DEF EntryLen, LenWidth, OpWidth, OffsetWidth
  <1>4. at + EntryLen(k, v) <= Len(g)
    BY <1>2, <1>3 DEF EntryIn
  <1>5. \A i \in 1 .. LenWidth + Len(k) + 1 : g[at + i] = f[at + i]
    BY <1>1, <1>2, <1>3 DEF EntryIn, LenWidth
  <1>6. /\ g[at + 1] = Len(k)
        /\ \A i \in 1 .. Len(k) : g[at + LenWidth + i] = k[i]
        /\ g[at + LenWidth + Len(k) + 1] = IF v = Tombstone THEN 0 ELSE 1
    <2>1. g[at + 1] = f[at + 1]
      <3>1. 1 \in 1 .. LenWidth + Len(k) + 1
        BY <1>1 DEF LenWidth
      <3> QED BY <1>5, <3>1
    <2>2. ASSUME NEW i \in 1 .. Len(k) PROVE g[at + LenWidth + i] = f[at + LenWidth + i]
      <3>1. LenWidth + i \in 1 .. LenWidth + Len(k) + 1
            /\ at + (LenWidth + i) = at + LenWidth + i
        BY <1>1 DEF LenWidth
      <3> QED BY <1>5, <3>1
    <2>3. g[at + LenWidth + Len(k) + 1] = f[at + LenWidth + Len(k) + 1]
      <3>1. LenWidth + Len(k) + 1 \in 1 .. LenWidth + Len(k) + 1
            /\ at + (LenWidth + Len(k) + 1) = at + LenWidth + Len(k) + 1
        BY <1>1 DEF LenWidth
      <3> QED BY <1>5, <3>1
    <2> QED BY <2>1, <2>2, <2>3 DEF EntryIn
  <1>7. ASSUME v # Tombstone PROVE BlobIn(g, c, at + LenWidth + Len(k) + 1, v)
    <2>1. PICK p \in Nat : p = at + LenWidth + Len(k) + 1
      BY <1>1 DEF LenWidth
    <2>2. BlobIn(f, b, p, v)
      BY <1>7, <2>1 DEF EntryIn
    <2>3. p + 16 <= Len(f) /\ g[p + 1] = f[p + 1] /\ g[p + 9] = f[p + 9]
      <3>1. p + 16 <= Len(f)
        BY <2>2 DEF BlobIn, OffsetWidth
      <3>2. p + 1 \in 1 .. Len(f) /\ p + 9 \in 1 .. Len(f)
        BY <1>2, <3>1
      <3> QED BY <1>2, <3>1, <3>2
    <2>4. BlobIn(g, c, p, v)
      <3>1. PICK o \in Nat : o = f[p + 1]
        BY <2>2 DEF BlobIn
      <3>2. /\ f[p + 9] = Len(v) /\ o + Len(v) <= Len(b)
            /\ \A i \in 1 .. Len(v) : b[o + i] = v[i]
        BY <2>2, <3>1 DEF BlobIn, OffsetWidth
      <3>3. \A i \in 1 .. Len(v) : c[o + i] = v[i]
        BY <1>1, <1>2, <1>7, <3>2
      <3>4. p + 16 <= Len(g) /\ o + Len(v) <= Len(c)
        <4>1. Len(v) \in Nat
          BY <1>1, <1>7
        <4>2. PICK m \in Nat : m = o + Len(v)
          BY <4>1
        <4>3. p + 16 <= Len(g)
          BY <1>2, <2>3
        <4> QED BY <1>2, <3>2, <4>2, <4>3
      <3> QED BY <2>3, <3>1, <3>2, <3>3, <3>4 DEF BlobIn, OffsetWidth
    <2> QED BY <2>1, <2>4
  <1> QED BY <1>4, <1>6, <1>7 DEF EntryIn

\* x is w and then the entry of k and v.
Grown(w, x, k, v) ==
  /\ x \in TableFiles /\ Counted(x)
  /\ Begins(w.keyops, x.keyops) /\ Begins(w.blobs, x.blobs)
  /\ x.current_keyops_offset = w.current_keyops_offset + EntryLen(k, v)
  /\ Len(x.offsets) = Len(w.offsets) + 1
  /\ \A i \in 1 .. Len(w.offsets) : x.offsets[i] = w.offsets[i]
  /\ x.offsets[Len(w.offsets) + 1] = w.current_keyops_offset
  /\ EntryIn(x.keyops, x.blobs, w.current_keyops_offset, k, v)

\* A step of finish's loop keeps what was written and adds one entry.
LEMMA WriteGrows ==
  ASSUME NEW w \in TableFiles, Counted(w), NEW k \in Keys, NEW v \in Entries
  PROVE  Grown(w, WriteEntry(w, k, v), k, v)
PROOF
  <1> DEFINE x == WriteEntry(w, k, v)
  <1>1. PICK f \in Seq(Nat), b \in Seq(Nat), at \in Nat, o \in Nat :
          /\ f = w.keyops /\ b = w.blobs
          /\ at = w.current_keyops_offset /\ o = w.blob_offset
          /\ at = Len(f) /\ o = Len(b) /\ w.offsets \in Seq(Nat)
    BY DEF TableFiles, Counted
  <1>2. PICK e \in Seq(Nat) : e = KeyopsEntry(k, v, o) /\ IsEntry(e, k, v, o)
    BY EntryBytes DEF IsEntry
  <1>3. Blob(v) \in Seq(Nat)
    BY KeyType DEF Blob, Entries
  <1>4. PICK z \in Seq(Nat) : z = Blob(v)
    BY <1>3
  <1>5. PICK g \in Seq(Nat) : g = f \o e /\ Concatenated(f, e, g)
    BY Concat
  <1>6. PICK c \in Seq(Nat) : c = b \o z /\ Concatenated(b, z, c)
    BY Concat
  <1>7. /\ x.keyops = g /\ x.blobs = c
        /\ x.offsets = Append(w.offsets, at)
        /\ x.current_keyops_offset = at + EntryLen(k, v)
        /\ x.blob_offset = o + Len(z)
        /\ x = [keyops |-> g, blobs |-> c, offsets |-> Append(w.offsets, at),
                current_keyops_offset |-> at + EntryLen(k, v), blob_offset |-> o + Len(z)]
    BY <1>1, <1>2, <1>4, <1>5, <1>6 DEF WriteEntry
  <1>8. Len(e) = EntryLen(k, v) /\ EntryLen(k, v) \in Nat /\ Len(k) \in Nat
    <2>1. Len(k) \in Nat
      BY KeyType
    <2> QED BY <1>2, <2>1, EntryBytes DEF IsEntry
  <1> HIDE DEF x
  <1>9. /\ Append(w.offsets, at) \in Seq(Nat)
        /\ Len(Append(w.offsets, at)) = Len(w.offsets) + 1
        /\ \A i \in 1 .. Len(w.offsets) : Append(w.offsets, at)[i] = w.offsets[i]
        /\ Append(w.offsets, at)[Len(w.offsets) + 1] = at
    BY <1>1
  <1>10. /\ Len(f) \in Nat /\ Len(b) \in Nat /\ Len(z) \in Nat
         /\ Len(g) = Len(f) + Len(e) /\ Len(c) = Len(b) + Len(z)
    BY <1>5, <1>6 DEF Concatenated
  <1>11. x \in TableFiles /\ Counted(x)
    <2>1. PICK q \in Nat, u \in Nat, os \in Seq(Nat) :
            q = at + EntryLen(k, v) /\ u = o + Len(z) /\ os = Append(w.offsets, at)
      <3>1. at + EntryLen(k, v) \in Nat /\ o + Len(z) \in Nat
        BY <1>8, <1>10
      <3> QED BY <1>9, <3>1
    <2>2. x = [keyops |-> g, blobs |-> c, offsets |-> os,
               current_keyops_offset |-> q, blob_offset |-> u]
      BY <1>7, <2>1
    <2>3. x \in TableFiles
      BY <2>2 DEF TableFiles
    <2> QED BY <1>1, <1>7, <1>8, <1>10, <2>3 DEF Counted
  <1>12. Begins(f, g) /\ Begins(b, c)
    <2>1. \A i \in 1 .. Len(f) : f[i] = g[i]
      BY <1>5 DEF Concatenated
    <2>2. \A i \in 1 .. Len(b) : b[i] = c[i]
      BY <1>6 DEF Concatenated
    <2>3. Len(f) <= Len(g) /\ Len(b) <= Len(c)
      BY <1>8, <1>10
    <2> QED BY <2>1, <2>2, <2>3 DEF Begins
  <1>13. EntryIn(g, c, at, k, v)
    <2>1. \A i \in 1 .. EntryLen(k, v) : g[at + i] = e[i]
      BY <1>1, <1>5, <1>8 DEF Concatenated
    <2>2. EntryLen(k, v) = LenWidth + Len(k) + 1 + (IF v = Tombstone THEN 0 ELSE 16)
      BY DEF EntryLen, OpWidth, OffsetWidth
    <2>3. /\ e[1] = Len(k)
          /\ \A i \in 1 .. Len(k) : e[LenWidth + i] = k[i]
          /\ e[LenWidth + Len(k) + 1] = IF v = Tombstone THEN 0 ELSE 1
      BY <1>2 DEF IsEntry
    <2>4. g[at + 1] = Len(k)
      <3>1. 1 \in 1 .. EntryLen(k, v)
        BY <1>8, <2>2 DEF LenWidth
      <3> QED BY <2>1, <2>3, <3>1
    <2>5. ASSUME NEW i \in 1 .. Len(k) PROVE g[at + LenWidth + i] = k[i]
      <3>1. LenWidth + i \in 1 .. EntryLen(k, v) /\ at + (LenWidth + i) = at + LenWidth + i
        BY <1>8, <2>2 DEF LenWidth
      <3> QED BY <2>1, <2>3, <3>1
    <2>6. PICK m \in Nat : m = LenWidth + Len(k) + 1 /\ at + m = at + LenWidth + Len(k) + 1
      <3>1. LenWidth + Len(k) + 1 \in Nat
            /\ at + (LenWidth + Len(k) + 1) = at + LenWidth + Len(k) + 1
        BY <1>8 DEF LenWidth
      <3> QED BY <3>1
    <2>7. g[at + m] = IF v = Tombstone THEN 0 ELSE 1
      <3>1. m \in 1 .. EntryLen(k, v)
        BY <1>8, <2>2, <2>6 DEF LenWidth
      <3> QED BY <2>1, <2>3, <2>6, <3>1
    <2>8. ASSUME v # Tombstone PROVE BlobIn(g, c, at + m, v)
      <3>1. e[m + 1] = o /\ e[m + 9] = Len(v) /\ Len(v) \in Nat
        <4>1. e[m + 1] = o /\ e[m + OffsetWidth + 1] = Len(v)
          BY <1>2, <2>6, <2>8 DEF IsEntry
        <4>2. m + OffsetWidth + 1 = m + 9
          BY DEF OffsetWidth
        <4>3. Len(v) \in Nat
          BY <2>8, KeyType DEF Entries
        <4> QED BY <4>1, <4>2, <4>3
      <3>2. EntryLen(k, v) = m + 16
        BY <2>2, <2>6, <2>8
      <3>3. /\ g[at + m + 1] = o /\ g[at + m + 9] = Len(v)
        <4>1. m + 1 \in 1 .. EntryLen(k, v) /\ m + 9 \in 1 .. EntryLen(k, v)
          BY <3>2
        <4>2. g[at + (m + 1)] = e[m + 1] /\ g[at + (m + 9)] = e[m + 9]
          BY <2>1, <4>1
        <4>3. at + (m + 1) = at + m + 1 /\ at + (m + 9) = at + m + 9
          OBVIOUS
        <4> QED BY <3>1, <4>2, <4>3
      <3>4. /\ o + Len(v) <= Len(c)
            /\ \A i \in 1 .. Len(v) : c[o + i] = v[i]
        <4>1. z = v
          BY <1>4, <2>8 DEF Blob
        <4>2. Concatenated(b, z, c) /\ o = Len(b)
          BY <1>1, <1>6
        <4>3. Len(c) = Len(b) + Len(z) /\ \A i \in 1 .. Len(z) : c[Len(b) + i] = z[i]
          BY <4>2 DEF Concatenated
        <4>4. Len(b) + Len(z) <= Len(c)
          BY <1>10, <4>3
        <4> QED BY <4>1, <4>2, <4>3, <4>4
      <3>5. at + m + 16 <= Len(g)
        <4>1. Len(g) = Len(f) + Len(e) /\ at = Len(f) /\ Len(e) = m + 16
          BY <1>1, <1>8, <1>10, <3>2
        <4>2. PICK y \in Nat : y = m + 16 /\ at + y = at + m + 16
          OBVIOUS
        <4> QED BY <4>1, <4>2
      <3>6. at + m + 2 * OffsetWidth = at + m + 16 /\ at + m + OffsetWidth + 1 = at + m + 9
        BY DEF OffsetWidth
      <3> QED BY <3>3, <3>4, <3>5, <3>6 DEF BlobIn
    <2>9. at + EntryLen(k, v) <= Len(g)
      BY <1>1, <1>8, <1>10
    <2> QED BY <2>4, <2>5, <2>6, <2>7, <2>8, <2>9 DEF EntryIn
  <1>14. Len(x.offsets) = Len(w.offsets) + 1
         /\ (\A i \in 1 .. Len(w.offsets) : x.offsets[i] = w.offsets[i])
         /\ x.offsets[Len(w.offsets) + 1] = w.current_keyops_offset
    BY <1>1, <1>7, <1>9
  <1>15. /\ Begins(w.keyops, x.keyops) /\ Begins(w.blobs, x.blobs)
         /\ x.current_keyops_offset = w.current_keyops_offset + EntryLen(k, v)
         /\ EntryIn(x.keyops, x.blobs, w.current_keyops_offset, k, v)
    BY <1>1, <1>7, <1>12, <1>13
  <1> QED BY <1>11, <1>14, <1>15 DEF Grown, x

\* The loop's states: w[n] has the first n entries.
Writes(s, d, w) ==
  /\ w \in [0 .. Len(s) -> TableFiles]
  /\ w[0] = NothingWritten
  /\ \A n \in 1 .. Len(s) : w[n] = WriteEntry(w[n - 1], s[n], d[s[n]])

\* The sorted keys are keys, as many as the run has entries.
LEMMA KeysInOrder ==
  ASSUME NEW d \in Data
  PROVE  /\ SortedKeys(d) \in Seq(Keys)
         /\ \A i \in 1 .. Len(SortedKeys(d)) :
              SortedKeys(d)[i] \in Keys /\ d[SortedKeys(d)[i]] \in Entries
PROOF
  <1> DEFINE s == SortedKeys(d)
             n == Cardinality(Present(d))
  <1>1. /\ n \in Nat /\ DOMAIN s = 1 .. n
        /\ \A i \in 1 .. n : s[i] \in Present(d)
    BY SortedKeysAre
  <1>2. s = [i \in 1 .. n |-> s[i]]
    BY DEF SortedKeys
  <1> HIDE DEF s, n
  <1>3. \A k \in Present(d) : k \in Keys /\ d[k] \in Entries
    BY DEF Present, Data, Entries
  <1>4. s \in [1 .. n -> Keys]
    BY <1>1, <1>2, <1>3
  <1>5. s \in Seq(Keys) /\ Len(s) = n
    BY <1>1, <1>4, SeqDef
  <1> QED BY <1>1, <1>3, <1>5 DEF s

\* finish starts with empty files and offsets of 0.
LEMMA NothingWrittenType == NothingWritten \in TableFiles /\ Counted(NothingWritten)
PROOF
  <1>1. <<>> \in Seq(Nat) /\ Len(<<>>) = 0
    OBVIOUS
  <1> QED BY <1>1 DEF NothingWritten, TableFiles, Counted

\* Written is the last state of finish's loop.
LEMMA WrittenIs ==
  ASSUME NEW d \in Data
  PROVE  \E w : Writes(SortedKeys(d), d, w) /\ Written(d) = w[Len(SortedKeys(d))]
PROOF
  <1> DEFINE s == SortedKeys(d)
             m == Len(s)
             Good == {w \in TableFiles : Counted(w)}
             g == [n \in 1 .. m |-> [w \in Good |-> WriteEntry(w, s[n], d[s[n]])]]
             body(f) == [n \in 0 .. m |-> IF n = 0 THEN NothingWritten
                                          ELSE WriteEntry(f[n - 1], s[n], d[s[n]])]
  <1>1. m \in Nat /\ \A n \in 1 .. m : s[n] \in Keys /\ d[s[n]] \in Entries
    BY KeysInOrder
  <1>2. Written(d) = (CHOOSE f : f = body(f))[m]
    BY DEF Written
  <1> HIDE DEF s, m
  <1>3. g \in [1 .. m -> [Good -> Good]]
    <2>1. ASSUME NEW n \in 1 .. m, NEW w \in Good
          PROVE  WriteEntry(w, s[n], d[s[n]]) \in Good
      BY <1>1, WriteGrows DEF Grown
    <2> HIDE DEF Good
    <2> QED BY <2>1
  <1>4. NothingWritten \in Good
    BY NothingWrittenType
  <1>5. PICK f \in [0 .. m -> Good] : Loop(f, m, NothingWritten, g)
    <2> HIDE DEF g, Good
    <2> QED BY <1>1, <1>3, <1>4, LoopExists
  <1>6. f = body(f)
    <2>1. ASSUME NEW n \in 0 .. m, n # 0 PROVE g[n][f[n - 1]] = WriteEntry(f[n - 1], s[n], d[s[n]])
      <3>1. n \in 1 .. m /\ f[n - 1] \in Good
        BY <1>1, <1>5, <2>1
      <3> QED BY <3>1
    <2> HIDE DEF g
    <2> QED BY <1>5, <2>1 DEF Loop
  <1>7. PICK w : w = CHOOSE x : x = body(x)
    OBVIOUS
  <1>8. w = body(w)
    BY <1>6, <1>7
  <1> HIDE DEF body
  <1>9. w[0] = NothingWritten
        /\ \A n \in 1 .. m : w[n] = WriteEntry(w[n - 1], s[n], d[s[n]])
    BY <1>1, <1>8 DEF body
  <1>10. w \in [0 .. m -> TableFiles]
    <2>1. DOMAIN w = 0 .. m /\ w = [n \in 0 .. m |-> w[n]]
      BY <1>8 DEF body
    <2> DEFINE S == {n \in Nat : n <= m => w[n] \in Good}
    <2>2. 0 \in S
      BY <1>4, <1>9
    <2>3. ASSUME NEW n \in Nat, n \in S PROVE n + 1 \in S
      <3>1. SUFFICES ASSUME n + 1 <= m PROVE w[n + 1] \in Good
        OBVIOUS
      <3>2. w[n] \in Good /\ n + 1 \in 1 .. m /\ (n + 1) - 1 = n
        BY <1>1, <2>3, <3>1
      <3>3. PICK x \in Good : x = w[n]
        BY <3>2
      <3>4. w[n + 1] = WriteEntry(x, s[n + 1], d[s[n + 1]])
        BY <1>9, <3>2, <3>3
      <3> QED BY <1>1, <3>2, <3>4, WriteGrows DEF Grown
    <2>4. Nat \subseteq S
      <3> HIDE DEF S
      <3> QED BY <2>2, <2>3, AllNumbers
    <2>5. \A n \in 0 .. m : w[n] \in TableFiles
      BY <1>1, <2>4
    <2> QED BY <2>1, <2>5
  <1>11. Writes(s, d, w)
    BY <1>9, <1>10 DEF Writes, m
  <1>12. Written(d) = w[Len(s)]
    BY <1>2, <1>7 DEF m, body
  <1> QED BY <1>11, <1>12 DEF s

\* Where the files of d are what: entry n begins at at[n - 1].
Stands(t, d, s, at) ==
  /\ t.keyops \in Seq(Nat) /\ t.blobs \in Seq(Nat)
  /\ at \in [0 .. Len(s) -> Nat] /\ at[0] = 0 /\ at[Len(s)] = Len(t.keyops)
  /\ \A n \in 1 .. Len(s) :
       /\ at[n] = at[n - 1] + EntryLen(s[n], d[s[n]])
       /\ t.offsets[n] = at[n - 1]
       /\ EntryIn(t.keyops, t.blobs, at[n - 1], s[n], d[s[n]])

\* What the loop has written after p entries.
Laid(w, s, d, p) ==
  /\ Counted(w[p]) /\ Len(w[p].offsets) = p
  /\ \A n \in 1 .. p :
       /\ w[n].current_keyops_offset
            = w[n - 1].current_keyops_offset + EntryLen(s[n], d[s[n]])
       /\ w[p].offsets[n] = w[n - 1].current_keyops_offset
       /\ EntryIn(w[p].keyops, w[p].blobs, w[n - 1].current_keyops_offset, s[n], d[s[n]])

\* A step of the loop lays down the next entry after the others.
LEMMA LaidMore ==
  ASSUME NEW d \in Data, NEW s \in Seq(Keys),
         \A n \in 1 .. Len(s) : s[n] \in Keys /\ d[s[n]] \in Entries,
         NEW w, Writes(s, d, w), NEW p \in Nat, p + 1 <= Len(s), Laid(w, s, d, p)
  PROVE  Laid(w, s, d, p + 1)
PROOF
  <1>1. Len(s) \in Nat
    OBVIOUS
  <1>2. PICK x \in TableFiles, y \in TableFiles, k \in Keys, v \in Entries :
          /\ x = w[p] /\ y = w[p + 1] /\ k = s[p + 1] /\ v = d[s[p + 1]]
    BY <1>1 DEF Writes
  <1>3. y = WriteEntry(x, k, v)
    <2>1. p + 1 \in 1 .. Len(s) /\ (p + 1) - 1 = p
      BY <1>1
    <2>2. w[p + 1] = WriteEntry(w[(p + 1) - 1], s[p + 1], d[s[p + 1]])
      BY <2>1 DEF Writes
    <2> QED BY <1>2, <2>1, <2>2
  <1>4. Counted(x) /\ Len(x.offsets) = p
    BY <1>2 DEF Laid
  <1>5. Grown(x, y, k, v)
    BY <1>3, <1>4, WriteGrows
  <1>6. Counted(y) /\ Len(y.offsets) = p + 1
    BY <1>4, <1>5 DEF Grown
  <1>7. ASSUME NEW n \in 1 .. p
        PROVE  /\ w[n].current_keyops_offset
                    = w[n - 1].current_keyops_offset + EntryLen(s[n], d[s[n]])
               /\ y.offsets[n] = w[n - 1].current_keyops_offset
               /\ EntryIn(y.keyops, y.blobs, w[n - 1].current_keyops_offset, s[n], d[s[n]])
    <2>1. n - 1 \in 0 .. Len(s) /\ n \in 1 .. Len(s)
      BY <1>1
    <2>2. w[n - 1] \in TableFiles /\ s[n] \in Keys /\ d[s[n]] \in Entries
      BY <2>1 DEF Writes
    <2>3. PICK at \in Nat, j \in Keys, u \in Entries :
            at = w[n - 1].current_keyops_offset /\ j = s[n] /\ u = d[s[n]]
      BY <2>2 DEF TableFiles
    <2>4. /\ w[n].current_keyops_offset = at + EntryLen(j, u)
          /\ x.offsets[n] = at
          /\ EntryIn(x.keyops, x.blobs, at, j, u)
      BY <1>2, <2>3 DEF Laid
    <2>5. y.offsets[n] = x.offsets[n]
      BY <1>4, <1>5 DEF Grown
    <2>6. EntryIn(y.keyops, y.blobs, at, j, u)
      <3>1. /\ x.keyops \in Seq(Nat) /\ x.blobs \in Seq(Nat)
            /\ y.keyops \in Seq(Nat) /\ y.blobs \in Seq(Nat)
        BY DEF TableFiles
      <3>2. Begins(x.keyops, y.keyops) /\ Begins(x.blobs, y.blobs)
        BY <1>5 DEF Grown
      <3> QED BY <2>4, <3>1, <3>2, EntryStays
    <2> QED BY <2>3, <2>4, <2>5, <2>6
  <1>8. /\ y.current_keyops_offset = x.current_keyops_offset + EntryLen(k, v)
        /\ y.offsets[p + 1] = x.current_keyops_offset
        /\ EntryIn(y.keyops, y.blobs, x.current_keyops_offset, k, v)
    BY <1>4, <1>5 DEF Grown
  <1>9. ASSUME NEW n \in 1 .. p + 1
        PROVE  /\ w[n].current_keyops_offset
                    = w[n - 1].current_keyops_offset + EntryLen(s[n], d[s[n]])
               /\ y.offsets[n] = w[n - 1].current_keyops_offset
               /\ EntryIn(y.keyops, y.blobs, w[n - 1].current_keyops_offset, s[n], d[s[n]])
    <2>1. CASE n \in 1 .. p
      BY <1>7, <2>1
    <2>2. CASE n = p + 1
      <3>1. n - 1 = p
        BY <2>2
      <3> QED BY <1>2, <1>8, <2>2, <3>1
    <2> QED BY <2>1, <2>2
  <1> QED BY <1>2, <1>6, <1>9 DEF Laid

\* In the files of a run every entry stands at its offset in the index.
LEMMA TableStands ==
  ASSUME NEW d \in Data
  PROVE  \E at : Stands(Table(d), d, SortedKeys(d), at)
PROOF
  <1> DEFINE s == SortedKeys(d)
             m == Len(s)
  <1>1. /\ s \in Seq(Keys) /\ m \in Nat
        /\ \A n \in 1 .. m : s[n] \in Keys /\ d[s[n]] \in Entries
    BY KeysInOrder
  <1>2. PICK w : Writes(s, d, w) /\ Written(d) = w[m]
    BY WrittenIs
  <1> DEFINE at == [n \in 0 .. m |-> w[n].current_keyops_offset]
             t == Table(d)
  <1>3. t.keyops = w[m].keyops /\ t.blobs = w[m].blobs /\ t.offsets = w[m].offsets
    BY <1>2 DEF Table
  <1> HIDE DEF s, t
  <1>4. Laid(w, s, d, m)
    <2> DEFINE S == {p \in Nat : p <= m => Laid(w, s, d, p)}
    <2>1. 0 \in S
      <3>1. w[0] = NothingWritten /\ Len(w[0].offsets) = 0
        BY <1>2 DEF Writes, NothingWritten
      <3> QED BY <3>1, NothingWrittenType DEF Laid
    <2>2. ASSUME NEW p \in Nat, p \in S PROVE p + 1 \in S
      <3>1. SUFFICES ASSUME p + 1 <= m PROVE Laid(w, s, d, p + 1)
        OBVIOUS
      <3>2. Laid(w, s, d, p)
        BY <1>1, <2>2, <3>1
      <3> QED BY <1>1, <1>2, <3>1, <3>2, LaidMore
    <2>3. Nat \subseteq S
      <3> HIDE DEF S
      <3> QED BY <2>1, <2>2, AllNumbers
    <2> QED BY <1>1, <2>3
  <1>5. /\ at \in [0 .. m -> Nat] /\ at[0] = 0
        /\ \A n \in 0 .. m : at[n] = w[n].current_keyops_offset
    <2>1. \A n \in 0 .. m : w[n] \in TableFiles
      BY <1>2 DEF Writes
    <2>2. \A n \in 0 .. m : w[n].current_keyops_offset \in Nat
      BY <2>1 DEF TableFiles
    <2>3. w[0].current_keyops_offset = 0
      BY <1>2 DEF Writes, NothingWritten
    <2> QED BY <1>1, <2>2, <2>3
  <1>6. w[m] \in TableFiles
    BY <1>1, <1>2 DEF Writes
  <1> HIDE DEF at, m
  <1>7. t.keyops \in Seq(Nat) /\ t.blobs \in Seq(Nat) /\ at[m] = Len(t.keyops)
    <2>1. w[m].current_keyops_offset = Len(w[m].keyops)
      BY <1>4 DEF Laid, Counted
    <2>2. m \in 0 .. m
      BY <1>1
    <2>3. at[m] = Len(w[m].keyops)
      BY <1>5, <2>1, <2>2
    <2>4. w[m].keyops \in Seq(Nat) /\ w[m].blobs \in Seq(Nat)
      BY <1>6 DEF TableFiles
    <2> QED BY <1>3, <2>3, <2>4
  <1>8. ASSUME NEW n \in 1 .. m
        PROVE  /\ at[n] = at[n - 1] + EntryLen(s[n], d[s[n]])
               /\ t.offsets[n] = at[n - 1]
               /\ EntryIn(t.keyops, t.blobs, at[n - 1], s[n], d[s[n]])
    <2>1. n \in 0 .. m /\ n - 1 \in 0 .. m
      BY <1>1
    <2>2. at[n] = w[n].current_keyops_offset /\ at[n - 1] = w[n - 1].current_keyops_offset
      BY <1>5, <2>1
    <2> QED BY <1>3, <1>4, <2>2 DEF Laid
  <1>9. Stands(t, d, s, at)
    BY <1>5, <1>7, <1>8 DEF Stands, m
  <1> QED BY <1>9 DEF s, t

---------------------------------------------------------------------------
(* What the readers find.                                                  *)

\* A positioned read gets the bytes that stand there.
LEMMA ReadIs ==
  ASSUME NEW f \in Seq(Nat), NEW x \in Seq(Nat), NEW o \in Nat,
         o + Len(x) <= Len(f), \A i \in 1 .. Len(x) : f[o + i] = x[i]
  PROVE  ReadAt(f, o, Len(x)) = x
PROOF
  <1>1. PICK m \in Nat : m = Len(x) /\ o + m <= Len(f)
    OBVIOUS
  <1>2. SubSeq(f, o + 1, o + m) \in Seq(Nat) /\ Len(SubSeq(f, o + 1, o + m)) = m
        /\ \A i \in 1 .. m : SubSeq(f, o + 1, o + m)[i] = f[o + i]
    BY <1>1
  <1>3. SubSeq(f, o + 1, o + m) = x
    BY <1>1, <1>2, SeqEqual
  <1> QED BY <1>1, <1>3 DEF ReadAt, Fits

\* An entry is read as it was written, and the next one begins where it ends.
LEMMA EntryRead ==
  ASSUME NEW t, t.keyops \in Seq(Nat), t.blobs \in Seq(Nat),
         NEW at \in Nat, NEW k \in Keys, NEW v \in Entries,
         EntryIn(t.keyops, t.blobs, at, k, v)
  PROVE  /\ OpAt(t, at) = at + LenWidth + Len(k)
         /\ OpAt(t, at) + OpWidth <= Len(t.keyops)
         /\ ReadNumber(t.keyops, OpAt(t, at)) = IF v = Tombstone THEN 0 ELSE 1
         /\ v # Tombstone => ReadBlob(t, OpAt(t, at) + OpWidth) = v
         /\ EntryAt(t, at) = [key |-> k, value |-> v]
         /\ EntryEnd(t, at) = at + EntryLen(k, v)
PROOF
  <1>1. PICK f \in Seq(Nat), b \in Seq(Nat) : f = t.keyops /\ b = t.blobs /\ Len(f) \in Nat
    OBVIOUS
  <1>2. k \in Seq(Nat) /\ Len(k) \in Nat /\ (v # Tombstone => v \in Seq(Nat) /\ Len(v) \in Nat)
    BY KeyType DEF Entries
  <1>3. PICK op \in Nat : op = at + 4 + Len(k)
    BY <1>2
  <1>4. /\ op + 1 + (IF v = Tombstone THEN 0 ELSE 16) <= Len(f)
        /\ f[at + 1] = Len(k) /\ \A i \in 1 .. Len(k) : f[at + 4 + i] = k[i]
        /\ f[op + 1] = IF v = Tombstone THEN 0 ELSE 1
        /\ v # Tombstone => BlobIn(f, b, op + 1, v)
        /\ at + EntryLen(k, v) = op + 1 + (IF v = Tombstone THEN 0 ELSE 16)
    BY <1>1, <1>2, <1>3 DEF EntryIn, EntryLen, LenWidth, OpWidth, OffsetWidth
  <1>5. OpAt(t, at) = op /\ OpAt(t, at) = at + LenWidth + Len(k)
    BY <1>1, <1>3, <1>4 DEF OpAt, ReadNumber, LenWidth
  <1>6. OpAt(t, at) + OpWidth <= Len(t.keyops)
    BY <1>1, <1>4, <1>5 DEF OpWidth
  <1>7. ReadNumber(t.keyops, OpAt(t, at)) = IF v = Tombstone THEN 0 ELSE 1
    BY <1>1, <1>4, <1>5 DEF ReadNumber
  <1>8. ASSUME v # Tombstone PROVE ReadBlob(t, OpAt(t, at) + OpWidth) = v
    <2>1. PICK p \in Nat : p = op + 1 /\ p = OpAt(t, at) + OpWidth
      BY <1>5 DEF OpWidth
    <2>2. BlobIn(f, b, p, v) /\ v \in Seq(Nat)
      BY <1>2, <1>4, <1>8, <2>1
    <2>3. PICK o \in Nat : o = f[p + 1]
      BY <2>2 DEF BlobIn
    <2>4. /\ Fits(f, p, 2 * OffsetWidth)
          /\ ReadNumber(f, p) = o /\ ReadNumber(f, p + OffsetWidth) = Len(v)
      BY <2>2, <2>3 DEF BlobIn, Fits, ReadNumber
    <2>5. ReadAt(b, o, Len(v)) = v
      <3>1. o + Len(v) <= Len(b) /\ \A i \in 1 .. Len(v) : b[o + i] = v[i]
        BY <2>2, <2>3 DEF BlobIn
      <3> QED BY <2>2, <3>1, ReadIs
    <2> QED BY <1>1, <2>1, <2>4, <2>5 DEF ReadBlob
  <1>9. ReadAt(t.keyops, at + LenWidth, ReadNumber(t.keyops, at)) = k
    <2>1. PICK o \in Nat : o = at + 4 /\ o = at + LenWidth
      BY DEF LenWidth
    <2>2. o + Len(k) <= Len(f) /\ \A i \in 1 .. Len(k) : f[o + i] = k[i]
      BY <1>2, <1>3, <1>4, <2>1
    <2>3. ReadAt(f, o, Len(k)) = k
      BY <1>2, <2>2, ReadIs
    <2>4. ReadNumber(f, at) = Len(k)
      BY <1>4 DEF ReadNumber
    <2> QED BY <1>1, <2>1, <2>3, <2>4
  <1>10. EntryAt(t, at) = [key |-> k, value |-> v]
    BY <1>7, <1>8, <1>9 DEF EntryAt
  <1>11. EntryEnd(t, at) = at + EntryLen(k, v)
    BY <1>2, <1>4, <1>5, <1>7 DEF EntryEnd, OpWidth, OffsetWidth
  <1> QED BY <1>5, <1>6, <1>7, <1>8, <1>10, <1>11

\* What the parser has found after n entries.
Parsed(c, n, s, d, at, from, to) ==
  /\ c.position = at[n]
  /\ RunSet(c.results) =
       {[key |-> s[i], value |-> d[s[i]]] : i \in {j \in 1 .. n : InBounds(s[j], from, to)}}

\* Append adds one element to the set of those in a sequence.
LEMMA PushSet ==
  ASSUME NEW S, NEW q \in Seq(S), NEW e
  PROVE  RunSet(Append(q, e)) = RunSet(q) \union {e}
PROOF
  <1>1. Len(q) \in Nat /\ DOMAIN q = 1 .. Len(q)
    OBVIOUS
  <1>2. /\ DOMAIN Append(q, e) = 1 .. Len(q) + 1
        /\ \A i \in 1 .. Len(q) : Append(q, e)[i] = q[i]
        /\ Append(q, e)[Len(q) + 1] = e
    BY <1>1
  <1>3. 1 .. Len(q) + 1 = (1 .. Len(q)) \union {Len(q) + 1}
    BY <1>1
  <1> QED BY <1>1, <1>2, <1>3 DEF RunSet

\* A step of the parser reads the next entry.
LEMMA ParseMore ==
  ASSUME NEW d \in Data, NEW s, Len(s) \in Nat,
         \A n \in 1 .. Len(s) : s[n] \in Keys /\ d[s[n]] \in Entries,
         NEW t, NEW at, Stands(t, d, s, at), NEW from, NEW to,
         NEW S, NEW c \in [position : Nat, results : Seq(S)],
         NEW n \in Nat, n + 1 <= Len(s), Parsed(c, n, s, d, at, from, to),
         ParseEntry(t, c, from, to) \in [position : Nat, results : Seq(S)]
  PROVE  Parsed(ParseEntry(t, c, from, to), n + 1, s, d, at, from, to)
PROOF
  <1> DEFINE x == ParseEntry(t, c, from, to)
             all(p) == {[key |-> s[i], value |-> d[s[i]]] :
                          i \in {j \in 1 .. p : InBounds(s[j], from, to)}}
  <1>1. PICK k \in Keys, v \in Entries : k = s[n + 1] /\ v = d[s[n + 1]]
    OBVIOUS
  <1>2. PICK p \in Nat : p = at[n]
    <2>1. n \in 0 .. Len(s)
      OBVIOUS
    <2> QED BY <2>1 DEF Stands
  <1>3. /\ t.keyops \in Seq(Nat) /\ t.blobs \in Seq(Nat)
        /\ at[n + 1] = p + EntryLen(k, v)
        /\ EntryIn(t.keyops, t.blobs, p, k, v)
    <2>1. n + 1 \in 1 .. Len(s) /\ (n + 1) - 1 = n
      OBVIOUS
    <2>2. /\ at[n + 1] = at[(n + 1) - 1] + EntryLen(s[n + 1], d[s[n + 1]])
          /\ EntryIn(t.keyops, t.blobs, at[(n + 1) - 1], s[n + 1], d[s[n + 1]])
      BY <2>1 DEF Stands
    <2>3. t.keyops \in Seq(Nat) /\ t.blobs \in Seq(Nat)
      BY DEF Stands
    <2> QED BY <1>1, <1>2, <2>1, <2>2, <2>3
  <1>4. EntryAt(t, p) = [key |-> k, value |-> v] /\ EntryEnd(t, p) = p + EntryLen(k, v)
    BY <1>3, EntryRead
  <1>5. ~(p >= Len(t.keyops))
    <2>1. EntryLen(k, v) \in Nat \ {0}
      BY EntryBytes
    <2>2. p + EntryLen(k, v) <= Len(t.keyops)
      BY <1>3 DEF EntryIn
    <2> QED BY <1>3, <2>1, <2>2
  <1>6. c.position = p
    BY <1>2 DEF Parsed
  <1>7. x = [position |-> p + EntryLen(k, v),
             results |-> IF InBounds(k, from, to)
                           THEN Append(c.results, [key |-> k, value |-> v]) ELSE c.results]
    <2> DEFINE e == [key |-> k, value |-> v]
    <2>1. e.key = k
      OBVIOUS
    <2>2. EntryAt(t, c.position) = e /\ EntryEnd(t, c.position) = p + EntryLen(k, v)
      BY <1>4, <1>6
    <2> HIDE DEF e
    <2>3. ~(c.position >= Len(t.keyops))
      BY <1>5, <1>6
    <2>4. x = [position |-> EntryEnd(t, c.position),
               results |-> IF InBounds(e.key, from, to) THEN Append(c.results, e)
                                                        ELSE c.results]
      BY <2>2, <2>3 DEF ParseEntry
    <2>5. x = [position |-> p + EntryLen(k, v),
               results |-> IF InBounds(k, from, to) THEN Append(c.results, e)
                                                    ELSE c.results]
      BY <2>1, <2>2, <2>4
    <2> QED BY <2>5 DEF e
  <1>8. x.position = at[n + 1]
    BY <1>3, <1>7
  <1>9. RunSet(c.results) = all(n)
    BY DEF Parsed
  <1>10. all(n + 1) = IF InBounds(k, from, to) THEN all(n) \union {[key |-> k, value |-> v]}
                                              ELSE all(n)
    <2>1. 1 .. n + 1 = (1 .. n) \union {n + 1}
      OBVIOUS
    <2> QED BY <1>1, <2>1
  <1>11. RunSet(x.results) = all(n + 1)
    <2>1. c.results \in Seq(S)
      OBVIOUS
    <2> HIDE DEF all, x
    <2>2. RunSet(Append(c.results, [key |-> k, value |-> v]))
            = RunSet(c.results) \union {[key |-> k, value |-> v]}
      BY <2>1, PushSet
    <2>3. x.results = IF InBounds(k, from, to)
                        THEN Append(c.results, [key |-> k, value |-> v]) ELSE c.results
      BY <1>7
    <2> QED BY <1>9, <1>10, <2>2, <2>3
  <1> HIDE DEF x
  <1> QED BY <1>8, <1>11 DEF Parsed, x, all

\* The loop over a written file reads every entry of it, and then stops.
LEMMA ParserReads ==
  ASSUME NEW d \in Data, NEW from, NEW to
  PROVE  RunSet(RangeWithTombstones(Table(d), from, to)) =
           {[key |-> k, value |-> d[k]] : k \in {j \in Present(d) : InBounds(j, from, to)}}
PROOF
  <1> DEFINE s == SortedKeys(d)
             m == Len(s)
             t == Table(d)
             N == Len(t.keyops)
             E == {EntryAt(t, x) : x \in Nat}
             T == [position : Nat, results : Seq(E)]
             start == [position |-> 0, results |-> <<>>]
             g == [n \in 1 .. N |-> [c \in T |-> ParseEntry(t, c, from, to)]]
             body(f) == [n \in 0 .. N |-> IF n = 0 THEN start
                                          ELSE ParseEntry(t, f[n - 1], from, to)]
  <1>1. m \in Nat /\ \A n \in 1 .. m : s[n] \in Keys /\ d[s[n]] \in Entries
    BY KeysInOrder
  <1>2. PICK at : Stands(t, d, s, at)
    BY TableStands
  <1>3. RangeWithTombstones(t, from, to) = (CHOOSE f : f = body(f))[N].results
    BY DEF RangeWithTombstones
  <1>4. Present(d) = {s[i] : i \in 1 .. m}
    <2>1. DOMAIN s = 1 .. m
      BY KeysInOrder
    <2> QED BY <2>1, SortedKeysAre
  <1> HIDE DEF s, m, t
  <1>5. t.keyops \in Seq(Nat) /\ N \in Nat /\ at \in [0 .. m -> Nat]
        /\ at[0] = 0 /\ at[m] = N
    <2>1. t.keyops \in Seq(Nat) /\ at \in [0 .. m -> Nat] /\ at[0] = 0 /\ at[m] = N
      BY <1>2 DEF Stands, m
    <2> QED BY <2>1
  <1>6. \A n \in 1 .. m : at[n] > at[n - 1]
    <2>1. ASSUME NEW n \in 1 .. m PROVE at[n] > at[n - 1]
      <3>1. at[n] = at[n - 1] + EntryLen(s[n], d[s[n]])
        BY <1>2 DEF Stands, m
      <3>2. PICK k \in Keys, v \in Entries : k = s[n] /\ v = d[s[n]]
        BY <1>1
      <3>3. EntryLen(k, v) \in Nat \ {0}
        BY EntryBytes
      <3>4. at[n - 1] \in Nat
        BY <1>1, <1>5
      <3> QED BY <3>1, <3>2, <3>3, <3>4
    <2> QED BY <2>1
  <1>7. m <= N
    <2> DEFINE S == {n \in Nat : n <= m => at[n] >= n}
    <2>1. 0 \in S
      BY <1>5
    <2>2. ASSUME NEW n \in Nat, n \in S PROVE n + 1 \in S
      <3>1. SUFFICES ASSUME n + 1 <= m PROVE at[n + 1] >= n + 1
        OBVIOUS
      <3>2. at[n] >= n /\ at[n] \in Nat /\ at[n + 1] \in Nat
        BY <1>1, <1>5, <2>2, <3>1
      <3>3. n + 1 \in 1 .. m /\ (n + 1) - 1 = n
        BY <1>1, <3>1
      <3>4. at[n + 1] > at[n]
        BY <1>6, <3>3
      <3> QED BY <3>2, <3>4
    <2>3. Nat \subseteq S
      <3> HIDE DEF S
      <3> QED BY <2>1, <2>2, AllNumbers
    <2> QED BY <1>1, <1>5, <2>3
  <1> HIDE DEF N
  <1>8. ASSUME NEW c \in T PROVE ParseEntry(t, c, from, to) \in T
    <2>1. CASE c.position >= Len(t.keyops)
      BY <2>1 DEF ParseEntry
    <2>2. CASE ~(c.position >= Len(t.keyops))
      <3>1. PICK p \in Nat : p = c.position
        OBVIOUS
      <3>2. EntryEnd(t, p) \in Nat
        <4>1. t.keyops[p + 1] \in Nat
          <5>1. PICK f \in Seq(Nat) : f = t.keyops
            BY <1>5
          <5>2. p + 1 \in 1 .. Len(f)
            BY <2>2, <3>1, <5>1
          <5> QED BY <5>1, <5>2, ElementOfSeq
        <4>2. OpAt(t, p) \in Nat
          BY <4>1 DEF OpAt, ReadNumber, LenWidth
        <4> QED BY <4>2 DEF EntryEnd, OpWidth, OffsetWidth
      <3>3. EntryAt(t, p) \in E /\ c.results \in Seq(E)
        OBVIOUS
      <3> HIDE DEF E
      <3>4. PICK e \in E, q \in Seq(E) : e = EntryAt(t, p) /\ q = c.results
        BY <3>3
      <3>5. ParseEntry(t, c, from, to) =
              [position |-> EntryEnd(t, p),
               results |-> IF InBounds(e.key, from, to) THEN Append(q, e) ELSE q]
        BY <2>2, <3>1, <3>4 DEF ParseEntry
      <3>6. Append(q, e) \in Seq(E)
        OBVIOUS
      <3> QED BY <3>2, <3>5, <3>6
    <2> QED BY <2>1, <2>2
  <1>9. start \in T
    <2>1. <<>> \in Seq(E)
      OBVIOUS
    <2> QED BY <2>1
  <1> HIDE DEF E, T
  <1>10. g \in [1 .. N -> [T -> T]]
    BY <1>8
  <1>11. PICK f \in [0 .. N -> T] : Loop(f, N, start, g)
    <2> HIDE DEF g, start
    <2> QED BY <1>5, <1>9, <1>10, LoopExists
  <1>12. f = body(f)
    <2>1. ASSUME NEW n \in 0 .. N, n # 0
          PROVE  g[n][f[n - 1]] = ParseEntry(t, f[n - 1], from, to)
      <3>1. n \in 1 .. N /\ f[n - 1] \in T
        BY <1>5, <1>11, <2>1
      <3> QED BY <3>1
    <2> HIDE DEF g, start
    <2> QED BY <1>11, <2>1 DEF Loop
  <1>13. PICK w : w = CHOOSE x : x = body(x)
    OBVIOUS
  <1>14. w = body(w)
    BY <1>12, <1>13
  <1> HIDE DEF body
  <1>15. w[0] = start /\ \A n \in 1 .. N : w[n] = ParseEntry(t, w[n - 1], from, to)
    <2> HIDE DEF start
    <2> QED BY <1>5, <1>14 DEF body
  <1> DEFINE Found(n) == IF n <= m THEN n ELSE m
             S == {n \in Nat : n <= N =>
                     w[n] \in T /\ Parsed(w[n], Found(n), s, d, at, from, to)}
  <1>16. 0 \in S
    <2>1. RunSet(<<>>) = {}
      BY DEF RunSet
    <2>2. Parsed(start, 0, s, d, at, from, to)
      BY <1>5, <2>1 DEF Parsed
    <2> QED BY <1>1, <1>9, <1>15, <2>2
  <1>17. ASSUME NEW n \in Nat, n \in S PROVE n + 1 \in S
    <2>1. SUFFICES ASSUME n + 1 <= N
                   PROVE  w[n + 1] \in T /\ Parsed(w[n + 1], Found(n + 1), s, d, at, from, to)
      OBVIOUS
    <2>2. w[n] \in T /\ Parsed(w[n], Found(n), s, d, at, from, to)
      BY <1>5, <1>17, <2>1
    <2>3. w[n + 1] = ParseEntry(t, w[n], from, to)
      <3>1. n + 1 \in 1 .. N /\ (n + 1) - 1 = n
        BY <1>5, <2>1
      <3> QED BY <1>15, <3>1
    <2>4. w[n + 1] \in T
      BY <1>8, <2>2, <2>3
    <2>5. CASE n + 1 <= m
      <3>1. Found(n) = n /\ Found(n + 1) = n + 1
        BY <1>1, <2>5
      <3>2. Parsed(w[n], n, s, d, at, from, to)
        BY <2>2, <3>1
      <3> HIDE DEF Found
      <3>3. Parsed(w[n + 1], n + 1, s, d, at, from, to)
        BY <1>1, <1>2, <2>2, <2>3, <2>4, <2>5, <3>2, ParseMore DEF m, T
      <3> QED BY <2>4, <3>1, <3>3
    <2>6. CASE ~(n + 1 <= m)
      <3>1. Found(n) = m /\ Found(n + 1) = m
        BY <1>1, <2>6
      <3>2. w[n].position = at[m]
        BY <2>2, <3>1 DEF Parsed
      <3>3. w[n + 1] = w[n]
        BY <1>5, <2>3, <3>2 DEF ParseEntry, N
      <3> QED BY <2>2, <3>1, <3>3
    <2> QED BY <2>5, <2>6
  <1>18. Nat \subseteq S
    <2> HIDE DEF S
    <2> QED BY <1>16, <1>17, AllNumbers
  <1>19. Parsed(w[N], m, s, d, at, from, to)
    <2>1. Parsed(w[N], Found(N), s, d, at, from, to)
      BY <1>5, <1>18
    <2>2. Found(N) = m
      BY <1>1, <1>5, <1>7
    <2> QED BY <2>1, <2>2
  <1>20. RunSet(w[N].results) =
           {[key |-> s[i], value |-> d[s[i]]] : i \in {j \in 1 .. m : InBounds(s[j], from, to)}}
    BY <1>19 DEF Parsed
  <1>21. RunSet(RangeWithTombstones(t, from, to)) = RunSet(w[N].results)
    BY <1>3, <1>13 DEF N, body, t
  <1>22. {[key |-> s[i], value |-> d[s[i]]] : i \in {j \in 1 .. m : InBounds(s[j], from, to)}}
         = {[key |-> k, value |-> d[k]] : k \in {j \in Present(d) : InBounds(j, from, to)}}
    BY <1>4
  <1> QED BY <1>20, <1>21, <1>22 DEF t

\* The point reader finds the entry through the filter, the index and the
\* offsets of the writer.
LEMMA PointRead ==
  ASSUME NEW d \in Data, NEW key \in Keys
  PROVE  GetBackend(Table(d), key) = Live(d)[key]
PROOF
  <1> DEFINE s == SortedKeys(d)
             t == Table(d)
             places == {i \in DOMAIN t.keys : t.keys[i] = key}
             i == CHOOSE j \in places : TRUE
             op_at == t.offsets[i] + LenWidth + Len(key)
  <1>1. t.keys = s /\ t.num_bits = NumBits(d) /\ t.bits = FilterBits(d)
    BY DEF Table
  <1>2. GetBackend(t, key) =
          IF ~MightContain(t, key) \/ places = {} THEN Absent
          ELSE IF ~Fits(t.keyops, op_at, OpWidth) THEN IoError
          ELSE IF ReadNumber(t.keyops, op_at) = 0 THEN Absent
          ELSE ReadBlob(t, op_at + OpWidth)
    BY DEF GetBackend
  <1>3. /\ DOMAIN s = 1 .. Len(s) /\ Len(s) \in Nat
        /\ \A n \in 1 .. Len(s) : s[n] \in Keys /\ d[s[n]] \in Entries
    BY KeysInOrder
  <1>4. /\ \A n \in DOMAIN s : s[n] \in Present(d)
        /\ \A k \in Present(d) : \E n \in DOMAIN s : s[n] = k
    BY SortedKeysAre
  <1>5. PICK at : Stands(t, d, s, at)
    BY TableStands
  <1> HIDE DEF t, s
  <1>6. CASE key \notin Present(d)
    <2>1. places = {}
      BY <1>1, <1>4, <1>6
    <2>2. Live(d)[key] = Absent
      BY <1>6, DataAssumption DEF Present, Live
    <2> HIDE DEF places
    <2> QED BY <1>2, <2>1, <2>2 DEF t
  <1>7. CASE key \in Present(d)
    <2>1. MightContain(t, key)
      <3>1. \A n \in 0 .. NumHashes - 1 : Hash(key, n) % NumBits(d) \in FilterBits(d)
        BY <1>7 DEF FilterBits
      <3> QED BY <1>1, <3>1 DEF MightContain
    <2>2. places # {}
      BY <1>1, <1>4, <1>7
    <2>3. i \in places
      <3> HIDE DEF places
      <3> QED BY <2>2
    <2>4. i \in 1 .. Len(s) /\ s[i] = key
      BY <1>1, <1>3, <2>3
    <2>5. PICK v \in Entries : v = d[key]
      BY <1>3, <2>4
    <2> HIDE DEF i, places
    <2>6. PICK p \in Nat : p = at[i - 1] /\ i - 1 \in 0 .. Len(s)
      BY <1>3, <1>5, <2>4 DEF Stands
    <2>7. /\ t.keyops \in Seq(Nat) /\ t.blobs \in Seq(Nat)
          /\ t.offsets[i] = p /\ EntryIn(t.keyops, t.blobs, p, key, v)
      BY <1>5, <2>4, <2>5, <2>6 DEF Stands
    <2>8. op_at = OpAt(t, p)
          /\ op_at + OpWidth <= Len(t.keyops)
          /\ ReadNumber(t.keyops, op_at) = (IF v = Tombstone THEN 0 ELSE 1)
          /\ (v # Tombstone => ReadBlob(t, op_at + OpWidth) = v)
      <3>1. op_at = OpAt(t, p)
        BY <2>7, EntryRead
      <3> HIDE DEF op_at
      <3> QED BY <2>7, <3>1, EntryRead
    <2> HIDE DEF op_at
    <2>9. Fits(t.keyops, op_at, OpWidth)
      BY <2>8 DEF Fits
    <2>10. Live(d)[key] = IF v = Tombstone THEN Absent ELSE v
      BY <2>5 DEF Live
    <2>11. GetBackend(t, key) = IF v = Tombstone THEN Absent ELSE v
      BY <1>2, <2>1, <2>2, <2>8, <2>9
    <2> QED BY <2>10, <2>11 DEF t
  <1> QED BY <1>6, <1>7

\* The entries of d that a set of records has are collected again.
LEMMA CollectedIs ==
  ASSUME NEW d \in Data, NEW K \in SUBSET Present(d)
  PROVE  Collected({[key |-> k, value |-> d[k]] : k \in K})
           = [k \in Keys |-> IF k \in K THEN d[k] ELSE Absent]
PROOF
  <1> DEFINE E == {[key |-> k, value |-> d[k]] : k \in K}
  <1>1. \A e \in E : e.key \in K /\ e.value = d[e.key]
    OBVIOUS
  <1>2. ASSUME NEW k \in K PROVE \E e \in E : e.key = k
    <2>1. [key |-> k, value |-> d[k]] \in E /\ [key |-> k, value |-> d[k]].key = k
      OBVIOUS
    <2> HIDE DEF E
    <2> QED BY <2>1
  <1> HIDE DEF E
  <1>3. ASSUME NEW k \in Keys
        PROVE  (IF \E e \in E : e.key = k THEN (CHOOSE e \in E : e.key = k).value ELSE Absent)
                 = IF k \in K THEN d[k] ELSE Absent
    <2>1. CASE k \in K
      <3>1. (CHOOSE e \in E : e.key = k) \in E /\ (CHOOSE e \in E : e.key = k).key = k
        BY <1>2, <2>1
      <3> QED BY <1>1, <1>2, <2>1, <3>1
    <2>2. CASE k \notin K
      BY <1>1, <2>2
    <2> QED BY <2>1, <2>2
  <1>4. Collected(E) = [k \in Keys |-> IF k \in K THEN d[k] ELSE Absent]
    BY <1>3 DEF Collected
  <1> QED BY <1>4 DEF E

\* The range reader finds the entries within the bounds.
LEMMA RangeRead ==
  ASSUME NEW d \in Data, NEW from, NEW to
  PROVE  Collected(RunSet(RangeWithTombstones(Table(d), from, to)))
           = [k \in Keys |-> IF InBounds(k, from, to) THEN d[k] ELSE Absent]
PROOF
  <1> DEFINE K == {j \in Present(d) : InBounds(j, from, to)}
  <1>1. RunSet(RangeWithTombstones(Table(d), from, to))
          = {[key |-> k, value |-> d[k]] : k \in K}
    BY ParserReads
  <1>2. K \in SUBSET Present(d)
    OBVIOUS
  <1>3. ASSUME NEW k \in Keys
        PROVE  (IF k \in K THEN d[k] ELSE Absent)
                 = IF InBounds(k, from, to) THEN d[k] ELSE Absent
    BY DEF Present
  <1> HIDE DEF K
  <1>4. Collected({[key |-> k, value |-> d[k]] : k \in K})
          = [k \in Keys |-> IF k \in K THEN d[k] ELSE Absent]
    BY <1>2, CollectedIs
  <1> QED BY <1>1, <1>3, <1>4

\* Both readers of a run's files, the point reader that trusts the filter, the
\* index and the offsets of finish (sstable.rs:148-187) and the range reader
\* that parses the file (467-538), find in every run that was written what was
\* written to it.
THEOREM TablesAnswerAlways == Spec => []TablesAnswer
PROOF
  <1>1. ASSUME TypeOK PROVE TablesAnswer
    <2>1. \A r \in WrittenRuns : r.data \in Data
      BY <1>1 DEF TypeOK, WrittenRuns, Job, Run
    <2>2. ASSUME NEW d \in Data
          PROVE  /\ \A k \in Keys : GetBackend(Table(d), k) = Live(d)[k]
                 /\ \A k, j \in Keys :
                      Collected(RunSet(RangeWithTombstones(Table(d), k, j)))
                        = [i \in Keys |-> IF InBounds(i, k, j) THEN d[i] ELSE Absent]
      BY PointRead, RangeRead
    <2> QED BY <2>1, <2>2 DEF TablesAnswer
  <1> QED BY <1>1, TypeCorrect, PTL

---------------------------------------------------------------------------
(* range within bounds.                                                    *)

\* What of d is within bounds.
Within(d, from, to) == [k \in Keys |-> IF InBounds(k, from, to) THEN d[k] ELSE Absent]

RunWithin(r, from, to) == [r EXCEPT !.data = Within(r.data, from, to)]

\* Entries within bounds are an entry map.
LEMMA WithinType ==
  ASSUME NEW d \in Data, NEW from, NEW to
  PROVE  Within(d, from, to) \in Data
PROOF BY DEF Within, Data

\* A run within bounds is a run with the same number.
LEMMA RunWithinType ==
  ASSUME NEW r \in Run, NEW from, NEW to
  PROVE  /\ RunWithin(r, from, to) \in Run
         /\ RunWithin(r, from, to).num = r.num
         /\ \A k \in Keys : RunWithin(r, from, to).data[k]
                              = IF InBounds(k, from, to) THEN r.data[k] ELSE Absent
PROOF
  <1>1. r.data \in Data /\ r = [num |-> r.num, level |-> r.level, data |-> r.data]
    BY DEF Run
  <1>2. Within(r.data, from, to) \in Data
    BY <1>1, WithinType
  <1>3. /\ RunWithin(r, from, to) \in Run
        /\ RunWithin(r, from, to).num = r.num
        /\ RunWithin(r, from, to).data = Within(r.data, from, to)
    BY <1>2 DEF RunWithin, Run
  <1> QED BY <1>3 DEF Within

\* Reading within bounds keeps which runs decide.
LEMMA NewestWithin ==
  ASSUME NEW R, Ranked(R), NEW from, NEW to, NEW k \in Keys
  PROVE  /\ Ranked({RunWithin(r, from, to) : r \in R})
         /\ NewestEntry({RunWithin(r, from, to) : r \in R}, k)
              = IF InBounds(k, from, to) THEN NewestEntry(R, k) ELSE Absent
PROOF
  <1> DEFINE W == {RunWithin(r, from, to) : r \in R}
  <1>1. R \subseteq Run
    BY DEF Ranked
  <1>2. ASSUME NEW w \in W
        PROVE  \E r \in R : /\ w = RunWithin(r, from, to) /\ w \in Run /\ w.num = r.num
                            /\ w.data[k] = IF InBounds(k, from, to) THEN r.data[k] ELSE Absent
    <2>1. PICK r \in R : w = RunWithin(r, from, to)
      OBVIOUS
    <2> QED BY <1>1, <2>1, RunWithinType
  <1>3. ASSUME NEW r \in R
        PROVE  \E w \in W : /\ w.num = r.num
                            /\ w.data[k] = IF InBounds(k, from, to) THEN r.data[k] ELSE Absent
    <2>1. RunWithin(r, from, to) \in W
      OBVIOUS
    <2> HIDE DEF W
    <2> QED BY <1>1, <2>1, RunWithinType
  <1> HIDE DEF W
  <1>4. Ranked(W)
    <2>1. W \subseteq Run
      BY <1>2
    <2>2. \A w, x \in W : w.num = x.num => w = x
      BY <1>2 DEF Ranked
    <2>3. \E n \in Nat : \A w \in W : w.num < n
      BY <1>2 DEF Ranked
    <2> QED BY <2>1, <2>2, <2>3 DEF Ranked
  <1>5. CASE ~ InBounds(k, from, to)
    <2>1. \A w \in W : w.data[k] = Absent
      BY <1>2, <1>5
    <2> QED BY <1>4, <1>5, <2>1, NewestNone DEF W
  <1>6. CASE InBounds(k, from, to)
    <2>1. CASE \A r \in R : r.data[k] = Absent
      <3>1. \A w \in W : w.data[k] = Absent
        BY <1>2, <2>1
      <3>2. NewestEntry(W, k) = Absent /\ NewestEntry(R, k) = Absent
        BY <2>1, <3>1, NewestNone
      <3> QED BY <1>4, <1>6, <3>2 DEF W
    <2>2. CASE ~ \A r \in R : r.data[k] = Absent
      <3>1. PICK r \in R : /\ r.data[k] # Absent
                           /\ \A q \in R : q.data[k] # Absent => q.num <= r.num
                           /\ NewestEntry(R, k) = r.data[k]
        BY <2>2, NewestCases
      <3>2. PICK w \in W : w.num = r.num /\ w.data[k] = r.data[k]
        BY <1>3, <1>6
      <3>3. \A x \in W : x.data[k] # Absent => x.num <= w.num
        BY <1>2, <1>6, <3>1, <3>2
      <3>4. NewestEntry(W, k) = w.data[k]
        BY <1>4, <3>1, <3>2, <3>3, NewestIs
      <3> QED BY <1>4, <1>6, <3>1, <3>2, <3>4 DEF W
    <2> QED BY <2>1, <2>2
  <1> QED BY <1>5, <1>6

\* range over byte strings that the model's files are asked for.
LEMMA TreeRangeIs ==
  ASSUME NEW m \in Data, NEW lv \in LevelMap, RankedLevels(lv),
         NEW from \in Strings(ScanAllLen), NEW to \in Strings(ScanAllLen),
         from \in Seq(Byte), to \in Seq(Byte), NEW k \in Keys
  PROVE  TreeRange(m, lv, from, to)[k]
           = IF InBounds(k, from, to) THEN Contents(m, lv)[k] ELSE Absent
PROOF
  <1> DEFINE read == [l \in Levels |-> [i \in DOMAIN lv[l] |->
                       [lv[l][i] EXCEPT !.data = FileRange[@][from][to]]]]
             W(l) == {RunWithin(r, from, to) : r \in RunSet(lv[l])}
  <1>1. \A d \in Data : FileRange[d][from][to] = Within(d, from, to)
    BY RangeRead DEF FileRange, Within
  <1>2. \A l \in Levels : RunSet(lv[l]) \subseteq Run
    BY DEF RankedLevels, Ranked
  <1>3. ASSUME NEW l \in Levels PROVE RunSet(read[l]) = W(l)
    <2>1. \A i \in DOMAIN lv[l] : lv[l][i] \in RunSet(lv[l]) /\ lv[l][i].data \in Data
      BY <1>2 DEF RunSet, Run
    <2>2. \A i \in DOMAIN lv[l] : read[l][i] = RunWithin(lv[l][i], from, to)
      BY <1>1, <2>1 DEF RunWithin
    <2>3. DOMAIN read[l] = DOMAIN lv[l]
      OBVIOUS
    <2> HIDE DEF read
    <2> QED BY <2>2, <2>3 DEF RunSet
  <1> HIDE DEF read, W
  <1>4. ASSUME NEW l \in Levels
        PROVE  /\ Ranked(RunSet(read[l]))
               /\ LevelEntry(read, l, k)
                    = IF InBounds(k, from, to) THEN LevelEntry(lv, l, k) ELSE Absent
    <2>1. PICK R : R = RunSet(lv[l]) /\ Ranked(R)
      BY DEF RankedLevels
    <2>2. RunSet(read[l]) = {RunWithin(r, from, to) : r \in R}
      BY <1>3, <2>1 DEF W
    <2>3. /\ Ranked(RunSet(read[l]))
          /\ NewestEntry(RunSet(read[l]), k)
               = IF InBounds(k, from, to) THEN NewestEntry(R, k) ELSE Absent
      BY <2>1, <2>2, NewestWithin
    <2> QED BY <2>1, <2>3 DEF LevelEntry
  <1>5. RankedLevels(read)
    BY <1>4 DEF RankedLevels
  <1>6. RangeEntry(read, k) = IF InBounds(k, from, to) THEN RangeEntry(lv, k) ELSE Absent
    <2>1. CASE InBounds(k, from, to)
      BY <1>4, <1>5, <2>1, RangeSame
    <2>2. CASE ~ InBounds(k, from, to)
      BY <1>4, <1>5, <2>2, RangeNone
    <2> QED BY <2>1, <2>2
  <1>7. InBounds(k, from, to) => KeyLeq(from, to)
    <2>1. k \in Seq(Byte)
      BY KeyType
    <2> QED BY <2>1, KeyOrder DEF InBounds
  <1>8. MemTableRange(m, from, to)[k] = IF InBounds(k, from, to) THEN m[k] ELSE Absent
    BY <1>7 DEF MemTableRange
  <1>9. TreeRange(m, lv, from, to) = Live(Overlay(MemTableRange(m, from, to), RangeData(read)))
    BY DEF TreeRange, read
  <1> QED BY <1>6, <1>8, <1>9 DEF Contents, Live, Overlay, RangeData

---------------------------------------------------------------------------
(* scan_prefix.                                                            *)

\* Byte strings up to a length.
LEMMA StringsAre ==
  ASSUME NEW n \in Nat
  PROVE  \A x : x \in Strings(n) <=> x \in Seq(Byte) /\ Len(x) <= n
PROOF
  <1>1. ASSUME NEW x \in Strings(n) PROVE x \in Seq(Byte) /\ Len(x) <= n
    <2>1. PICK i \in 0 .. n : x \in [1 .. i -> Byte]
      BY DEF Strings
    <2>2. x \in Seq(Byte) /\ Len(x) = i
      BY <2>1, SeqDef
    <2> QED BY <2>2
  <1>2. ASSUME NEW x \in Seq(Byte), Len(x) <= n PROVE x \in Strings(n)
    <2>1. Len(x) \in 0 .. n /\ x \in [1 .. Len(x) -> Byte]
      BY <1>2, LenProperties
    <2> QED BY <2>1 DEF Strings
  <1> QED BY <1>1, <1>2

\* The end of a scan: the prefix, with its last byte incremented or a 0 after it.
IsEnd(e, p) ==
  /\ e \in Seq(Byte) /\ Len(p) \in Nat \ {0}
  /\ IF p[Len(p)] = MaxByte
       THEN Len(e) = Len(p) + 1 /\ \A j \in 1 .. Len(p) : e[j] = p[j]
       ELSE /\ Len(e) = Len(p) /\ e[Len(p)] = p[Len(p)] + 1
            /\ \A j \in 1 .. Len(p) - 1 : e[j] = p[j]

\* PrefixEnd increments the last byte, or appends a zero to the largest.
LEMMA EndIs ==
  ASSUME NEW p \in Seq(Byte), p # <<>>
  PROVE  IsEnd(PrefixEnd(p), p)
PROOF
  <1>1. Len(p) \in Nat \ {0} /\ p[Len(p)] \in Byte
    BY EmptySeq
  <1>2. MaxByte \in Nat /\ 0 \in Byte
    BY TableAssumption DEF Byte
  <1>3. CASE p[Len(p)] = MaxByte
    <2>1. PrefixEnd(p) = Append(p, 0)
      BY <1>3 DEF PrefixEnd, Last
    <2>2. /\ Append(p, 0) \in Seq(Byte) /\ Len(Append(p, 0)) = Len(p) + 1
          /\ \A j \in 1 .. Len(p) : Append(p, 0)[j] = p[j]
      BY <1>2
    <2> QED BY <1>1, <1>3, <2>1, <2>2 DEF IsEnd
  <1>4. CASE p[Len(p)] # MaxByte
    <2>1. PICK b \in Byte : b = p[Len(p)] + 1
      BY <1>1, <1>2, <1>4 DEF Byte
    <2>2. PICK m \in Nat : m = Len(p) - 1 /\ Len(p) = m + 1
      BY <1>1
    <2>3. PICK f : f = SubSeq(p, 1, m)
      OBVIOUS
    <2>4. /\ f \in Seq(Byte) /\ Len(f) = m
          /\ \A j \in 1 .. m : f[j] = p[j]
      BY <2>2, <2>3
    <2>5. PrefixEnd(p) = Append(f, b)
      <3>1. Front(p) = f
        BY <2>2, <2>3 DEF Front
      <3> QED BY <1>4, <2>1, <3>1 DEF PrefixEnd, Last
    <2>6. /\ Append(f, b) \in Seq(Byte) /\ Len(Append(f, b)) = m + 1
          /\ \A j \in 1 .. m : Append(f, b)[j] = p[j]
          /\ Append(f, b)[m + 1] = b
      BY <2>4
    <2> QED BY <1>1, <1>4, <2>1, <2>2, <2>5, <2>6 DEF IsEnd
  <1> QED BY <1>3, <1>4

\* A key with the prefix is within the bounds of its scan.
LEMMA PrefixWithin ==
  ASSUME NEW p \in Seq(Byte), NEW k \in Seq(Byte), NEW e, IsEnd(e, p),
         p[Len(p)] # MaxByte, IsPrefix(p, k)
  PROVE  InBounds(k, p, e)
PROOF
  <1>1. Begins(p, k)
    BY PrefixIs
  <1>2. Len(p) \in Nat \ {0} /\ Len(k) \in Nat /\ e \in Seq(Byte)
        /\ p[Len(p)] \in Nat
    BY TableAssumption DEF IsEnd, Byte
  <1>3. Precedes(k, e, Len(p))
    <2>1. Len(p) \in 1 .. Len(k) /\ Len(p) <= Len(e)
      BY <1>1, <1>2 DEF Begins, IsEnd
    <2>2. k[Len(p)] < e[Len(p)]
      BY <1>1, <1>2 DEF Begins, IsEnd
    <2>3. \A j \in 1 .. Len(p) - 1 : k[j] = e[j]
      BY <1>1, <1>2 DEF Begins, IsEnd
    <2> QED BY <2>1, <2>2, <2>3 DEF Precedes
  <1> QED BY <1>1, <1>2, <1>3, LeqIs DEF InBounds

\* A key without it is not, unless it is the end itself.
LEMMA OthersOutside ==
  ASSUME NEW p \in Seq(Byte), NEW k \in Seq(Byte), NEW e, IsEnd(e, p),
         ~ IsPrefix(p, k), k # e
  PROVE  ~ InBounds(k, p, e)
PROOF
  <1> SUFFICES ASSUME InBounds(k, p, e) PROVE FALSE
    OBVIOUS
  <1>1. /\ Len(p) \in Nat \ {0} /\ Len(k) \in Nat /\ Len(e) \in Nat /\ e \in Seq(Byte)
        /\ \A j \in 1 .. Len(p) : p[j] \in Nat
        /\ \A j \in 1 .. Len(k) : k[j] \in Nat
        /\ \A j \in 1 .. Len(e) : e[j] \in Nat
    <2>1. \A x \in Seq(Byte) : Len(x) \in Nat /\ \A j \in 1 .. Len(x) : x[j] \in Nat
      BY TableAssumption DEF Byte
    <2>2. e \in Seq(Byte) /\ Len(p) \in Nat \ {0}
      BY DEF IsEnd
    <2> QED BY <2>1, <2>2
  <1>2. PICK i \in Nat : Precedes(p, k, i)
    BY PrefixIs, LeqIs DEF InBounds
  <1>3. /\ i \in 1 .. Len(p) /\ i <= Len(k) /\ p[i] < k[i]
        /\ \A j \in 1 .. i - 1 : p[j] = k[j]
    BY <1>2 DEF Precedes
  <1>4. /\ Len(p) <= Len(e) /\ \A j \in 1 .. Len(p) - 1 : e[j] = p[j]
    BY <1>1 DEF IsEnd
  <1>5. e[Len(p)] \in {p[Len(p)], p[Len(p)] + 1}
    BY <1>1 DEF IsEnd
  <1>9. ASSUME k[i] = e[i] PROVE i = Len(p)
    <2>1. i # Len(p) => i \in 1 .. Len(p) - 1
      BY <1>1, <1>3
    <2>2. p[i] \in Nat /\ p[i] # k[i]
      BY <1>1, <1>3
    <2> QED BY <1>9, <1>4, <2>1, <2>2
  <1>6. CASE Begins(k, e)
    <2>1. k[i] = e[i] /\ Len(k) <= Len(e)
      BY <1>1, <1>3, <1>6 DEF Begins
    <2>2. i = Len(p)
      BY <1>9, <2>1
    <2>3. e[Len(p)] = p[Len(p)] + 1 /\ Len(e) = Len(p)
      BY <1>1, <1>3, <2>1, <2>2 DEF IsEnd
    <2>4. Len(k) = Len(e) /\ \A j \in 1 .. Len(k) : k[j] = e[j]
      BY <1>1, <1>3, <1>6, <2>1, <2>2, <2>3 DEF Begins
    <2> QED BY <1>1, <2>4, SeqEqual
  <1>7. ASSUME NEW j \in Nat, Precedes(k, e, j) PROVE FALSE
    <2>1. /\ j \in 1 .. Len(k) /\ j <= Len(e) /\ k[j] < e[j]
          /\ \A n \in 1 .. j - 1 : k[n] = e[n]
      BY <1>7 DEF Precedes
    <2>2. CASE i < j
      <3>1. k[i] = e[i]
        BY <1>1, <1>3, <2>1, <2>2
      <3>2. i = Len(p)
        BY <1>9, <3>1
      <3>3. e[Len(p)] = p[Len(p)] + 1 /\ Len(e) = Len(p)
        BY <1>1, <1>3, <3>1, <3>2 DEF IsEnd
      <3> QED BY <1>1, <2>1, <2>2, <3>2, <3>3
    <2>3. CASE i = j
      <3>1. p[i] < k[i] /\ k[i] < e[i]
        BY <1>3, <2>1, <2>3
      <3>2. i = Len(p)
        <4>1. i # Len(p) => i \in 1 .. Len(p) - 1
          BY <1>1, <1>3
        <4>2. p[i] \in Nat /\ k[i] \in Nat
          BY <1>1, <1>3
        <4>3. e[i] # p[i]
          BY <3>1, <4>2
        <4> QED BY <1>4, <4>1, <4>3
      <3>3. p[i] \in Nat /\ k[i] \in Nat /\ e[i] \in {p[i], p[i] + 1}
        BY <1>1, <1>3, <1>5, <3>2
      <3> QED BY <3>1, <3>3
    <2>4. CASE j < i
      <3>1. p[j] = k[j] /\ e[j] = p[j] /\ p[j] \in Nat
        BY <1>1, <1>3, <1>4, <2>1, <2>4
      <3> QED BY <2>1, <3>1
    <2> QED BY <1>1, <1>3, <2>1, <2>2, <2>3, <2>4
  <1>8. KeyLeq(k, e)
    BY DEF InBounds
  <1> QED BY <1>1, <1>6, <1>7, <1>8, LeqIs

\* Every key no longer than the end of a scan of everything is before it.
LEMMA EverythingWithin ==
  ASSUME NEW n \in Nat, KeyLen <= n, NEW k \in Keys
  PROVE  Filled(n) \in Seq(Byte) /\ Len(Filled(n)) = n /\ InBounds(k, <<>>, Filled(n))
PROOF
  <1> DEFINE e == Filled(n)
  <1>1. MaxByte \in Byte /\ MaxByte \in Nat /\ \A b \in Byte : b \in Nat /\ b <= MaxByte
    BY TableAssumption DEF Byte
  <1>2. e \in [1 .. n -> Byte] /\ \A i \in 1 .. n : e[i] = MaxByte
    BY <1>1 DEF Filled
  <1>3. e \in Seq(Byte) /\ Len(e) = n
    BY <1>2, SeqDef
  <1>4. k \in Seq(Byte) /\ Len(k) = KeyLen /\ KeyLen \in Nat
        /\ \A i \in 1 .. Len(k) : k[i] \in Byte
    BY KeyType, DataAssumption
  <1> HIDE DEF e
  <1>5. KeyLeq(<<>>, k)
    <2>1. <<>> \in Seq(Byte) /\ Len(<<>>) = 0
      OBVIOUS
    <2>2. Begins(<<>>, k)
      BY <1>4, <2>1 DEF Begins
    <2> QED BY <1>4, <2>1, <2>2, LeqIs
  <1>6. KeyLeq(k, e)
    <2> DEFINE D == {i \in 1 .. Len(k) : k[i] # MaxByte}
    <2>1. CASE D = {}
      <3>1. \A i \in 1 .. Len(k) : k[i] = MaxByte
        BY <2>1
      <3>2. Begins(k, e)
        BY <1>2, <1>3, <1>4, <3>1 DEF Begins
      <3> QED BY <1>3, <1>4, <3>2, LeqIs
    <2>2. CASE D # {}
      <3>1. D \subseteq Nat
        BY <1>4
      <3>2. PICK i \in D : \A j \in D : i <= j
        <4> HIDE DEF D
        <4> QED BY <2>2, <3>1, LeastNumber
      <3>3. i \in 1 .. Len(k) /\ k[i] \in Byte /\ k[i] # MaxByte
            /\ \A j \in 1 .. i - 1 : k[j] = MaxByte
        BY <1>4, <3>2
      <3>4. Precedes(k, e, i)
        <4>1. /\ i \in Nat /\ i <= Len(e) /\ e[i] = MaxByte
              /\ \A j \in 1 .. i - 1 : j \in 1 .. n
          BY <1>3, <1>4, <1>2, <3>3
        <4>2. k[i] < e[i]
          <5>1. PICK b \in Byte : b = k[i] /\ b # MaxByte
            BY <3>3
          <5>2. b \in Nat /\ b <= MaxByte /\ MaxByte \in Nat
            BY <1>1
          <5> QED BY <4>1, <5>1, <5>2
        <4> QED BY <1>2, <3>3, <4>1, <4>2 DEF Precedes
      <3> QED BY <1>3, <1>4, <3>3, <3>4, LeqIs
    <2> QED BY <2>1, <2>2
  <1> QED BY <1>3, <1>5, <1>6 DEF InBounds, e

\* For keys shorter than the end of a scan of everything (20 bytes, lib.rs:1048):
\* scan_prefix, which ends its range at a key and not at a prefix
\* (lib.rs:1045-1060), shows the live keys with the prefix unless it ends in the
\* largest byte, and no key without it but the end itself.
THEOREM PrefixScansShow == KeyLen < ScanAllLen => (Spec => []ScanPrefixShows)
PROOF
  <1> SUFFICES ASSUME KeyLen < ScanAllLen PROVE Spec => []ScanPrefixShows
    OBVIOUS
  <1>1. ASSUME TypeInv, RunNumbersUnique PROVE ScanPrefixShows
    <2> DEFINE live == Contents(memtable, levels)
    <2>1. memtable \in Data /\ levels \in LevelMap /\ RankedLevels(levels)
      BY <1>1, RankedHeld DEF TypeInv, TypeOK
    <2>2. ASSUME NEW p \in Bounds, NEW k \in Keys
          PROVE  LET shown == ScanPrefix(memtable, levels, p) IN
                   /\ shown[k] \in {live[k], Absent}
                   /\ IsPrefix(p, k) /\ (p = <<>> \/ Last(p) # MaxByte)
                        => shown[k] = live[k]
                   /\ ~IsPrefix(p, k) /\ k # PrefixEnd(p) => shown[k] = Absent
      <3>1. /\ p \in Seq(Byte) /\ Len(p) <= KeyLen /\ Len(p) \in Nat
            /\ KeyLen \in Nat /\ ScanAllLen \in Nat
            /\ k \in Seq(Byte)
        BY StringsAre, DataAssumption, QueryAssumption, KeyType DEF Bounds
      <3>2. PrefixEnd(p) \in Seq(Byte) /\ Len(PrefixEnd(p)) <= ScanAllLen
        <4>1. CASE p = <<>>
          BY <3>1, <4>1, EverythingWithin DEF PrefixEnd
        <4>2. CASE p # <<>>
          BY <3>1, <4>2, EndIs DEF IsEnd
        <4> QED BY <4>1, <4>2
      <3>3. p \in Strings(ScanAllLen) /\ PrefixEnd(p) \in Strings(ScanAllLen)
        BY <3>1, <3>2, StringsAre
      <3> DEFINE shown == ScanPrefix(memtable, levels, p)
      <3>4. shown[k] = IF InBounds(k, p, PrefixEnd(p)) THEN live[k] ELSE Absent
        BY <2>1, <3>1, <3>2, <3>3, TreeRangeIs DEF ScanPrefix
      <3>5. IsPrefix(p, k) /\ (p = <<>> \/ Last(p) # MaxByte) => InBounds(k, p, PrefixEnd(p))
        <4>1. CASE p = <<>>
          BY <3>1, <4>1, EverythingWithin DEF PrefixEnd
        <4>2. CASE p # <<>>
          BY <3>1, <4>2, EndIs, PrefixWithin DEF Last
        <4> QED BY <4>1, <4>2
      <3>6. ~IsPrefix(p, k) /\ k # PrefixEnd(p) => ~ InBounds(k, p, PrefixEnd(p))
        <4>1. CASE p = <<>>
          <5>1. Begins(p, k)
            BY <3>1, <4>1 DEF Begins
          <5> QED BY <3>1, <5>1, PrefixIs
        <4>2. CASE p # <<>>
          BY <3>1, <4>2, EndIs, OthersOutside
        <4> QED BY <4>1, <4>2
      <3> HIDE DEF shown, live
      <3>7. /\ shown[k] \in {live[k], Absent}
            /\ IsPrefix(p, k) /\ (p = <<>> \/ Last(p) # MaxByte) => shown[k] = live[k]
            /\ ~IsPrefix(p, k) /\ k # PrefixEnd(p) => shown[k] = Absent
        BY <3>4, <3>5, <3>6
      <3> QED BY <3>7 DEF shown
    <2> QED BY <2>2 DEF ScanPrefixShows
  <1>2. Spec => []TypeInv
    BY TypeInit, TypeNext, PTL DEF Spec
  <1> QED BY <1>1, <1>2, RunsHaveTheirNumbers, PTL

---------------------------------------------------------------------------
(* A snapshot's iterator.                                                  *)

\* The elements of a concatenation.
LEMMA ConcatSet ==
  ASSUME NEW S, NEW a \in Seq(S), NEW b \in Seq(S)
  PROVE  a \o b \in Seq(S) /\ RunSet(a \o b) = RunSet(a) \union RunSet(b)
PROOF
  <1>1. /\ Len(a) \in Nat /\ DOMAIN a = 1 .. Len(a)
        /\ Len(b) \in Nat /\ DOMAIN b = 1 .. Len(b)
    OBVIOUS
  <1>2. PICK c \in Seq(S) : c = a \o b
    <2>1. (a \o b) \in Seq(S)
      OBVIOUS
    <2> QED BY <2>1
  <1>3. /\ DOMAIN c = 1 .. Len(a) + Len(b)
        /\ \A i \in 1 .. Len(a) : c[i] = a[i]
        /\ \A i \in 1 .. Len(b) : c[Len(a) + i] = b[i]
    BY <1>1, <1>2
  <1>4. RunSet(a) \subseteq RunSet(c) /\ RunSet(b) \subseteq RunSet(c)
    <2>1. \A i \in 1 .. Len(a) : i \in DOMAIN c
      BY <1>1, <1>3
    <2>2. \A i \in 1 .. Len(b) : Len(a) + i \in DOMAIN c
      BY <1>1, <1>3
    <2> QED BY <1>1, <1>3, <2>1, <2>2 DEF RunSet
  <1>5. ASSUME NEW i \in DOMAIN c PROVE c[i] \in RunSet(a) \union RunSet(b)
    <2>1. CASE i <= Len(a)
      <3>1. i \in DOMAIN a /\ c[i] = a[i]
        BY <1>1, <1>3, <2>1
      <3> QED BY <3>1 DEF RunSet
    <2>2. CASE ~(i <= Len(a))
      <3>1. PICK j \in 1 .. Len(b) : i = Len(a) + j
        <4>1. i - Len(a) \in 1 .. Len(b) /\ i = Len(a) + (i - Len(a))
          BY <1>1, <1>3, <2>2
        <4> QED BY <4>1
      <3>2. c[i] = b[j] /\ j \in DOMAIN b
        BY <1>1, <1>3, <3>1
      <3> QED BY <3>2 DEF RunSet
    <2> QED BY <2>1, <2>2
  <1>6. RunSet(c) \subseteq RunSet(a) \union RunSet(b)
    BY <1>5 DEF RunSet
  <1> QED BY <1>2, <1>4, <1>6

\* Sequences one after the other.
LEMMA FlattenIs ==
  ASSUME NEW S, NEW N \in Nat, NEW q \in [1 .. N + 1 -> Seq(S)]
  PROVE  /\ FlattenSeq(q) \in Seq(S)
         /\ RunSet(FlattenSeq(q)) = UNION {RunSet(q[i]) : i \in 1 .. N + 1}
PROOF
  <1> DEFINE T == Seq(S)
             g == [n \in 1 .. N |-> [x \in T |-> x \o q[n + 1]]]
             body(f) == [i \in 1 .. N + 1 |-> IF i = 1 THEN q[i] ELSE f[i - 1] \o q[i]]
             upto(n) == UNION {RunSet(q[i]) : i \in 1 .. n}
  <1>1. Len(q) = N + 1
    BY SeqDef
  <1>2. FlattenSeq(q) = (CHOOSE f : f = body(f))[N + 1]
    BY <1>1 DEF FlattenSeq
  <1>3. \A n \in 1 .. N : q[n + 1] \in Seq(S)
    OBVIOUS
  <1>4. g \in [1 .. N -> [T -> T]]
    BY <1>3, ConcatSet
  <1>5. q[1] \in T
    OBVIOUS
  <1>6. PICK h \in [0 .. N -> T] : Loop(h, N, q[1], g)
    <2> HIDE DEF g, T
    <2> QED BY <1>4, <1>5, LoopExists
  <1> DEFINE e == [i \in 1 .. N + 1 |-> h[i - 1]]
  <1>7. e = body(e)
    <2>1. ASSUME NEW i \in 1 .. N + 1 PROVE e[i] = IF i = 1 THEN q[i] ELSE e[i - 1] \o q[i]
      <3>1. PICK n \in 0 .. N : n = i - 1 /\ i = n + 1
        OBVIOUS
      <3>2. h[n] = IF n = 0 THEN q[1] ELSE g[n][h[n - 1]]
        <4> HIDE DEF g
        <4> QED BY <1>6 DEF Loop
      <3>3. CASE n = 0
        BY <3>1, <3>2, <3>3
      <3>4. CASE n # 0
        <4>1. n \in 1 .. N /\ n - 1 \in 0 .. N /\ h[n - 1] \in T
          BY <3>4
        <4>2. h[n] = h[n - 1] \o q[n + 1]
          BY <3>2, <3>4, <4>1
        <4>3. e[i] = h[n] /\ e[i - 1] = h[n - 1]
          BY <3>1, <4>1
        <4>4. i # 1
          BY <3>1, <3>4
        <4>5. e[i] = e[i - 1] \o q[i]
          BY <3>1, <4>2, <4>3
        <4> HIDE DEF e
        <4> QED BY <4>4, <4>5
      <3> QED BY <3>3, <3>4
    <2> HIDE DEF e
    <2>2. DOMAIN e = 1 .. N + 1 /\ e = [i \in 1 .. N + 1 |-> e[i]]
      BY DEF e
    <2> QED BY <2>1, <2>2
  <1>8. PICK w : w = CHOOSE x : x = body(x)
    OBVIOUS
  <1>9. w = body(w)
    <2> HIDE DEF e
    <2> QED BY <1>7, <1>8
  <1> HIDE DEF body
  <1>10. w[1] = q[1] /\ \A n \in 1 .. N : w[n + 1] = w[n] \o q[n + 1]
    <2>1. w[1] = q[1]
      BY <1>9 DEF body
    <2>2. ASSUME NEW n \in 1 .. N PROVE w[n + 1] = w[n] \o q[n + 1]
      <3>1. n + 1 \in 1 .. N + 1 /\ n + 1 # 1 /\ (n + 1) - 1 = n
        OBVIOUS
      <3> QED BY <1>9, <3>1 DEF body
    <2> QED BY <2>1, <2>2
  <1> DEFINE D == {n \in Nat : n <= N => w[n + 1] \in Seq(S) /\ RunSet(w[n + 1]) = upto(n + 1)}
  <1>11. 0 \in D
    <2>1. upto(1) = RunSet(q[1])
      <3>1. 1 .. 1 = {1}
        OBVIOUS
      <3> QED BY <3>1
    <2> HIDE DEF upto
    <2> QED BY <1>5, <1>10, <2>1
  <1>12. ASSUME NEW n \in Nat, n \in D PROVE n + 1 \in D
    <2>1. SUFFICES ASSUME n + 1 <= N
                   PROVE  /\ w[(n + 1) + 1] \in Seq(S)
                          /\ RunSet(w[(n + 1) + 1]) = upto((n + 1) + 1)
      OBVIOUS
    <2>2. PICK m \in 1 .. N : m = n + 1
      BY <2>1
    <2>3. w[m] \in Seq(S) /\ RunSet(w[m]) = upto(m)
      BY <1>12, <2>1, <2>2
    <2>4. upto(m + 1) = upto(m) \union RunSet(q[m + 1])
      <3>1. 1 .. m + 1 = (1 .. m) \union {m + 1}
        OBVIOUS
      <3>2. \A z : (\E i \in 1 .. m + 1 : z \in RunSet(q[i]))
                     <=> (\E i \in 1 .. m : z \in RunSet(q[i])) \/ z \in RunSet(q[m + 1])
        BY <3>1
      <3> QED BY <3>2
    <2> HIDE DEF upto
    <2>5. w[m + 1] = w[m] \o q[m + 1] /\ q[m + 1] \in Seq(S)
      BY <1>3, <1>10
    <2>6. w[m + 1] \in Seq(S) /\ RunSet(w[m + 1]) = RunSet(w[m]) \union RunSet(q[m + 1])
      BY <2>3, <2>5, ConcatSet
    <2> QED BY <2>2, <2>3, <2>4, <2>6
  <1>13. Nat \subseteq D
    <2> HIDE DEF D
    <2> QED BY <1>11, <1>12, AllNumbers
  <1>14. w[N + 1] \in Seq(S) /\ RunSet(w[N + 1]) = upto(N + 1)
    <2> HIDE DEF upto
    <2> QED BY <1>13
  <1>15. FlattenSeq(q) = w[N + 1]
    BY <1>2, <1>8 DEF body
  <1> QED BY <1>14, <1>15

\* A snapshot's iterator visits every run of every level.
LEMMA UpwardsAll ==
  ASSUME NEW lv \in LevelMap
  PROVE  RunsUpwards(lv) \in Seq(Run) /\ RunSet(RunsUpwards(lv)) = AllRuns(lv)
PROOF
  <1> DEFINE q == [i \in 1 .. MaxLevel + 1 |-> lv[MaxLevel + 1 - i]]
  <1>1. MaxLevel \in Nat /\ Levels = 0 .. MaxLevel
    BY LevelAssumption DEF Levels
  <1>2. \A i \in 1 .. MaxLevel + 1 : MaxLevel + 1 - i \in Levels
    BY <1>1
  <1>3. q \in [1 .. MaxLevel + 1 -> Seq(Run)]
    BY <1>2 DEF LevelMap
  <1>4. RunsUpwards(lv) = FlattenSeq(q)
    BY DEF RunsUpwards
  <1>5. \A l \in Levels : MaxLevel + 1 - l \in 1 .. MaxLevel + 1
                          /\ MaxLevel + 1 - (MaxLevel + 1 - l) = l
    BY <1>1
  <1>6. UNION {RunSet(q[i]) : i \in 1 .. MaxLevel + 1} = AllRuns(lv)
    <2>1. \A i \in 1 .. MaxLevel + 1 : q[i] = lv[MaxLevel + 1 - i]
      OBVIOUS
    <2>2. \A l \in Levels : \E i \in 1 .. MaxLevel + 1 : q[i] = lv[l]
      BY <1>5
    <2> HIDE DEF q
    <2>3. \A i \in 1 .. MaxLevel + 1 : \E l \in Levels : q[i] = lv[l]
      BY <1>2, <2>1
    <2>4. \A z : (\E i \in 1 .. MaxLevel + 1 : z \in RunSet(q[i]))
                   <=> \E l \in Levels : z \in RunSet(lv[l])
      <3>1. ASSUME NEW z, NEW i \in 1 .. MaxLevel + 1, z \in RunSet(q[i])
            PROVE  \E l \in Levels : z \in RunSet(lv[l])
        BY <2>3, <3>1
      <3>2. ASSUME NEW z, NEW l \in Levels, z \in RunSet(lv[l])
            PROVE  \E i \in 1 .. MaxLevel + 1 : z \in RunSet(q[i])
        BY <2>2, <3>2
      <3> QED BY <3>1, <3>2
    <2> QED BY <2>4 DEF AllRuns
  <1> HIDE DEF q
  <1>7. /\ FlattenSeq(q) \in Seq(Run)
        /\ RunSet(FlattenSeq(q)) = UNION {RunSet(q[i]) : i \in 1 .. MaxLevel + 1}
    BY <1>1, <1>3, FlattenIs
  <1> QED BY <1>4, <1>6, <1>7

\* SsTableHandle::range over all keys gives the live entries.
LEMMA ValuesRead ==
  ASSUME NEW d \in Data
  PROVE  FileValues[d] = Live(d)
PROOF
  <1> DEFINE all == {j \in Present(d) : InBounds(j, <<>>, Filled(KeyLen))}
             K == {j \in Present(d) : d[j] # Tombstone}
             E == {[key |-> k, value |-> d[k]] : k \in all}
             V == {e \in E : e.value # Tombstone}
  <1>1. all = Present(d)
    <2>1. KeyLen \in Nat /\ KeyLen <= KeyLen
      BY DataAssumption
    <2> QED BY <2>1, EverythingWithin DEF Present
  <1>2. V = {[key |-> k, value |-> d[k]] : k \in K}
    <2> HIDE DEF all
    <2> QED BY <1>1
  <1>3. RangeOfValues(Table(d), <<>>, Filled(KeyLen)) = V
    BY ParserReads DEF RangeOfValues
  <1>4. Collected(V) = [k \in Keys |-> IF k \in K THEN d[k] ELSE Absent]
    <2>1. K \in SUBSET Present(d)
      OBVIOUS
    <2> HIDE DEF K, V
    <2>2. PICK J \in SUBSET Present(d) : J = K
      BY <2>1
    <2>3. V = {[key |-> k, value |-> d[k]] : k \in J}
      BY <1>2, <2>2
    <2> QED BY <2>2, <2>3, CollectedIs
  <1>5. \A k \in Keys : (IF k \in K THEN d[k] ELSE Absent)
                          = IF d[k] = Tombstone THEN Absent ELSE d[k]
    BY DEF Present
  <1> HIDE DEF V, K
  <1>6. FileValues[d] = Collected(V)
    BY <1>3 DEF FileValues
  <1> QED BY <1>4, <1>5, <1>6 DEF Live

\* A sequence has finitely many elements.
LEMMA FiniteSequence ==
  ASSUME NEW S, NEW s \in Seq(S)
  PROVE  IsFiniteSet(RunSet(s))
PROOF
  <1>1. /\ Len(s) \in Nat /\ DOMAIN s = 1 .. Len(s)
        /\ s \in [1 .. Len(s) -> S] /\ IsFiniteSet(1 .. Len(s))
    BY LenProperties, FS_Interval
  <1>2. s \in [1 .. Len(s) -> RunSet(s)] /\ \A x \in RunSet(s) : \E i \in 1 .. Len(s) : s[i] = x
    BY <1>1 DEF RunSet
  <1>3. s \in Surjection(1 .. Len(s), RunSet(s))
    BY <1>2, Fun_IsSurj
  <1> QED BY <1>1, <1>3, FS_Surjection

\* A key that at most one run has: the iterator and range find the same.
LEMMA LoneEntry ==
  ASSUME NEW lv \in LevelMap, RankedLevels(lv), NEW k \in Keys,
         \A r, q \in AllRuns(lv) : r.data[k] # Absent /\ q.data[k] # Absent => r = q
  PROVE  LET s == RunsUpwards(lv)
             read == [i \in DOMAIN s |-> RunValues(s[i])]
         IN  FirstEntries(read)[k]
               = IF RangeEntry(lv, k) = Tombstone THEN Absent ELSE RangeEntry(lv, k)
PROOF
  <1> DEFINE s == RunsUpwards(lv)
             read == [i \in DOMAIN s |-> RunValues(s[i])]
             H == {i \in DOMAIN read : read[i].data[k] # Absent}
             top == CHOOSE i \in H : \A j \in H : i <= j
  <1>1. s \in Seq(Run) /\ RunSet(s) = AllRuns(lv)
    BY UpwardsAll
  <1> HIDE DEF s
  <1>2. DOMAIN s \subseteq Nat /\ \A i \in DOMAIN s : s[i] \in AllRuns(lv) /\ s[i] \in Run
    <2>1. Len(s) \in Nat /\ DOMAIN s = 1 .. Len(s)
      BY <1>1, LenProperties
    <2> QED BY <1>1, <2>1, ElementOfSeq DEF RunSet
  <1>3. \A i \in DOMAIN s :
          read[i].data[k] = IF s[i].data[k] = Tombstone THEN Absent ELSE s[i].data[k]
    <2> SUFFICES ASSUME NEW i \in DOMAIN s
                 PROVE  read[i].data[k]
                          = IF s[i].data[k] = Tombstone THEN Absent ELSE s[i].data[k]
      OBVIOUS
    <2>1. PICK r \in Run, d \in Data : r = s[i] /\ d = r.data
      BY <1>2 DEF Run
    <2>2. read[i] = [r EXCEPT !.data = FileValues[d]]
      BY <2>1 DEF RunValues
    <2>3. read[i].data = Live(d)
      BY <2>2, ValuesRead DEF Run
    <2> HIDE DEF read
    <2> QED BY <2>1, <2>3 DEF Live
  <1>4. DOMAIN read = DOMAIN s
    OBVIOUS
  <1>5. FirstEntries(read)[k] = IF H = {} THEN Absent ELSE read[top].data[k]
    BY DEF FirstEntries
  <1> HIDE DEF read
  <1>6. CASE \A r \in AllRuns(lv) : r.data[k] = Absent
    <2>1. \A l \in Levels : RunSet(lv[l]) \subseteq AllRuns(lv)
      BY DEF AllRuns
    <2>2. \A l \in Levels : LevelEntry(lv, l, k) = Absent
      BY <1>6, <2>1, LevelHit
    <2>3. RangeEntry(lv, k) = Absent
      BY <2>2, RangeNone
    <2>4. H = {}
      BY <1>2, <1>3, <1>4, <1>6
    <2> HIDE DEF H
    <2>5. FirstEntries(read)[k] = Absent
      BY <1>5, <2>4
    <2> QED BY <2>3, <2>5, DataAssumption DEF read, s
  <1>7. CASE ~ \A r \in AllRuns(lv) : r.data[k] = Absent
    <2>1. PICK r \in AllRuns(lv) : r.data[k] # Absent
      BY <1>7
    <2>2. RangeEntry(lv, k) = r.data[k]
      <3>1. PICK l \in Levels : r \in RunSet(lv[l])
        BY DEF AllRuns
      <3>2. LevelEntry(lv, l, k) # Absent
        BY <2>1, <3>1, LevelHit
      <3>3. PICK m \in Levels : LevelEntry(lv, m, k) # Absent
                                /\ RangeEntry(lv, k) = LevelEntry(lv, m, k)
        BY <3>2, RangeCases
      <3>4. PICK q \in RunSet(lv[m]) : q.data[k] # Absent /\ NewestEntry(RunSet(lv[m]), k) = q.data[k]
        BY <3>3, NewestCases DEF RankedLevels, LevelEntry
      <3>5. q = r
        BY <2>1, <3>4 DEF AllRuns
      <3> QED BY <3>3, <3>4, <3>5 DEF LevelEntry
    <2>3. \A i \in DOMAIN s : s[i].data[k] # Absent => s[i] = r
      BY <1>2, <2>1
    <2>4. CASE r.data[k] = Tombstone
      <3>1. H = {}
        BY <1>3, <1>4, <2>3, <2>4
      <3> HIDE DEF H
      <3>2. FirstEntries(read)[k] = Absent
        BY <1>5, <3>1
      <3> QED BY <2>2, <2>4, <3>2 DEF read, s
    <2>5. CASE r.data[k] # Tombstone
      <3>1. PICK i \in DOMAIN s : s[i] = r
        BY <1>1 DEF RunSet
      <3>2. i \in H /\ H \subseteq Nat
        BY <1>2, <1>3, <1>4, <2>1, <2>5, <3>1
      <3>3. \A j \in H : read[j].data[k] = r.data[k]
        BY <1>3, <1>4, <2>3
      <3> HIDE DEF H
      <3>4. PICK j \in H : \A n \in H : j <= n
        BY <3>2, LeastNumber
      <3>5. top \in H
        BY <3>4
      <3> HIDE DEF top
      <3>6. FirstEntries(read)[k] = r.data[k]
        BY <1>5, <3>3, <3>5
      <3> QED BY <2>2, <2>5, <3>6 DEF read, s
    <2> QED BY <2>4, <2>5
  <1> QED BY <1>6, <1>7

\* A snapshot's iterator, which lets the deepest run win within a level and
\* drops tombstones before they hide anything (lib.rs:1494-1531), shows what
\* range shows for the keys that one layer decides alone.
THEOREM IteratorsShowContents == Spec => []IterShowsContents
PROOF
  <1>1. ASSUME TypeInv, RunNumbersUnique PROVE IterShowsContents
    <2>1. memtable \in Data /\ levels \in LevelMap /\ RankedLevels(levels)
      BY <1>1, RankedHeld DEF TypeInv, TypeOK
    <2>2. ASSUME NEW k \in Keys, Alone(k)
          PROVE  SnapshotIter(memtable, levels)[k] = Contents(memtable, levels)[k]
      <3> DEFINE s == RunsUpwards(levels)
                 read == [i \in DOMAIN s |-> RunValues(s[i])]
                 first == FirstEntries(read)
      <3>1. SnapshotIter(memtable, levels)[k]
              = LET v == IF memtable[k] # Absent THEN memtable[k] ELSE first[k]
                IN  IF v = Tombstone THEN Absent ELSE v
        BY DEF SnapshotIter, Live, Overlay
      <3>2. Contents(memtable, levels)[k]
              = LET v == IF memtable[k] # Absent THEN memtable[k] ELSE RangeEntry(levels, k)
                IN  IF v = Tombstone THEN Absent ELSE v
        BY DEF Contents, Live, Overlay, RangeData
      <3> HIDE DEF first
      <3>3. CASE memtable[k] # Absent
        BY <3>1, <3>2, <3>3
      <3>4. CASE memtable[k] = Absent
        <4> DEFINE X == {r \in AllRuns(levels) : r.data[k] # Absent}
        <4>1. Cardinality(X) <= 1
          BY <2>2, <3>4 DEF Alone
        <4>2. IsFiniteSet(X)
          <5>1. IsFiniteSet(AllRuns(levels)) /\ X \in SUBSET AllRuns(levels)
            BY <2>1, UpwardsAll, FiniteSequence
          <5> HIDE DEF X
          <5> QED BY <5>1, FS_Subset
        <4>3. \A r, q \in X : r = q
          <5> HIDE DEF X
          <5>1. Cardinality(X) = 0 \/ Cardinality(X) = 1
            BY <4>1, <4>2, FS_CardinalityType
          <5> QED BY <4>2, <5>1, FS_EmptySet, FS_Singleton
        <4>4. first[k] = IF RangeEntry(levels, k) = Tombstone THEN Absent
                                                             ELSE RangeEntry(levels, k)
          <5>1. \A r, q \in AllRuns(levels) : r.data[k] # Absent /\ q.data[k] # Absent => r = q
            BY <4>3
          <5> QED BY <2>1, <5>1, LoneEntry DEF first
        <4> QED BY <3>1, <3>2, <3>4, <4>4, DataAssumption
      <3> QED BY <3>3, <3>4
    <2> QED BY <2>2 DEF IterShowsContents
  <1>2. Spec => []TypeInv
    BY TypeInit, TypeNext, PTL DEF Spec
  <1> QED BY <1>1, <1>2, RunsHaveTheirNumbers, PTL

---------------------------------------------------------------------------
(* Folds.                                                                  *)

\* The greatest of some numbers up to N.
LEMMA Greatest ==
  ASSUME NEW N \in Nat, NEW S \in SUBSET (1 .. N), S # {}
  PROVE  Max(S) \in S /\ \A x \in S : x <= Max(S)
PROOF
  <1>1. PICK m \in S : \A x \in S : x <= m
    <2>1. S \subseteq Nat /\ N + 1 \in Nat /\ \A x \in S : x < N + 1
      OBVIOUS
    <2> QED BY <2>1, BoundedMax
  <1>2. \A x \in S : m >= x
    BY <1>1
  <1>3. Max(S) \in S /\ \A x \in S : Max(S) >= x
    BY <1>2 DEF Max
  <1> QED BY <1>3

\* One more removed from a finite set.
LEMMA Smaller ==
  ASSUME NEW T, IsFiniteSet(T), NEW s \in SUBSET T
  PROVE  /\ IsFiniteSet(s) /\ Cardinality(s) \in Nat /\ Cardinality(s) <= Cardinality(T)
         /\ Cardinality(s) = 0 <=> s = {}
         /\ \A x \in s : s \ {x} \in SUBSET T /\ Cardinality(s \ {x}) = Cardinality(s) - 1
PROOF
  <1>1. IsFiniteSet(s) /\ Cardinality(s) <= Cardinality(T)
    BY FS_Subset
  <1>2. Cardinality(s) \in Nat
    BY <1>1, FS_CardinalityType
  <1>3. Cardinality(s) = 0 <=> s = {}
    BY <1>1, FS_EmptySet
  <1>4. \A x \in s : Cardinality(s \ {x}) = Cardinality(s) - 1
    BY <1>1, FS_RemoveElement
  <1> QED BY <1>1, <1>2, <1>3, <1>4

\* A choice of an element of every set, and the sum of g along it.
Picks(c, T) == \A s \in SUBSET T : s # {} => c[s] \in s
Adds(f, T, g, c) == \A s \in SUBSET T : f[s] = IF s = {} THEN 0 ELSE g[c[s]] + f[s \ {c[s]}]

\* A fold that takes c[s] from the set s, and combines it by m with the rest.
FoldsBy(f, T, b, c, m) ==
  \A s \in SUBSET T : f[s] = IF s = {} THEN b ELSE m[c[s]][f[s \ {c[s]}]]

\* Such a fold exists, as a function over the subsets of T.
LEMMA FoldExists ==
  ASSUME NEW T, IsFiniteSet(T), NEW V, NEW b \in V,
         NEW c, Picks(c, T), NEW m, \A x \in T, a \in V : m[x][a] \in V
  PROVE  \E f \in [SUBSET T -> V] : FoldsBy(f, T, b, c, m)
PROOF
  <1> DEFINE D(n) == {s \in SUBSET T : Cardinality(s) <= n}
             Upto(f, n) == \A s \in D(n) : f[s] = IF s = {} THEN b ELSE m[c[s]][f[s \ {c[s]}]]
             G == {n \in Nat : \E f \in [D(n) -> V] : Upto(f, n)}
  <1>1. 0 \in G
    <2>1. [s \in D(0) |-> b] \in [D(0) -> V]
      OBVIOUS
    <2>2. \A s \in D(0) : s = {}
      <3> SUFFICES ASSUME NEW s \in D(0) PROVE s = {}
        OBVIOUS
      <3>1. Cardinality(s) \in Nat /\ (Cardinality(s) = 0 <=> s = {})
        BY Smaller
      <3> QED BY <3>1
    <2>3. Upto([s \in D(0) |-> b], 0)
      BY <2>2
    <2> QED BY <2>1, <2>3
  <1>2. ASSUME NEW n \in Nat, n \in G PROVE n + 1 \in G
    <2>1. PICK f \in [D(n) -> V] : Upto(f, n)
      BY <1>2
    <2> DEFINE h == [s \in D(n + 1) |-> IF s = {} THEN b ELSE m[c[s]][f[s \ {c[s]}]]]
    <2>2. ASSUME NEW s \in D(n + 1), s # {}
          PROVE  c[s] \in s /\ s \ {c[s]} \in D(n) /\ f[s \ {c[s]}] \in V
      <3>1. c[s] \in s
        BY <2>2 DEF Picks
      <3>2. /\ s \ {c[s]} \in SUBSET T /\ Cardinality(s \ {c[s]}) = Cardinality(s) - 1
            /\ Cardinality(s) \in Nat /\ Cardinality(s) <= n + 1
        BY <3>1, Smaller
      <3>3. Cardinality(s \ {c[s]}) <= n
        BY <3>2
      <3> QED BY <3>1, <3>2, <3>3
    <2>3. h \in [D(n + 1) -> V]
      <3> SUFFICES ASSUME NEW s \in D(n + 1)
                   PROVE  (IF s = {} THEN b ELSE m[c[s]][f[s \ {c[s]}]]) \in V
        OBVIOUS
      <3>1. CASE s # {}
        <4>1. c[s] \in T /\ f[s \ {c[s]}] \in V
          BY <2>2, <3>1
        <4> QED BY <3>1, <4>1
      <3> QED BY <3>1
    <2>4. ASSUME NEW s \in D(n) PROVE s \in D(n + 1) /\ h[s] = f[s]
      <3>1. Cardinality(s) \in Nat
        BY Smaller
      <3>2. s \in D(n + 1)
        BY <3>1
      <3> QED BY <2>1, <3>2
    <2>5. Upto(h, n + 1)
      <3> SUFFICES ASSUME NEW s \in D(n + 1)
                   PROVE  h[s] = IF s = {} THEN b ELSE m[c[s]][h[s \ {c[s]}]]
        OBVIOUS
      <3>1. CASE s # {}
        <4>1. h[s \ {c[s]}] = f[s \ {c[s]}]
          BY <2>2, <2>4, <3>1
        <4> QED BY <3>1, <4>1
      <3> QED BY <3>1
    <2> HIDE DEF h, Upto, D
    <2>6. \E q \in [D(n + 1) -> V] : Upto(q, n + 1)
      BY <2>3, <2>5
    <2> QED BY <2>6
  <1> HIDE DEF G
  <1>3. Nat \subseteq G
    BY <1>1, <1>2, AllNumbers
  <1> USE DEF G
  <1>4. Cardinality(T) \in G
    BY <1>3, FS_CardinalityType
  <1>5. PICK f \in [D(Cardinality(T)) -> V] : Upto(f, Cardinality(T))
    BY <1>4
  <1>6. D(Cardinality(T)) = SUBSET T
    BY Smaller
  <1> QED BY <1>5, <1>6 DEF FoldsBy

\* The sum of g, along any choice.
AddsAny(f, T, g) == \A s \in SUBSET T : \A x \in s : f[s] = g[x] + f[s \ {x}]

\* A sum over a set takes its elements in any order.
LEMMA SumAny ==
  ASSUME NEW T, IsFiniteSet(T), NEW g \in [T -> Nat],
         NEW c, Picks(c, T), NEW f \in [SUBSET T -> Nat], Adds(f, T, g, c)
  PROVE  AddsAny(f, T, g)
PROOF
  <1> DEFINE A(s) == \A x \in s : f[s] = g[x] + f[s \ {x}]
             G == {n \in Nat : \A s \in SUBSET T : Cardinality(s) = n => A(s)}
  <1>1. 0 \in G
    BY Smaller
  <1>2. ASSUME NEW n \in Nat, n \in G PROVE n + 1 \in G
    <2> SUFFICES ASSUME NEW s \in SUBSET T, Cardinality(s) = n + 1, NEW x \in s
                 PROVE  f[s] = g[x] + f[s \ {x}]
      OBVIOUS
    <2>1. PICK y : y = c[s]
      OBVIOUS
    <2>2. y \in s /\ f[s] = g[y] + f[s \ {y}]
      BY <2>1 DEF Picks, Adds
    <2>3. CASE x # y
      <3>1. /\ s \ {x} \in SUBSET T /\ Cardinality(s \ {x}) = n
            /\ s \ {y} \in SUBSET T /\ Cardinality(s \ {y}) = n
        BY <2>2, Smaller
      <3>2. A(s \ {x}) /\ A(s \ {y})
        BY <1>2, <3>1
      <3>3. x \in s \ {y} /\ y \in s \ {x}
        BY <2>2, <2>3
      <3>4. (s \ {x}) \ {y} = (s \ {y}) \ {x}
        OBVIOUS
      <3>5. PICK z : z = f[(s \ {x}) \ {y}]
        OBVIOUS
      <3>6. f[s \ {x}] = g[y] + z /\ f[s \ {y}] = g[x] + z
        BY <3>2, <3>3, <3>4, <3>5
      <3>7. g[x] \in Nat /\ g[y] \in Nat /\ z \in Nat
        <4>1. x \in T /\ y \in T /\ (s \ {x}) \ {y} \in SUBSET T
          BY <2>2
        <4> QED BY <3>5, <4>1
      <3> QED BY <2>2, <3>6, <3>7
    <2> QED BY <2>2, <2>3
  <1> HIDE DEF G
  <1>3. Nat \subseteq G
    BY <1>1, <1>2, AllNumbers
  <1> USE DEF G
  <1>4. \A s \in SUBSET T : Cardinality(s) \in Nat
    BY Smaller
  <1> QED BY <1>3, <1>4 DEF AddsAny

\* Values stand for numbers.
LEMMA NumberType ==
  ASSUME NEW v \in Seq(Byte)
  PROVE  Number(v) \in Nat
PROOF
  <1> DEFINE N == Len(v)
             g == [n \in 1 .. N |-> [x \in Nat |-> x * (MaxByte + 1) + v[N + 1 - n]]]
  <1>1. N \in Nat /\ MaxByte + 1 \in Nat /\ \A i \in 1 .. N : v[i] \in Nat
    <2>1. N \in Nat /\ \A i \in 1 .. N : v[i] \in Byte
      BY LenProperties
    <2> QED BY <2>1, TableAssumption DEF Byte
  <1>2. \A n \in 1 .. N, x \in Nat : x * (MaxByte + 1) + v[N + 1 - n] \in Nat
    <2> SUFFICES ASSUME NEW n \in 1 .. N, NEW x \in Nat
                 PROVE  x * (MaxByte + 1) + v[N + 1 - n] \in Nat
      OBVIOUS
    <2>1. N + 1 - n \in 1 .. N
      BY <1>1
    <2>2. v[N + 1 - n] \in Nat
      BY <1>1, <2>1
    <2>3. x * (MaxByte + 1) \in Nat
      BY <1>1
    <2> QED BY <2>2, <2>3
  <1> HIDE DEF N
  <1>3. g \in [1 .. N -> [Nat -> Nat]]
    BY <1>2
  <1>4. PICK f \in [0 .. N -> Nat] : Loop(f, N, 0, g)
    BY <1>1, <1>3, LoopExists
  <1>5. f = [n \in 0 .. N |-> IF n = 0 THEN 0 ELSE g[n][f[n - 1]]]
    BY <1>4 DEF Loop
  <1>6. \E q : q = [n \in 0 .. N |-> IF n = 0 THEN 0 ELSE q[n - 1] * (MaxByte + 1) + v[N + 1 - n]]
    <2>1. ASSUME NEW n \in 0 .. N, n # 0 PROVE n \in 1 .. N /\ f[n - 1] \in Nat
      <3>1. n \in 1 .. N /\ n - 1 \in 0 .. N
        BY <1>1, <2>1
      <3> QED BY <1>4, <3>1
    <2>2. \A n \in 0 .. N : n # 0 => g[n][f[n - 1]] = f[n - 1] * (MaxByte + 1) + v[N + 1 - n]
      BY <2>1
    <2> HIDE DEF g
    <2>3. f = [n \in 0 .. N |-> IF n = 0 THEN 0 ELSE f[n - 1] * (MaxByte + 1) + v[N + 1 - n]]
      BY <1>5, <2>2
    <2> QED BY <2>3
  <1> DEFINE q == CHOOSE q : q = [n \in 0 .. N |-> IF n = 0 THEN 0
                                     ELSE q[n - 1] * (MaxByte + 1) + v[N + 1 - n]]
  <1>7. q = [n \in 0 .. N |-> IF n = 0 THEN 0 ELSE q[n - 1] * (MaxByte + 1) + v[N + 1 - n]]
    BY <1>6
  <1>8. Number(v) = q[N]
    BY DEF Number, N
  <1> DEFINE G == {n \in Nat : n <= N => q[n] \in Nat}
  <1> HIDE DEF q, g
  <1>9. 0 \in G
    BY <1>1, <1>7
  <1>10. ASSUME NEW n \in Nat, n \in G PROVE n + 1 \in G
    <2> SUFFICES ASSUME n + 1 <= N PROVE q[n + 1] \in Nat
      OBVIOUS
    <2>1. n + 1 \in 1 .. N /\ n + 1 \in 0 .. N /\ (n + 1) - 1 = n /\ n + 1 # 0 /\ q[n] \in Nat
      BY <1>1, <1>10
    <2>2. q[n + 1] = q[n] * (MaxByte + 1) + v[N + 1 - (n + 1)]
      BY <1>7, <2>1
    <2> QED BY <1>2, <2>1, <2>2
  <1>11. N \in G
    <2> HIDE DEF G
    <2>1. Nat \subseteq G
      BY <1>9, <1>10, AllNumbers
    <2> QED BY <1>1, <2>1
  <1> QED BY <1>1, <1>8, <1>11

\* The live entries of d stand for numbers, up to the largest there is.
LEMMA NumbersType ==
  /\ MaxNumber \in Nat
  /\ \A v \in Values : Number(v) \in Nat
PROOF
  <1>1. Filled(ValueLen) \in Seq(Byte)
    <2>1. Filled(ValueLen) \in [1 .. ValueLen -> Byte]
      BY TableAssumption, DataAssumption DEF Filled, Byte
    <2> QED BY <2>1, SeqDef, DataAssumption
  <1>2. Values \subseteq Seq(Byte)
    BY TableAssumption
  <1> QED BY <1>1, <1>2, NumberType DEF MaxNumber

\* A sum over the keys of K, as a function over its subsets.
SumOver(f, d, K) ==
  /\ f \in [SUBSET K -> Nat] /\ f[{}] = 0
  /\ \A s \in SUBSET K : \A x \in s : f[s] = Number(d[x]) + f[s \ {x}]

SumOf(d, K) == MapThenSumSet(LAMBDA k : Number(d[k]), K)

\* A sum is such a function, applied to the whole set.
LEMMA SumIs ==
  ASSUME NEW d, NEW K, IsFiniteSet(K), \A k \in K : d[k] \in Values
  PROVE  \E f : SumOver(f, d, K) /\ SumOf(d, K) = f[K]
PROOF
  <1> DEFINE c == [s \in SUBSET K |-> CHOOSE x \in s : TRUE]
             m == [x \in K |-> [a \in Nat |-> Number(d[x]) + a]]
             g == [x \in K |-> Number(d[x])]
             Sums(f) == f = [s \in SUBSET K |-> IF s = {} THEN 0 ELSE
                               LET x == CHOOSE x \in s : TRUE IN Number(d[x]) + f[s \ {x}]]
  <1>1. Picks(c, K)
    BY DEF Picks
  <1>2. \A x \in K : Number(d[x]) \in Nat
    BY NumbersType
  <1>3. \A x \in K, a \in Nat : m[x][a] \in Nat
    BY <1>2
  <1>4. PICK h \in [SUBSET K -> Nat] : FoldsBy(h, K, 0, c, m)
    <2> HIDE DEF c, m
    <2>1. 0 \in Nat
      OBVIOUS
    <2> QED BY <1>1, <1>3, <2>1, FoldExists
  <1>5. Sums(h)
    <2>1. ASSUME NEW s \in SUBSET K, s # {}
          PROVE  h[s] = LET x == CHOOSE x \in s : TRUE IN Number(d[x]) + h[s \ {x}]
      <3>1. c[s] \in K /\ h[s \ {c[s]}] \in Nat /\ c[s] = CHOOSE x \in s : TRUE
        BY <1>1, <1>4, <2>1 DEF Picks
      <3>2. h[s] = m[c[s]][h[s \ {c[s]}]]
        BY <1>4, <2>1 DEF FoldsBy
      <3>3. h[s] = Number(d[c[s]]) + h[s \ {c[s]}]
        BY <3>1, <3>2
      <3> QED BY <3>1, <3>3
    <2>2. h[{}] = 0
      BY <1>4 DEF FoldsBy
    <2> QED BY <1>4, <2>1, <2>2
  <1> DEFINE q == CHOOSE f : Sums(f)
  <1>6. Sums(q)
    <2> HIDE DEF Sums
    <2> QED BY <1>5
  <1>7. SumOf(d, K) = q[K]
    BY DEF SumOf, MapThenSumSet, MapThenFoldSet
  <1> HIDE DEF q
  <1>8. q[{}] = 0 /\ \A s \in SUBSET K : s # {} => q[s] = Number(d[c[s]]) + q[s \ {c[s]}]
    BY <1>6
  <1> DEFINE G == {n \in Nat : \A s \in SUBSET K : Cardinality(s) = n => q[s] \in Nat}
  <1>9. 0 \in G
    <2> SUFFICES ASSUME NEW s \in SUBSET K, Cardinality(s) = 0 PROVE q[s] \in Nat
      OBVIOUS
    <2>1. s = {}
      BY Smaller
    <2> QED BY <1>8, <2>1
  <1>10. ASSUME NEW n \in Nat, n \in G PROVE n + 1 \in G
    <2> SUFFICES ASSUME NEW s \in SUBSET K, Cardinality(s) = n + 1 PROVE q[s] \in Nat
      OBVIOUS
    <2> HIDE DEF c
    <2>1. s # {} /\ c[s] \in s
      BY <1>1, Smaller DEF Picks
    <2>2. s \ {c[s]} \in SUBSET K /\ Cardinality(s \ {c[s]}) = n
      BY <2>1, Smaller
    <2>3. q[s \ {c[s]}] \in Nat
      BY <1>10, <2>2
    <2>4. Number(d[c[s]]) \in Nat
      BY <1>2, <2>1
    <2> QED BY <1>8, <2>1, <2>3, <2>4
  <1>11. \A s \in SUBSET K : q[s] \in Nat
    <2> HIDE DEF G
    <2>1. Nat \subseteq G
      BY <1>9, <1>10, AllNumbers
    <2> USE DEF G
    <2> QED BY <2>1, Smaller
  <1>12. q \in [SUBSET K -> Nat]
    BY <1>6, <1>11
  <1>13. \A s \in SUBSET K : \A x \in s : q[s] = Number(d[x]) + q[s \ {x}]
    <2>1. g \in [K -> Nat] /\ \A x \in K : g[x] = Number(d[x])
      BY <1>2
    <2>2. Adds(q, K, g, c)
      BY <1>1, <1>8, <2>1 DEF Adds, Picks
    <2> HIDE DEF g, c, m, G, Sums
    <2>3. g \in [K -> Nat]
      BY <2>1
    <2>4. AddsAny(q, K, g)
      BY <1>1, <1>12, <2>2, <2>3, SumAny
    <2> QED BY <2>1, <2>4 DEF AddsAny
  <1>14. SumOver(q, d, K)
    BY <1>8, <1>12, <1>13 DEF SumOver
  <1> QED BY <1>7, <1>14

\* saturating_add, and sums that are cut to the largest number.
LEMMA MappendType ==
  ASSUME NEW a \in Nat, NEW b \in Nat
  PROVE  /\ Mappend(a, b) \in Nat /\ Saturated(a) \in Nat
         /\ Mappend(Saturated(a), b) = Saturated(b + a)
PROOF
  <1>1. MaxNumber \in Nat
    BY NumbersType
  <1> QED BY <1>1 DEF Mappend, Saturated

\* The loop of the folds: the number after n entries.
FoldLoop(f, s, N, d) ==
  /\ f \in [0 .. N -> Nat] /\ f[0] = 0
  /\ \A n \in 1 .. N : f[n] = Mappend(f[n - 1], Number(d[s[n]]))

FoldOf(d, s) == FoldLeft(LAMBDA a, k : Mappend(a, Number(d[k])), 0, s)

\* FoldLeft is that loop.
LEMMA FoldLeftIs ==
  ASSUME NEW d, NEW s, NEW N \in Nat, DOMAIN s = 1 .. N, \A n \in 1 .. N : d[s[n]] \in Values
  PROVE  \E f : /\ FoldLoop(f, s, N, d)
                /\ FoldOf(d, s) = f[N]
PROOF
  <1> DEFINE T == 1 .. N
             c == [S \in SUBSET T |-> Max(S)]
             m == [n \in T |-> [a \in Nat |-> Mappend(a, Number(d[s[n]]))]]
             Runs(f) == f = [S \in SUBSET T |-> IF S = {} THEN 0 ELSE
                               LET x == Max(S) IN Mappend(f[S \ {x}], Number(d[s[x]]))]
  <1>1. Picks(c, T)
    <2> SUFFICES ASSUME NEW S \in SUBSET T, S # {} PROVE c[S] \in S
      BY DEF Picks
    <2>1. Max(S) \in S
      BY Greatest
    <2> QED BY <2>1
  <1>2. \A n \in T : Number(d[s[n]]) \in Nat
    BY NumbersType
  <1>3. \A n \in T, a \in Nat : m[n][a] \in Nat
    BY <1>2, MappendType
  <1>4. IsFiniteSet(T)
    BY FS_Interval
  <1>5. PICK h \in [SUBSET T -> Nat] : FoldsBy(h, T, 0, c, m)
    <2> HIDE DEF c, m, T
    <2>1. 0 \in Nat
      OBVIOUS
    <2> QED BY <1>1, <1>3, <1>4, <2>1, FoldExists
  <1> HIDE DEF T
  <1>6. Runs(h)
    <2>1. ASSUME NEW S \in SUBSET T, S # {}
          PROVE  h[S] = LET x == Max(S) IN Mappend(h[S \ {x}], Number(d[s[x]]))
      <3>1. c[S] \in T /\ h[S \ {c[S]}] \in Nat /\ c[S] = Max(S)
        BY <1>1, <1>5, <2>1 DEF Picks
      <3>2. h[S] = m[c[S]][h[S \ {c[S]}]]
        BY <1>5, <2>1 DEF FoldsBy
      <3>3. h[S] = Mappend(h[S \ {c[S]}], Number(d[s[c[S]]]))
        BY <3>1, <3>2
      <3> QED BY <3>1, <3>3
    <2>2. h[{}] = 0
      BY <1>5 DEF FoldsBy
    <2> QED BY <1>5, <2>1, <2>2
  <1> DEFINE q == CHOOSE f : Runs(f)
  <1>7. Runs(q)
    <2> HIDE DEF Runs
    <2> QED BY <1>6
  <1>8. FoldOf(d, s) = q[T]
    <2>1. DOMAIN s = T
      BY DEF T
    <2> QED BY <2>1 DEF FoldOf, FoldLeft, MapThenFoldSet
  <1> HIDE DEF q
  <1> DEFINE f == [n \in 0 .. N |-> q[1 .. n]]
             G == {n \in Nat : n <= N => f[n] \in Nat}
  <1>9. f[0] = 0
    <2>1. 1 .. 0 = {} /\ {} \in SUBSET T
      OBVIOUS
    <2>2. q[{}] = 0
      BY <1>7, <2>1
    <2> QED BY <2>1, <2>2
  <1>10. ASSUME NEW n \in 1 .. N PROVE f[n] = Mappend(f[n - 1], Number(d[s[n]]))
    <2>1. 1 .. n \in SUBSET T /\ 1 .. n # {} /\ n \in 1 .. n
      <3>1. n \in 1 .. n /\ \A x \in 1 .. n : x \in 1 .. N
        OBVIOUS
      <3> QED BY <3>1 DEF T
    <2>2. Max(1 .. n) = n
      <3>1. Max(1 .. n) \in 1 .. n /\ \A x \in 1 .. n : x <= Max(1 .. n)
        BY <2>1, Greatest DEF T
      <3> QED BY <2>1, <3>1
    <2>3. (1 .. n) \ {n} = 1 .. (n - 1) /\ n \in 0 .. N /\ n - 1 \in 0 .. N
      OBVIOUS
    <2>4. q[1 .. n] = Mappend(q[(1 .. n) \ {n}], Number(d[s[n]]))
      BY <1>7, <2>1, <2>2
    <2> QED BY <2>3, <2>4
  <1>11. f \in [0 .. N -> Nat]
    <2>1. 0 \in G
      BY <1>9
    <2>2. ASSUME NEW n \in Nat, n \in G PROVE n + 1 \in G
      <3> SUFFICES ASSUME n + 1 <= N PROVE f[n + 1] \in Nat
        OBVIOUS
      <3>1. n + 1 \in 1 .. N /\ (n + 1) - 1 = n /\ f[n] \in Nat
        BY <2>2
      <3> HIDE DEF f
      <3>2. f[n + 1] = Mappend(f[n], Number(d[s[n + 1]]))
        BY <1>10, <3>1
      <3>3. Number(d[s[n + 1]]) \in Nat
        BY <1>2, <3>1 DEF T
      <3> HIDE DEF G
      <3>4. Mappend(f[n], Number(d[s[n + 1]])) \in Nat
        BY <3>1, <3>3, MappendType
      <3> QED BY <3>2, <3>4
    <2>3. Nat \subseteq G
      <3> HIDE DEF G
      <3> QED BY <2>1, <2>2, AllNumbers
    <2>4. \A n \in 0 .. N : f[n] \in Nat
      <3> HIDE DEF f
      <3>1. \A n \in 0 .. N : n \in G /\ n <= N
        BY <2>3
      <3> QED BY <3>1
    <2> QED BY <2>4
  <1>12. f[N] = q[T]
    BY DEF T
  <1> HIDE DEF f
  <1>13. FoldLoop(f, s, N, d)
    BY <1>9, <1>10, <1>11 DEF FoldLoop
  <1> QED BY <1>8, <1>12, <1>13

\* The keys of K, each once.
Lists(s, N, K) ==
  /\ \A n \in 1 .. N : s[n] \in K
  /\ \A i, j \in 1 .. N : s[i] = s[j] => i = j
  /\ \A k \in K : \E n \in 1 .. N : s[n] = k

\* The loop over the keys of a set, each once, gives the saturated sum over it.
LEMMA LoopAdds ==
  ASSUME NEW d, NEW K, NEW s, NEW N \in Nat, NEW f, FoldLoop(f, s, N, d), NEW g, SumOver(g, d, K),
         Lists(s, N, K), \A k \in K : d[k] \in Values
  PROVE  f[N] = Saturated(g[K])
PROOF
  <1> DEFINE First(n) == {s[i] : i \in 1 .. n}
             G == {n \in Nat : n <= N => f[n] = Saturated(g[First(n)])}
  <1>1. 0 \in G
    <2>1. First(0) = {}
      OBVIOUS
    <2>2. Saturated(0) = 0
      BY NumbersType DEF Saturated
    <2> QED BY <2>1, <2>2 DEF FoldLoop, SumOver
  <1>2. ASSUME NEW n \in Nat, n \in G PROVE n + 1 \in G
    <2> SUFFICES ASSUME n + 1 <= N PROVE f[n + 1] = Saturated(g[First(n + 1)])
      OBVIOUS
    <2>1. PICK k : k = s[n + 1]
      OBVIOUS
    <2>2. n + 1 \in 1 .. N /\ (n + 1) - 1 = n /\ \A i \in 1 .. n + 1 : i \in 1 .. N
      OBVIOUS
    <2>3. k \in First(n + 1) /\ First(n + 1) \in SUBSET K /\ First(n) \in SUBSET K
      BY <2>1, <2>2 DEF Lists
    <2>4. First(n + 1) \ {k} = First(n)
      <3>1. \A i \in 1 .. n : s[i] # k
        BY <2>1, <2>2 DEF Lists
      <3>2. \A i \in 1 .. n + 1 : i \in 1 .. n \/ i = n + 1
        OBVIOUS
      <3> QED BY <2>1, <3>1, <3>2
    <2> HIDE DEF First
    <2>5. g[First(n + 1)] = Number(d[k]) + g[First(n)] /\ g[First(n)] \in Nat
      BY <2>3, <2>4 DEF SumOver
    <2>6. f[n + 1] = Mappend(f[n], Number(d[k]))
      BY <2>1, <2>2 DEF FoldLoop
    <2>7. f[n] = Saturated(g[First(n)])
      BY <1>2
    <2>8. Number(d[k]) \in Nat
      BY <2>1, <2>2, NumbersType DEF Lists
    <2> HIDE DEF G
    <2>9. PICK a, b : a = g[First(n)] /\ b = Number(d[k])
      OBVIOUS
    <2>10. Mappend(Saturated(a), b) = Saturated(b + a)
      BY <2>5, <2>8, <2>9, MappendType
    <2> QED BY <2>5, <2>6, <2>7, <2>9, <2>10
  <1>3. N \in G
    <2> HIDE DEF G
    <2> QED BY <1>1, <1>2, AllNumbers
  <1>4. First(N) = K
    BY DEF Lists
  <1> HIDE DEF First
  <1> QED BY <1>3, <1>4

\* A fold of the entries within W gives their sum, up to the largest number.
LEMMA FoldAdds ==
  ASSUME NEW live, \A k \in Keys : live[k] \in Values \union {Absent}, NEW W \in SUBSET Keys,
         NEW d, d = [k \in Keys |-> IF k \in W THEN live[k] ELSE Absent]
  PROVE  FoldEntries(d) = Saturated(LiveSum(live, W))
PROOF
  <1> DEFINE K == {k \in W : live[k] # Absent}
             s == SortedKeys(d)
             N == Cardinality(Present(d))
  <1>1. d \in Data
    BY DEF Data, Entries
  <1>2. Present(d) = K
    BY DEF Present
  <1>3. IsFiniteSet(K) /\ K \in SUBSET Keys
    <2>1. K \in SUBSET Keys
      OBVIOUS
    <2> HIDE DEF K
    <2> QED BY <2>1, DataAssumption, FS_Subset
  <1>4. \A k \in K : d[k] = live[k] /\ d[k] \in Values /\ live[k] \in Values
    OBVIOUS
  <1> HIDE DEF K
  <1>5. PICK g : SumOver(g, live, K) /\ SumOf(live, K) = g[K]
    BY <1>3, <1>4, SumIs
  <1>6. SumOver(g, d, K)
    BY <1>4, <1>5 DEF SumOver
  <1>7. N \in Nat /\ DOMAIN s = 1 .. N /\ Lists(s, N, K)
    BY <1>1, <1>2, SortedKeysAre DEF Lists
  <1> HIDE DEF s, N
  <1>8. \A n \in 1 .. N : d[s[n]] \in Values
    BY <1>4, <1>7 DEF Lists
  <1>9. PICK f : FoldLoop(f, s, N, d) /\ FoldOf(d, s) = f[N]
    BY <1>7, <1>8, FoldLeftIs
  <1>10. FoldEntries(d) = FoldOf(d, s)
    BY DEF FoldEntries, FoldOf, Mempty, s
  <1>11. f[N] = Saturated(g[K])
    BY <1>4, <1>6, <1>7, <1>9, LoopAdds
  <1>12. LiveSum(live, W) = SumOf(live, K)
    BY DEF LiveSum, SumOf, K
  <1> QED BY <1>5, <1>9, <1>10, <1>11, <1>12

\* What range shows are values.
LEMMA ContentsValues ==
  ASSUME NEW m \in Data, NEW lv \in LevelMap, RankedLevels(lv), NEW k \in Keys
  PROVE  Contents(m, lv)[k] \in Values \union {Absent}
PROOF
  <1>1. Contents(m, lv) \in Data
    BY ContentsType
  <1>2. Contents(m, lv)[k] # Tombstone
    BY DataAssumption DEF Contents, Live
  <1> QED BY <1>1, <1>2 DEF Data

\* An entry map is known by its entries.
LEMMA SameEntries ==
  ASSUME NEW x, NEW live, NEW W \in SUBSET Keys,
         \A k \in Keys : Live(x)[k] = IF k \in W THEN live[k] ELSE Absent
  PROVE  Live(x) = [k \in Keys |-> IF k \in W THEN live[k] ELSE Absent]
PROOF
  BY DEF Live

\* For keys no longer than the end of a scan of everything (20 bytes, lib.rs:1048):
\* the saturating folds of a monoidal tree and of its snapshots, in the order of
\* the keys (monoidal.rs:194-204, 312-321), give the sum of the live values within
\* the bounds, up to the largest number.
THEOREM FoldsAddUpAlways == KeyLen <= ScanAllLen => (Spec => []FoldsAddUp)
PROOF
  <1> SUFFICES ASSUME KeyLen <= ScanAllLen PROVE Spec => []FoldsAddUp
    OBVIOUS
  <1>1. ASSUME TypeInv, RunNumbersUnique, IterShowsContents PROVE FoldsAddUp
    <2> SUFFICES ASSUME Idle
                 PROVE  LET live == Contents(memtable, levels)
                        IN  /\ PrefixFold(memtable, levels, <<>>) = Saturated(LiveSum(live, Keys))
                            /\ \A from, to \in Keys :
                                 LET within == {k \in Keys : InBounds(k, from, to)}
                                 IN  /\ RangeFold(memtable, levels, from, to)
                                          = Saturated(LiveSum(live, within))
                                     /\ (\A k \in within : Alone(k)) =>
                                          SnapshotFold(memtable, levels, from, to)
                                            = Saturated(LiveSum(live, within))
      BY DEF FoldsAddUp
    <2>1. memtable \in Data /\ levels \in LevelMap /\ RankedLevels(levels)
      BY <1>1, RankedHeld DEF TypeInv, TypeOK
    <2>2. PICK m, lv, live : m = memtable /\ lv = levels /\ live = Contents(m, lv)
      OBVIOUS
    <2>3. m \in Data /\ lv \in LevelMap /\ RankedLevels(lv)
      BY <2>1, <2>2
    <2>4. \A k \in Keys : live[k] \in Values \union {Absent}
      BY <2>2, <2>3, ContentsValues
    <2>5. ASSUME NEW from \in Strings(ScanAllLen), NEW to \in Strings(ScanAllLen),
                 from \in Seq(Byte), to \in Seq(Byte),
                 NEW W, W = {k \in Keys : InBounds(k, from, to)}
          PROVE  RangeFold(m, lv, from, to) = Saturated(LiveSum(live, W))
      <3>1. \A k \in Keys :
              TreeRange(m, lv, from, to)[k] = IF k \in W THEN live[k] ELSE Absent
        BY <2>2, <2>3, <2>5, TreeRangeIs
      <3>2. TreeRange(m, lv, from, to) = [k \in Keys |-> IF k \in W THEN live[k] ELSE Absent]
        BY <2>5, <3>1, SameEntries DEF TreeRange
      <3>3. W \in SUBSET Keys
        BY <2>5
      <3>4. FoldEntries(TreeRange(m, lv, from, to)) = Saturated(LiveSum(live, W))
        BY <2>4, <3>2, <3>3, FoldAdds
      <3> QED BY <3>4 DEF RangeFold
    <2>6. \A k \in Keys : k \in Strings(ScanAllLen) /\ k \in Seq(Byte)
      BY KeyType, StringsAre, QueryAssumption
    <2>7. PrefixFold(m, lv, <<>>) = Saturated(LiveSum(live, Keys))
      <3>1. PICK e : e = Filled(ScanAllLen)
        OBVIOUS
      <3>2. /\ <<>> \in Seq(Byte) /\ <<>> \in Strings(ScanAllLen)
            /\ e \in Seq(Byte) /\ e \in Strings(ScanAllLen)
        <4>1. e \in [1 .. ScanAllLen -> Byte]
          BY <3>1, TableAssumption DEF Filled, Byte
        <4>2. e \in Seq(Byte) /\ Len(e) = ScanAllLen
          BY <4>1, SeqDef, QueryAssumption
        <4>3. <<>> \in Seq(Byte) /\ Len(<<>>) = 0
          OBVIOUS
        <4>4. ScanAllLen \in Nat /\ 0 <= ScanAllLen /\ ScanAllLen <= ScanAllLen
          BY QueryAssumption
        <4>5. \A x : x \in Strings(ScanAllLen) <=> x \in Seq(Byte) /\ Len(x) <= ScanAllLen
          BY <4>4, StringsAre
        <4>6. e \in Strings(ScanAllLen)
          BY <4>2, <4>4, <4>5
        <4>7. <<>> \in Strings(ScanAllLen)
          BY <4>3, <4>4, <4>5
        <4> QED BY <4>2, <4>3, <4>6, <4>7
      <3>3. Keys = {k \in Keys : InBounds(k, <<>>, e)}
        BY <3>1, EverythingWithin, QueryAssumption
      <3>4. RangeFold(m, lv, <<>>, e) = Saturated(LiveSum(live, Keys))
        BY <2>5, <3>2, <3>3
      <3> QED BY <3>1, <3>4 DEF PrefixFold, ScanPrefix, PrefixEnd, RangeFold
    <2>8. ASSUME NEW from \in Keys, NEW to \in Keys,
                 NEW W, W = {k \in Keys : InBounds(k, from, to)}, \A k \in W : Alone(k)
          PROVE  SnapshotFold(m, lv, from, to) = Saturated(LiveSum(live, W))
      <3>1. \A k \in W : SnapshotIter(m, lv)[k] = live[k]
        BY <1>1, <2>2, <2>8 DEF IterShowsContents
      <3>2. [k \in Keys |-> IF InBounds(k, from, to) THEN SnapshotIter(m, lv)[k] ELSE Absent]
              = [k \in Keys |-> IF k \in W THEN live[k] ELSE Absent]
        BY <2>8, <3>1
      <3>3. W \in SUBSET Keys
        BY <2>8
      <3>4. FoldEntries([k \in Keys |-> IF InBounds(k, from, to) THEN SnapshotIter(m, lv)[k] ELSE Absent])
              = Saturated(LiveSum(live, W))
        BY <2>4, <3>2, <3>3, FoldAdds
      <3> QED BY <3>4 DEF SnapshotFold
    <2> QED BY <2>2, <2>5, <2>6, <2>7, <2>8
  <1>2. Spec => []TypeInv
    BY TypeInit, TypeNext, PTL DEF Spec
  <1> QED BY <1>1, <1>2, RunsHaveTheirNumbers, IteratorsShowContents, PTL
=============================================================================
