-------------------------- MODULE DiskFilesProofs --------------------------
(* The theorems about DiskFiles, for every set of names, every number of   *)
(* runs, sessions and mishaps, and every kind of fault.                    *)
(*                                                                         *)
(* The inductive invariant FullInv says what is on disk at every instant   *)
(* (DiskInv, TreeHeld, SavedInv), which numbers are still to come          *)
(* (NumbersAhead, Births), and how far the operation in progress has come  *)
(* (TaskInv): which calls are left, in an order that Never, Later and      *)
(* EndsWith describe, and what the calls made have left on disk.  A call   *)
(* is proved once as what it does to the disk (Keeps: the paths it may     *)
(* change; Fades: the contents it may change), then for each operation     *)
(* that makes it; the lists of calls are proved to be in their order where *)
(* the operation starts.                                                   *)
EXTENDS DiskFiles, FunctionTheorems, SequenceTheorems, WellFoundedInduction, FiniteSetTheorems, TLAPS

---------------------------------------------------------------------------
(* Sequences of calls.                                                     *)

\* A set that has 0 and the successor of each number it has, has every number.
LEMMA AllNumbers ==
  ASSUME NEW S, 0 \in S, \A n \in Nat : n \in S => n + 1 \in S
  PROVE  Nat \subseteq S
PROOF
  <1> DEFINE T == Nat \ S
  <1>1. SUFFICES ASSUME T # {} PROVE FALSE
    OBVIOUS
  <1>2. PICK y \in T : \A z \in T : <<z, y>> \notin OpToRel(<, Nat)
    BY <1>1, NatLessThanWellFounded, WFMin
  <1>3. y \in Nat /\ y \notin S /\ y # 0
    BY <1>2
  <1>4. y - 1 \in Nat /\ y - 1 < y /\ (y - 1) + 1 = y
    BY <1>3
  <1>5. ASSUME y - 1 \notin S PROVE FALSE
    <2>1. <<y - 1, y>> \in OpToRel(<, Nat)
      BY <1>3, <1>4 DEF OpToRel
    <2> QED BY <1>2, <1>4, <1>5, <2>1
  <1> QED BY <1>3, <1>4, <1>5

\* The places of a concatenation.
LEMMA ConcatPlaces ==
  ASSUME NEW S, NEW a \in Seq(S), NEW b \in Seq(S)
  PROVE  /\ a \o b \in Seq(S)
         /\ Len(a) \in Nat /\ Len(b) \in Nat /\ Len(a \o b) = Len(a) + Len(b)
         /\ DOMAIN (a \o b) = 1 .. Len(a) + Len(b)
         /\ DOMAIN a = 1 .. Len(a) /\ DOMAIN b = 1 .. Len(b)
         /\ \A i \in 1 .. Len(a) : (a \o b)[i] = a[i]
         /\ \A i \in 1 .. Len(b) : (a \o b)[Len(a) + i] = b[i]
         /\ \A i \in 1 .. Len(a) + Len(b) :
              \/ i \in 1 .. Len(a) /\ (a \o b)[i] = a[i]
              \/ i - Len(a) \in 1 .. Len(b) /\ (a \o b)[i] = b[i - Len(a)]
PROOF
  <1>1. /\ Len(a) \in Nat /\ DOMAIN a = 1 .. Len(a)
        /\ Len(b) \in Nat /\ DOMAIN b = 1 .. Len(b)
    OBVIOUS
  <1>2. PICK c \in Seq(S) : c = a \o b
    <2>1. (a \o b) \in Seq(S)
      OBVIOUS
    <2> QED BY <2>1
  <1>3. /\ DOMAIN c = 1 .. Len(a) + Len(b) /\ Len(c) = Len(a) + Len(b)
        /\ \A i \in 1 .. Len(a) : c[i] = a[i]
        /\ \A i \in 1 .. Len(b) : c[Len(a) + i] = b[i]
    BY <1>1, <1>2
  <1>4. ASSUME NEW i \in 1 .. Len(a) + Len(b)
        PROVE  \/ i \in 1 .. Len(a) /\ c[i] = a[i]
               \/ i - Len(a) \in 1 .. Len(b) /\ c[i] = b[i - Len(a)]
    <2>1. CASE i <= Len(a)
      BY <1>1, <1>3, <2>1
    <2>2. CASE ~(i <= Len(a))
      <3>1. i - Len(a) \in 1 .. Len(b) /\ i = Len(a) + (i - Len(a))
        BY <1>1, <2>2
      <3> QED BY <1>3, <3>1
    <2> QED BY <2>1, <2>2
  <1> QED BY <1>1, <1>2, <1>3, <1>4

\* The members of a concatenation.
LEMMA ConcatRange ==
  ASSUME NEW S, NEW a \in Seq(S), NEW b \in Seq(S)
  PROVE  Range(a \o b) = Range(a) \union Range(b)
PROOF
  <1> DEFINE c == a \o b
  <1>1. /\ DOMAIN c = 1 .. Len(a) + Len(b)
        /\ Len(a) \in Nat /\ Len(b) \in Nat
        /\ DOMAIN a = 1 .. Len(a) /\ DOMAIN b = 1 .. Len(b)
        /\ \A i \in 1 .. Len(a) : c[i] = a[i]
        /\ \A i \in 1 .. Len(b) : c[Len(a) + i] = b[i]
        /\ \A i \in 1 .. Len(a) + Len(b) :
             \/ i \in 1 .. Len(a) /\ c[i] = a[i]
             \/ i - Len(a) \in 1 .. Len(b) /\ c[i] = b[i - Len(a)]
    BY ConcatPlaces
  <1> HIDE DEF c
  <1>2. \A x \in Range(a) : x \in Range(c)
    BY <1>1 DEF Range
  <1>3. ASSUME NEW x \in Range(b) PROVE x \in Range(c)
    <2>1. PICK i \in 1 .. Len(b) : x = b[i]
      BY <1>1 DEF Range
    <2>2. Len(a) + i \in DOMAIN c /\ c[Len(a) + i] = x
      BY <1>1, <2>1
    <2> QED BY <2>2 DEF Range
  <1>4. \A x \in Range(c) : x \in Range(a) \/ x \in Range(b)
    BY <1>1 DEF Range
  <1> QED BY <1>2, <1>3, <1>4 DEF c

\* No b after an a; a b after every a; b at the end.
Never(s, a, b) == \A i, j \in DOMAIN s : i < j /\ s[i] = a => s[j] # b
Later(s, a, b) == \A i \in DOMAIN s : s[i] = a => \E j \in DOMAIN s : i < j /\ s[j] = b
EndsWith(s, b) == s # <<>> => s[Len(s)] = b

\* Two sequences that keep x from following y keep it so in a row, when y is not
\* in the first or x not in the second.
LEMMA NeverConcat ==
  ASSUME NEW S, NEW a \in Seq(S), NEW b \in Seq(S), NEW x, NEW y,
         Never(a, x, y), Never(b, x, y), x \notin Range(a) \/ y \notin Range(b)
  PROVE  Never(a \o b, x, y)
PROOF
  <1> DEFINE c == a \o b
  <1>1. /\ DOMAIN c = 1 .. Len(a) + Len(b)
        /\ Len(a) \in Nat /\ Len(b) \in Nat
        /\ DOMAIN a = 1 .. Len(a) /\ DOMAIN b = 1 .. Len(b)
        /\ \A i \in 1 .. Len(a) + Len(b) :
             \/ i \in 1 .. Len(a) /\ c[i] = a[i]
             \/ i - Len(a) \in 1 .. Len(b) /\ c[i] = b[i - Len(a)]
    BY ConcatPlaces
  <1> HIDE DEF c
  <1>2. SUFFICES ASSUME NEW i \in DOMAIN c, NEW j \in DOMAIN c, i < j, c[i] = x, c[j] = y
                 PROVE  FALSE
    BY DEF Never, c
  <1>3. i \in Nat /\ j \in Nat
    BY <1>1
  <1>4. CASE i \in 1 .. Len(a) /\ c[i] = a[i] /\ j \in 1 .. Len(a) /\ c[j] = a[j]
    BY <1>1, <1>2, <1>4 DEF Never
  <1>5. CASE i \in 1 .. Len(a) /\ c[i] = a[i] /\ j - Len(a) \in 1 .. Len(b) /\ c[j] = b[j - Len(a)]
    BY <1>1, <1>2, <1>5 DEF Range
  <1>6. CASE /\ i - Len(a) \in 1 .. Len(b) /\ c[i] = b[i - Len(a)]
             /\ j - Len(a) \in 1 .. Len(b) /\ c[j] = b[j - Len(a)]
    <2>1. i - Len(a) < j - Len(a)
      BY <1>1, <1>2, <1>3
    <2> QED BY <1>1, <1>2, <1>6, <2>1 DEF Never
  <1>7. CASE i - Len(a) \in 1 .. Len(b) /\ j \in 1 .. Len(a)
    BY <1>1, <1>2, <1>3, <1>7
  <1> QED BY <1>1, <1>4, <1>5, <1>6, <1>7

\* What each x waits for in a sequence is still to come in one that goes on.
LEMMA LaterConcat ==
  ASSUME NEW S, NEW a \in Seq(S), NEW b \in Seq(S), NEW x, NEW y,
         Later(a, x, y) \/ y \in Range(b), Later(b, x, y)
  PROVE  Later(a \o b, x, y)
PROOF
  <1> DEFINE c == a \o b
  <1>1. /\ DOMAIN c = 1 .. Len(a) + Len(b)
        /\ Len(a) \in Nat /\ Len(b) \in Nat
        /\ DOMAIN a = 1 .. Len(a) /\ DOMAIN b = 1 .. Len(b)
        /\ \A i \in 1 .. Len(a) : c[i] = a[i]
        /\ \A i \in 1 .. Len(b) : c[Len(a) + i] = b[i]
        /\ \A i \in 1 .. Len(a) + Len(b) :
             \/ i \in 1 .. Len(a) /\ c[i] = a[i]
             \/ i - Len(a) \in 1 .. Len(b) /\ c[i] = b[i - Len(a)]
    BY ConcatPlaces
  <1> HIDE DEF c
  <1>2. SUFFICES ASSUME NEW i \in DOMAIN c, c[i] = x
                 PROVE  \E j \in DOMAIN c : i < j /\ c[j] = y
    BY DEF Later, c
  <1>3. CASE i \in 1 .. Len(a) /\ c[i] = a[i]
    <2>1. CASE y \in Range(b)
      <3>1. PICK k \in 1 .. Len(b) : y = b[k]
        BY <1>1, <2>1 DEF Range
      <3>2. Len(a) + k \in DOMAIN c /\ i < Len(a) + k /\ c[Len(a) + k] = y
        BY <1>1, <1>3, <3>1
      <3> QED BY <3>2
    <2>2. CASE Later(a, x, y)
      <3>1. PICK j \in DOMAIN a : i < j /\ a[j] = y
        BY <1>1, <1>2, <1>3, <2>2 DEF Later
      <3>2. j \in DOMAIN c /\ c[j] = y
        BY <1>1, <3>1
      <3> QED BY <3>1, <3>2
    <2> QED BY <2>1, <2>2
  <1>4. CASE i - Len(a) \in 1 .. Len(b) /\ c[i] = b[i - Len(a)]
    <2>1. PICK j \in DOMAIN b : i - Len(a) < j /\ b[j] = y
      BY <1>1, <1>2, <1>4 DEF Later
    <2>2. Len(a) + j \in DOMAIN c /\ i < Len(a) + j /\ c[Len(a) + j] = y
      BY <1>1, <1>4, <2>1
    <2> QED BY <2>2
  <1> QED BY <1>1, <1>3, <1>4

\* What does not occur is in no order.
LEMMA AbsentOrder ==
  ASSUME NEW S, NEW a \in Seq(S), NEW x, NEW y
  PROVE  /\ x \notin Range(a) => Never(a, x, y) /\ Later(a, x, y)
         /\ y \notin Range(a) => Never(a, x, y)
PROOF BY DEF Range, Never, Later

\* A sequence ends as its last part does.
LEMMA EndsConcat ==
  ASSUME NEW S, NEW a \in Seq(S), NEW b \in Seq(S), NEW y, b # <<>>, EndsWith(b, y)
  PROVE  EndsWith(a \o b, y)
PROOF
  <1>1. Len(b) \in 1 .. Len(b) /\ Len(a) \in Nat /\ Len(b) \in Nat
    OBVIOUS
  <1>2. Len(a \o b) = Len(a) + Len(b) /\ (a \o b)[Len(a) + Len(b)] = b[Len(b)]
    BY <1>1, ConcatPlaces
  <1> QED BY <1>2 DEF EndsWith

\* The calls that are left when the first is made.
LEMMA TailOrder ==
  ASSUME NEW S, NEW s \in Seq(S), s # <<>>
  PROVE  /\ Tail(s) \in Seq(S) /\ Head(s) \in S /\ Head(s) \in Range(s)
         /\ Range(s) = {Head(s)} \union Range(Tail(s))
         /\ \A x, y : Never(s, x, y) =>
              Never(Tail(s), x, y) /\ (Head(s) = x => y \notin Range(Tail(s)))
         /\ \A x, y : Later(s, x, y) =>
              Later(Tail(s), x, y) /\ (Head(s) = x => y \in Range(Tail(s)))
         /\ \A y : EndsWith(s, y) =>
              EndsWith(Tail(s), y) /\ (Tail(s) = <<>> => Head(s) = y)
PROOF
  <1> DEFINE t == Tail(s)
  <1>1. /\ Len(s) \in Nat /\ Len(s) >= 1 /\ t \in Seq(S) /\ Len(t) = Len(s) - 1
        /\ DOMAIN s = 1 .. Len(s) /\ DOMAIN t = 1 .. Len(t) /\ Head(s) = s[1] /\ Head(s) \in S
        /\ \A i \in 1 .. Len(t) : t[i] = s[i + 1]
        /\ t = <<>> => Len(t) = 0
        /\ t # <<>> => Len(t) > 0
    <2>1. t \in Seq(S) /\ Head(s) \in S /\ Len(t) = Len(s) - 1 /\ \A i \in 1 .. Len(t) : t[i] = s[i + 1]
      BY HeadTailProperties
    <2>2. Len(s) \in Nat \ {0} /\ DOMAIN s = 1 .. Len(s)
      BY EmptySeq, LenProperties
    <2>3. Head(s) = s[1]
      OBVIOUS
    <2> HIDE DEF t
    <2>4. t = <<>> => Len(t) = 0
      BY EmptySeq
    <2>5. t # <<>> => Len(t) \in Nat \ {0}
      BY <2>1, EmptySeq
    <2>6. DOMAIN t = 1 .. Len(t)
      BY <2>1, LenProperties
    <2> QED BY <2>1, <2>2, <2>3, <2>4, <2>5, <2>6
  <1>2. \A i \in 1 .. Len(t) : i + 1 \in 1 .. Len(s) /\ i + 1 > 1
    BY <1>1
  <1>3. \A i \in 1 .. Len(s) : i = 1 \/ (i - 1 \in 1 .. Len(t) /\ s[i] = t[i - 1])
    <2> SUFFICES ASSUME NEW i \in 1 .. Len(s), i # 1
                 PROVE  i - 1 \in 1 .. Len(t) /\ s[i] = t[i - 1]
      OBVIOUS
    <2>1. i - 1 \in 1 .. Len(t) /\ (i - 1) + 1 = i
      BY <1>1
    <2> QED BY <1>1, <2>1
  <1> HIDE DEF t
  <1>4. Range(s) = {Head(s)} \union Range(t)
    <2>1. ASSUME NEW i \in DOMAIN s PROVE s[i] = Head(s) \/ s[i] \in Range(t)
      <3>1. i \in 1 .. Len(s)
        BY <1>1
      <3>2. CASE i = 1
        BY <1>1, <3>2
      <3>3. CASE i - 1 \in 1 .. Len(t) /\ s[i] = t[i - 1]
        BY <1>1, <3>3 DEF Range
      <3> QED BY <1>3, <3>1, <3>2, <3>3
    <2>2. \A x \in Range(t) : x \in Range(s)
      BY <1>1, <1>2 DEF Range
    <2>3. Head(s) \in Range(s)
      BY <1>1 DEF Range
    <2> QED BY <2>1, <2>2, <2>3 DEF Range
  <1>5. ASSUME NEW x, NEW y, Never(s, x, y)
        PROVE  Never(t, x, y) /\ (Head(s) = x => y \notin Range(t))
    <2>1. ASSUME NEW i \in DOMAIN t, NEW j \in DOMAIN t, i < j, t[i] = x, t[j] = y PROVE FALSE
      <3>1. i + 1 \in DOMAIN s /\ j + 1 \in DOMAIN s /\ i + 1 < j + 1
        BY <1>1, <1>2, <2>1
      <3>2. s[i + 1] = x /\ s[j + 1] = y
        BY <1>1, <2>1
      <3> QED BY <1>5, <3>1, <3>2 DEF Never
    <2>2. ASSUME Head(s) = x, NEW j \in DOMAIN t, t[j] = y PROVE FALSE
      <3>1. 1 \in DOMAIN s /\ s[1] = x /\ j + 1 \in DOMAIN s /\ 1 < j + 1 /\ s[j + 1] = y
        BY <1>1, <1>2, <2>2
      <3> QED BY <1>5, <3>1 DEF Never
    <2> QED BY <2>1, <2>2 DEF Never, Range
  <1>6. ASSUME NEW x, NEW y, Later(s, x, y)
        PROVE  Later(t, x, y) /\ (Head(s) = x => y \in Range(t))
    <2>1. ASSUME NEW i \in DOMAIN t, t[i] = x PROVE \E j \in DOMAIN t : i < j /\ t[j] = y
      <3>1. i + 1 \in DOMAIN s /\ s[i + 1] = x /\ i \in Nat
        BY <1>1, <1>2, <2>1
      <3>2. PICK j \in DOMAIN s : i + 1 < j /\ s[j] = y
        BY <1>6, <3>1 DEF Later
      <3>3. j # 1 /\ j \in Nat /\ i < j - 1
        BY <1>1, <3>1, <3>2
      <3>4. j - 1 \in DOMAIN t /\ t[j - 1] = y
        BY <1>1, <1>3, <3>2, <3>3
      <3> QED BY <3>3, <3>4
    <2>2. ASSUME Head(s) = x PROVE y \in Range(t)
      <3>1. PICK j \in DOMAIN s : 1 < j /\ s[j] = y
        BY <1>1, <1>6, <2>2 DEF Later
      <3>2. j - 1 \in DOMAIN t /\ t[j - 1] = y
        BY <1>1, <1>3, <3>1
      <3> QED BY <3>2 DEF Range
    <2> QED BY <2>1, <2>2 DEF Later
  <1>7. ASSUME NEW y, EndsWith(s, y)
        PROVE  EndsWith(t, y) /\ (t = <<>> => Head(s) = y)
    BY <1>1, <1>7 DEF EndsWith
  <1> QED BY <1>1, <1>4, <1>5, <1>6, <1>7 DEF t

\* The sequences w[1], w[2], ... that FlattenSeq(q) builds.
Builds(w, q, N, T) ==
  /\ w[1] = q[1]
  /\ \A n \in 1 .. N : w[n] \in T /\ w[n + 1] = w[n] \o q[n + 1]
  /\ w[N + 1] \in T /\ FlattenSeq(q) = w[N + 1]

\* FlattenSeq appends one sequence after the other.
LEMMA FlattenSteps ==
  ASSUME NEW T, \A x, y \in T : x \o y \in T, NEW N \in Nat, NEW q, Len(q) = N + 1,
         \A i \in 1 .. N + 1 : q[i] \in T
  PROVE  \E w : Builds(w, q, N, T)
PROOF
  <1> DEFINE body(f) == [i \in 1 .. N + 1 |-> IF i = 1 THEN q[i] ELSE f[i - 1] \o q[i]]
             Upto(m, f) == /\ f \in [1 .. m + 1 -> T] /\ f[1] = q[1]
                           /\ \A n \in 1 .. m : f[n + 1] = f[n] \o q[n + 1]
             D == {m \in Nat : m <= N => \E f : Upto(m, f)}
  <1>2. FlattenSeq(q) = (CHOOSE f : f = body(f))[N + 1]
    BY DEF FlattenSeq
  <1>3. q[1] \in T /\ \A n \in 1 .. N : q[n + 1] \in T
    <2>1. \A i \in 1 .. N + 1 : q[i] \in T
      OBVIOUS
    <2>2. 1 \in 1 .. N + 1 /\ \A n \in 1 .. N : n + 1 \in 1 .. N + 1
      OBVIOUS
    <2> QED BY <2>1, <2>2
  <1>4. 0 \in D
    <2> DEFINE f == [i \in 1 .. 0 + 1 |-> q[1]]
    <2>1. f \in [1 .. 0 + 1 -> T] /\ f[1] = q[1]
      BY <1>3
    <2> HIDE DEF f
    <2>2. Upto(0, f)
      BY <2>1
    <2> HIDE DEF Upto
    <2> QED BY <2>2
  <1>5. ASSUME NEW m \in Nat, m \in D PROVE m + 1 \in D
    <2>1. SUFFICES ASSUME m + 1 <= N PROVE \E f : Upto(m + 1, f)
      <3> HIDE DEF Upto
      <3> QED OBVIOUS
    <2>2. PICK f : Upto(m, f)
      <3> HIDE DEF Upto
      <3> QED BY <1>5, <2>1
    <2> DEFINE x == f[m + 1] \o q[(m + 1) + 1]
               g == [i \in 1 .. (m + 1) + 1 |-> IF i = (m + 1) + 1 THEN x ELSE f[i]]
    <2>3. f[m + 1] \in T /\ q[(m + 1) + 1] \in T
      <3>1. m + 1 \in 1 .. m + 1 /\ m + 1 \in 1 .. N
        BY <2>1
      <3> QED BY <1>3, <2>2, <3>1
    <2>4. x \in T
      BY <2>3
    <2> HIDE DEF x
    <2>5. g \in [1 .. (m + 1) + 1 -> T]
      BY <2>2, <2>4
    <2>6. g[1] = q[1]
      BY <2>2
    <2>7. ASSUME NEW n \in 1 .. m + 1 PROVE g[n + 1] = g[n] \o q[n + 1]
      <3>1. g[n] = f[n] /\ n + 1 \in 1 .. (m + 1) + 1
        OBVIOUS
      <3>2. CASE n = m + 1
        BY <3>1, <3>2 DEF x
      <3>3. CASE n # m + 1
        <4>1. n \in 1 .. m /\ n + 1 # (m + 1) + 1
          BY <3>3
        <4>2. g[n + 1] = f[n + 1]
          BY <3>1, <4>1
        <4> QED BY <2>2, <3>1, <4>1, <4>2
      <3> QED BY <3>2, <3>3
    <2> HIDE DEF g
    <2>8. Upto(m + 1, g)
      BY <2>5, <2>6, <2>7
    <2> HIDE DEF Upto
    <2> QED BY <2>8
  <1>6. \A m \in Nat : m \in D
    <2> HIDE DEF D
    <2> QED BY <1>4, <1>5, AllNumbers
  <1>7. PICK e : Upto(N, e)
    <2> HIDE DEF Upto
    <2> QED BY <1>6
  <1>8. e = body(e)
    <2>1. ASSUME NEW i \in 1 .. N + 1 PROVE e[i] = IF i = 1 THEN q[i] ELSE e[i - 1] \o q[i]
      <3>1. CASE i = 1
        BY <1>7, <3>1
      <3>2. CASE i # 1
        <4>1. i - 1 \in 1 .. N /\ (i - 1) + 1 = i
          BY <3>2
        <4>2. e[(i - 1) + 1] = e[i - 1] \o q[(i - 1) + 1]
          BY <1>7, <4>1
        <4> QED BY <3>2, <4>1, <4>2
      <3> QED BY <3>1, <3>2
    <2>2. e = [i \in 1 .. N + 1 |-> e[i]]
      BY <1>7
    <2> QED BY <2>1, <2>2
  <1>9. PICK w : w = CHOOSE x : x = body(x)
    OBVIOUS
  <1>10. w = body(w)
    <2> HIDE DEF body
    <2> QED BY <1>8, <1>9
  <1>11. w[1] = q[1]
    BY <1>10
  <1>12. ASSUME NEW n \in 1 .. N PROVE w[n + 1] = w[n] \o q[n + 1]
    <2>1. n + 1 \in 1 .. N + 1 /\ n + 1 # 1 /\ (n + 1) - 1 = n
      OBVIOUS
    <2> QED BY <1>10, <2>1
  <1> HIDE DEF body
  <1> DEFINE W == {n \in Nat : n <= N => w[n + 1] \in T}
  <1>13. 0 \in W
    BY <1>3, <1>11
  <1>14. ASSUME NEW n \in Nat, n \in W PROVE n + 1 \in W
    <2>1. SUFFICES ASSUME n + 1 <= N PROVE w[(n + 1) + 1] \in T
      OBVIOUS
    <2>2. n + 1 \in 1 .. N /\ w[n + 1] \in T
      BY <1>14, <2>1
    <2>3. w[n + 1] \o q[(n + 1) + 1] \in T
      BY <1>3, <2>2
    <2> QED BY <1>12, <2>2, <2>3
  <1>15. Nat \subseteq W
    <2> HIDE DEF W
    <2> QED BY <1>13, <1>14, AllNumbers
  <1>16. \A n \in 1 .. N + 1 : w[n] \in T
    <2> SUFFICES ASSUME NEW n \in 1 .. N + 1 PROVE w[n] \in T
      OBVIOUS
    <2>1. n - 1 \in Nat /\ n - 1 <= N /\ (n - 1) + 1 = n
      OBVIOUS
    <2> QED BY <1>15, <2>1
  <1>17. FlattenSeq(q) = w[N + 1]
    BY <1>2, <1>9
  <1>18. \A n \in 1 .. N : w[n] \in T /\ w[n + 1] = w[n] \o q[n + 1]
    <2>1. \A n \in 1 .. N : n \in 1 .. N + 1
      OBVIOUS
    <2> QED BY <1>12, <1>16, <2>1
  <1>19. w[N + 1] \in T
    <2> QED BY <1>16
  <1> QED BY Zenon, <1>11, <1>17, <1>18, <1>19 DEF Builds

\* What is in it.
LEMMA FlattenRange ==
  ASSUME NEW S, NEW q \in Seq(Seq(S))
  PROVE  /\ FlattenSeq(q) \in Seq(S)
         /\ Range(FlattenSeq(q)) = UNION {Range(q[i]) : i \in DOMAIN q}
PROOF
  <1>1. Len(q) \in Nat /\ DOMAIN q = 1 .. Len(q) /\ \A i \in 1 .. Len(q) : q[i] \in Seq(S)
    <2> DEFINE T == Seq(S)
    <2>1. q \in Seq(T)
      OBVIOUS
    <2> HIDE DEF T
    <2>2. Len(q) \in Nat /\ DOMAIN q = 1 .. Len(q) /\ \A i \in 1 .. Len(q) : q[i] \in T
      BY <2>1, LenProperties, ElementOfSeq
    <2> QED BY <2>2 DEF T
  <1>2. CASE Len(q) = 0
    <2>1. FlattenSeq(q) = q /\ DOMAIN q = {}
      BY <1>1, <1>2 DEF FlattenSeq
    <2>2. q = <<>>
      BY <1>2, EmptySeq
    <2>3. q \in Seq(S) /\ Range(q) = {}
      BY <2>1, <2>2, EmptySeq DEF Range
    <2> QED BY <2>1, <2>3
  <1>3. CASE Len(q) # 0
    <2>1. PICK N \in Nat : Len(q) = N + 1
      <3>1. Len(q) - 1 \in Nat /\ Len(q) = (Len(q) - 1) + 1
        BY <1>1, <1>3
      <3> QED BY <3>1
    <2>2. \A i \in 1 .. N + 1 : q[i] \in Seq(S)
      BY <1>1, <2>1
    <2>20. PICK w : Builds(w, q, N, Seq(S))
      <3> DEFINE T == Seq(S)
      <3>1. \A x, y \in T : x \o y \in T
        BY ConcatPlaces
      <3>2. \A i \in 1 .. N + 1 : q[i] \in T
        BY <2>2
      <3> HIDE DEF T
      <3>3. \E w : Builds(w, q, N, T)
        BY <2>1, <3>1, <3>2, FlattenSteps
      <3> QED BY Zenon, <3>3 DEF T
    <2>3. /\ w[1] = q[1]
          /\ \A n \in 1 .. N : w[n] \in Seq(S) /\ w[n + 1] = w[n] \o q[n + 1]
          /\ w[N + 1] \in Seq(S) /\ FlattenSeq(q) = w[N + 1]
      BY <2>20 DEF Builds
    <2> DEFINE upto(n) == UNION {Range(q[i]) : i \in 1 .. n}
               D == {n \in Nat : n <= N => Range(w[n + 1]) = upto(n + 1)}
    <2>4. 0 \in D
      <3>1. upto(1) = Range(q[1])
        <4>1. 1 .. 1 = {1}
          OBVIOUS
        <4> QED BY <4>1
      <3> HIDE DEF upto
      <3> QED BY <2>3, <3>1
    <2>5. ASSUME NEW n \in Nat, n \in D PROVE n + 1 \in D
      <3>1. SUFFICES ASSUME n + 1 <= N PROVE Range(w[(n + 1) + 1]) = upto((n + 1) + 1)
        OBVIOUS
      <3>2. PICK m \in 1 .. N : m = n + 1
        BY <3>1
      <3>3. Range(w[m]) = upto(m)
        BY <2>5, <3>1, <3>2
      <3>4. upto(m + 1) = upto(m) \union Range(q[m + 1])
        <4>1. 1 .. m + 1 = (1 .. m) \union {m + 1}
          OBVIOUS
        <4>2. \A z : (\E i \in 1 .. m + 1 : z \in Range(q[i]))
                       <=> (\E i \in 1 .. m : z \in Range(q[i])) \/ z \in Range(q[m + 1])
          BY <4>1
        <4> QED BY <4>2
      <3> HIDE DEF upto
      <3>5. w[m + 1] = w[m] \o q[m + 1] /\ w[m] \in Seq(S) /\ q[m + 1] \in Seq(S)
        <4>1. m + 1 \in 1 .. N + 1
          OBVIOUS
        <4> QED BY Zenon, <2>2, <2>3, <4>1
      <3>6. Range(w[m + 1]) = Range(w[m]) \union Range(q[m + 1])
        BY <3>5, ConcatRange
      <3> QED BY <3>2, <3>3, <3>4, <3>6
    <2>6. Nat \subseteq D
      <3> HIDE DEF D
      <3> QED BY <2>4, <2>5, AllNumbers
    <2>7. Range(w[N + 1]) = upto(N + 1)
      <3> HIDE DEF upto
      <3> QED BY <2>6
    <2> QED BY <1>1, <2>1, <2>3, <2>7
  <1> QED BY <1>2, <1>3

\* A finite set in some order.
LEMMA SetToSeqIs ==
  ASSUME NEW S, IsFiniteSet(S)
  PROVE  SetToSeq(S) \in Seq(S) /\ Range(SetToSeq(S)) = S
PROOF
  <1> DEFINE n == Cardinality(S)
  <1>1. n \in Nat /\ ExistsBijection(1 .. n, S)
    BY FS_CardinalityType
  <1>2. PICK f \in Bijection(1 .. n, S) : TRUE
    BY <1>1, Fun_ExistsBij
  <1>3. f \in [1 .. n -> S] /\ IsInjective(f)
    BY <1>2 DEF Bijection, Injection, IsInjective
  <1>4. SetToSeq(S) \in [1 .. n -> S] /\ IsInjective(SetToSeq(S))
    BY <1>3 DEF SetToSeq
  <1>5. SetToSeq(S) \in Injection(1 .. n, S)
    BY <1>4, Fun_IsInj DEF IsInjective
  <1>6. IsFiniteSet(1 .. n) /\ Cardinality(1 .. n) = n
    BY <1>1, FS_Interval
  <1>7. SetToSeq(S) \in Surjection(1 .. n, S)
    BY <1>5, <1>6, FS_Injection
  <1>8. Range(SetToSeq(S)) = S
    BY <1>7, Fun_SurjectionProperties
  <1>9. SetToSeq(S) \in Seq(S)
    BY <1>1, <1>4, SeqDef
  <1> QED BY <1>8, <1>9

---------------------------------------------------------------------------
(* Paths.                                                                  *)

Comps == Range(Components)
Plain == Comps \ {"checksums"}
Dirs == {"active"} \union Names
Cs(d, r) == RunFile(d, r, "checksums")
CsPaths == {Cs(d, r) : d \in Dirs, r \in Runs}
FileKinds == {"keyops", "blobs", "filter", "index", "checksums"}

\* What atomic writes leave, and links of it.
WholePaths == CsPaths \union {Metadata(n) : n \in Names}

\* The files of a run, in the order of Components, are these.
LEMMA CompsIs ==
  /\ Components \in Seq(FileKinds)
  /\ Comps = {"keyops", "blobs", "checksums"} \union Range(Aux)
  /\ Range(Aux) \subseteq {"filter", "index"}
  /\ Plain = {"keyops", "blobs"} \union Range(Aux)
PROOF
  <1>1. Aux \in Seq(FileKinds) /\ Range(Aux) \subseteq {"filter", "index"}
    <2>1. Aux \in Seq({"filter", "index"})
      BY DiskAssumption
    <2>2. \A i \in DOMAIN Aux : Aux[i] \in {"filter", "index"}
      <3>1. Len(Aux) \in Nat /\ DOMAIN Aux = 1 .. Len(Aux)
        BY <2>1, LenProperties
      <3> QED BY <2>1, <3>1, ElementOfSeq
    <2>3. Range(Aux) \subseteq {"filter", "index"}
      BY <2>2 DEF Range
    <2>4. Aux \in Seq(FileKinds)
      <3>1. Len(Aux) \in Nat /\ Aux \in [1 .. Len(Aux) -> {"filter", "index"}]
        BY <2>1, LenProperties
      <3>2. Aux \in [1 .. Len(Aux) -> FileKinds]
        BY <3>1 DEF FileKinds
      <3> QED BY <3>1, <3>2, SeqDef
    <2> QED BY <2>3, <2>4
  <1> DEFINE first == <<"keyops", "blobs">>
             last == <<"checksums">>
  <1>2. first \in Seq(FileKinds) /\ Range(first) = {"keyops", "blobs"}
    <2>1. first \in Seq(FileKinds) /\ DOMAIN first = 1 .. 2 /\ first[1] = "keyops" /\ first[2] = "blobs"
      BY DEF FileKinds
    <2>2. \A i \in 1 .. 2 : i = 1 \/ i = 2
      OBVIOUS
    <2> HIDE DEF first
    <2> QED BY <2>1, <2>2 DEF Range
  <1>3. last \in Seq(FileKinds) /\ Range(last) = {"checksums"}
    <2>1. last \in Seq(FileKinds) /\ DOMAIN last = 1 .. 1 /\ last[1] = "checksums"
      BY DEF FileKinds
    <2>2. \A i \in 1 .. 1 : i = 1
      OBVIOUS
    <2> HIDE DEF last
    <2> QED BY <2>1, <2>2 DEF Range
  <1> HIDE DEF first, last
  <1>4. first \o Aux \in Seq(FileKinds) /\ Range(first \o Aux) = Range(first) \union Range(Aux)
    BY <1>1, <1>2, ConcatPlaces, ConcatRange
  <1>5. /\ (first \o Aux) \o last \in Seq(FileKinds)
        /\ Range((first \o Aux) \o last) = Range(first \o Aux) \union Range(last)
    <2>1. PICK x : x = first \o Aux
      OBVIOUS
    <2>2. x \in Seq(FileKinds)
      BY <1>4, <2>1
    <2>3. x \o last \in Seq(FileKinds) /\ Range(x \o last) = Range(x) \union Range(last)
      BY <1>3, <2>2, ConcatPlaces, ConcatRange
    <2> QED BY <2>1, <2>3
  <1>6. Components = (first \o Aux) \o last
    BY DEF Components, first, last
  <1>7. Comps = {"keyops", "blobs", "checksums"} \union Range(Aux)
    BY <1>2, <1>3, <1>4, <1>5, <1>6 DEF Comps
  <1>8. Plain = {"keyops", "blobs"} \union Range(Aux)
    BY <1>1, <1>7 DEF Plain
  <1> QED BY <1>1, <1>5, <1>6, <1>7, <1>8

\* The files of runs.
LEMMA RunFilePath ==
  ASSUME NEW d \in Dirs, NEW r \in Runs, NEW c \in Comps
  PROVE  LET p == RunFile(d, r, c)
         IN  p \in Paths /\ p[1] = d /\ p[2] = r /\ p[3] = c /\ p[2] # 0
PROOF
  <1> DEFINE p == <<d, r, c>>
  <1>1. p[1] = d /\ p[2] = r /\ p[3] = c /\ r # 0
    BY DEF Runs
  <1>2. p \in RunFiles(d, r) /\ p = RunFile(d, r, c)
    BY DEF RunFiles, RunFile, Comps
  <1>3. p \in Paths
    BY <1>2 DEF Dirs, Paths
  <1> QED BY <1>1, <1>2, <1>3

\* The checksums files are paths, one for each directory and number.
LEMMA CsPath ==
  /\ "checksums" \in Comps /\ "keyops" \in Plain /\ "blobs" \in Plain /\ Plain \subseteq Comps
  /\ CsPaths \subseteq Paths
  /\ \A p \in CsPaths : p[1] \in Dirs /\ p[2] \in Runs /\ p[3] = "checksums" /\ p = Cs(p[1], p[2])
  /\ \A d \in Dirs, r \in Runs : Cs(d, r) \in CsPaths /\ Cs(d, r)[1] = d /\ Cs(d, r)[2] = r
PROOF
  <1>1. "checksums" \in Comps /\ "keyops" \in Plain /\ "blobs" \in Plain /\ Plain \subseteq Comps
    BY CompsIs DEF Plain
  <1>2. ASSUME NEW d \in Dirs, NEW r \in Runs
        PROVE  LET p == Cs(d, r)
               IN  p \in Paths /\ p[1] = d /\ p[2] = r /\ p[3] = "checksums"
    BY <1>1, RunFilePath DEF Cs
  <1> QED BY <1>1, <1>2 DEF CsPaths

\* The other files of active/, and the files of a snapshot.
LEMMA TmpPath ==
  ASSUME NEW r \in Runs
  PROVE  LET p == ChecksumsTmp(r)
         IN  p \in Paths /\ p[1] = "active" /\ p[2] = r /\ p[3] = "checksum.tmp"
PROOF BY DEF ChecksumsTmp, Paths

\* The paths of a snapshot's own files, and what tells them apart.
LEMMA NamePaths ==
  ASSUME NEW n \in Names
  PROVE  /\ LET p == SnapshotDir(n) IN p \in Paths /\ p[1] = "snapshots" /\ p[2] = 0 /\ p[3] = n
         /\ LET p == Metadata(n) IN p \in Paths /\ p[1] = n /\ p[2] = 0 /\ p[3] = "metadata"
         /\ LET p == MetadataTmp(n)
            IN  p \in Paths /\ p[1] = n /\ p[2] = 0 /\ p[3] = "metadata.tmp"
         /\ LET p == MetadataChecksum(n)
            IN  p \in Paths /\ p[1] = n /\ p[2] = 0 /\ p[3] = "metadata.checksum"
PROOF BY DEF SnapshotDir, Metadata, MetadataTmp, MetadataChecksum, Paths

\* What a path can be.
LEMMA PathKinds ==
  ASSUME NEW p \in Paths
  PROVE  \/ \E d \in Dirs, r \in Runs, c \in Comps : p = RunFile(d, r, c)
         \/ \E r \in Runs : p = ChecksumsTmp(r)
         \/ \E n \in Names : p \in {SnapshotDir(n), Metadata(n), MetadataTmp(n), MetadataChecksum(n)}
PROOF BY DEF Paths, RunFiles, Dirs, Comps

\* No snapshot has the name of another directory.
LEMMA NameFacts ==
  "active" \notin Names /\ "snapshots" \notin Names /\ None \notin Names
  /\ "snapshots" \notin Dirs /\ Names \subseteq Dirs /\ "active" \in Dirs
PROOF BY DiskAssumption DEF Dirs

\* Which paths are written atomically, and which are not.
LEMMA WholeFacts ==
  /\ WholePaths \subseteq Paths /\ CsPaths \subseteq WholePaths
  /\ \A n \in Names : Metadata(n) \in WholePaths /\ Metadata(n) \notin CsPaths
  /\ \A n \in Names :
       {SnapshotDir(n), MetadataTmp(n), MetadataChecksum(n)} \intersect WholePaths = {}
  /\ \A r \in Runs : ChecksumsTmp(r) \notin WholePaths
  /\ \A d \in Dirs, r \in Runs, c \in Comps :
       RunFile(d, r, c) \in WholePaths => c = "checksums" /\ RunFile(d, r, c) \in CsPaths
PROOF
  <1>1. ASSUME NEW p \in WholePaths
        PROVE  /\ p \in Paths /\ p[1] \in Dirs /\ p[1] # "snapshots"
               /\ p[3] \in {"checksums", "metadata"}
               /\ p[2] \in Runs \/ p[2] = 0
               /\ p[2] \in Runs => p \in CsPaths /\ p[3] = "checksums"
               /\ p \notin CsPaths => p[2] = 0 /\ p[3] = "metadata"
    <2>1. CASE p \in CsPaths
      BY <2>1, CsPath, NameFacts
    <2>2. CASE p \notin CsPaths
      <3>1. PICK n \in Names : p = Metadata(n)
        BY <2>2 DEF WholePaths
      <3>2. 0 \notin Runs
        BY DEF Runs
      <3> QED BY <2>2, <3>1, <3>2, NamePaths, NameFacts
    <2> QED BY <2>1, <2>2
  <1>2. CsPaths \subseteq WholePaths /\ \A n \in Names : Metadata(n) \in WholePaths
    BY DEF WholePaths
  <1>3. \A n \in Names : Metadata(n) \notin CsPaths
    BY CsPath, NamePaths
  <1>4. \A n \in Names : {SnapshotDir(n), MetadataTmp(n), MetadataChecksum(n)} \intersect WholePaths = {}
    BY <1>1, NamePaths
  <1>5. \A r \in Runs : ChecksumsTmp(r) \notin WholePaths
    BY <1>1, TmpPath
  <1>6. \A d \in Dirs, r \in Runs, c \in Comps :
       RunFile(d, r, c) \in WholePaths => c = "checksums" /\ RunFile(d, r, c) \in CsPaths
    BY <1>1, RunFilePath
  <1> QED BY <1>1, <1>2, <1>3, <1>4, <1>5, <1>6

\* A pair is finite.
LEMMA PairFinite ==
  ASSUME NEW a, NEW b
  PROVE  IsFiniteSet({a, b})
PROOF
  <1>1. IsFiniteSet({a} \union {b})
    BY FS_Singleton, FS_Union
  <1>2. {a, b} = {a} \union {b}
    OBVIOUS
  <1> QED BY <1>1, <1>2

\* There are finitely many paths.
LEMMA FinitePaths == IsFiniteSet(Paths)
PROOF
  <1> DEFINE D == {"active", "snapshots"} \union Names
             N == 0 .. MaxRun
             M == {"checksum.tmp", "metadata", "metadata.tmp", "metadata.checksum"}
             C == (Comps \union M) \union Names
  <1>1. IsFiniteSet(Names) /\ MaxRun \in Nat
    BY DiskAssumption
  <1>2. IsFiniteSet(D)
    <2>1. IsFiniteSet({"active", "snapshots"})
      BY PairFinite
    <2> QED BY <1>1, <2>1, FS_Union
  <1>3. IsFiniteSet(N)
    BY <1>1, FS_Interval
  <1>4. IsFiniteSet(C)
    <2>1. IsFiniteSet(FileKinds)
      <3>1. IsFiniteSet({"keyops", "blobs"}) /\ IsFiniteSet({"filter", "index"}) /\ IsFiniteSet({"checksums"})
        BY FS_Singleton, PairFinite
      <3>2. IsFiniteSet({"keyops", "blobs"} \union {"filter", "index"})
        BY <3>1, FS_Union
      <3>3. IsFiniteSet(({"keyops", "blobs"} \union {"filter", "index"}) \union {"checksums"})
        BY <3>1, <3>2, FS_Union
      <3>4. FileKinds = ({"keyops", "blobs"} \union {"filter", "index"}) \union {"checksums"}
        BY DEF FileKinds
      <3> QED BY <3>3, <3>4
    <2>2. IsFiniteSet(Comps)
      <3>1. Comps \subseteq FileKinds
        BY CompsIs DEF FileKinds
      <3> QED BY <2>1, <3>1, FS_Subset
    <2>3. IsFiniteSet(M)
      <3>1. IsFiniteSet({"checksum.tmp", "metadata"} \union {"metadata.tmp", "metadata.checksum"})
        BY PairFinite, FS_Union
      <3>2. M = {"checksum.tmp", "metadata"} \union {"metadata.tmp", "metadata.checksum"}
        OBVIOUS
      <3> QED BY <3>1, <3>2
    <2>4. IsFiniteSet(Comps \union M)
      BY <2>2, <2>3, FS_Union
    <2> QED BY <1>1, <2>4, FS_Union
  <1>5. IsFiniteSet(D \X N)
    BY <1>2, <1>3, FS_Product
  <1>6. IsFiniteSet((D \X N) \X C)
    BY <1>4, <1>5, FS_Product
  <1> DEFINE g == [x \in (D \X N) \X C |-> <<x[1][1], x[1][2], x[2]>>]
             G == {g[x] : x \in DOMAIN g}
  <1>7. IsFiniteSet(G)
    <2>1. g \in Surjection((D \X N) \X C, G)
      <3>1. g \in [(D \X N) \X C -> G]
        OBVIOUS
      <3>2. \A y \in G : \E x \in (D \X N) \X C : g[x] = y
        OBVIOUS
      <3> HIDE DEF g, G
      <3> QED BY <3>1, <3>2, Fun_IsSurj
    <2> HIDE DEF g, G, D, N, C
    <2> QED BY <1>6, <2>1, FS_Surjection
  <1>8. ASSUME NEW a \in D, NEW b \in N, NEW c \in C
        PROVE  <<a, b, c>> \in G
    <2>1. <<<<a, b>>, c>> \in (D \X N) \X C
      OBVIOUS
    <2>2. g[<<<<a, b>>, c>>] = <<a, b, c>>
      BY <2>1
    <2> QED BY <2>1, <2>2
  <1>9. ASSUME NEW p \in Paths PROVE p \in G
    <2>1. 0 \in N /\ Runs \subseteq N
      BY <1>1 DEF Runs
    <2>2. Dirs \subseteq D /\ Comps \subseteq C
      BY DEF Dirs
    <2> HIDE DEF G
    <2>3. CASE \E d \in Dirs, r \in Runs, c \in Comps : p = RunFile(d, r, c)
      <3> HIDE DEF D, N, C
      <3> QED BY <1>8, <2>1, <2>2, <2>3 DEF RunFile
    <2>4. CASE \E r \in Runs : p = ChecksumsTmp(r)
      <3>1. "active" \in D /\ "checksum.tmp" \in C
        OBVIOUS
      <3> HIDE DEF D, N, C
      <3> QED BY <1>8, <2>1, <2>4, <3>1 DEF ChecksumsTmp
    <2>5. CASE \E n \in Names : p \in {SnapshotDir(n), Metadata(n), MetadataTmp(n), MetadataChecksum(n)}
      <3>1. "snapshots" \in D /\ Names \subseteq D /\ Names \subseteq C /\ M \subseteq C
        OBVIOUS
      <3>2. "metadata" \in M /\ "metadata.tmp" \in M /\ "metadata.checksum" \in M
        OBVIOUS
      <3> HIDE DEF D, N, C, M
      <3> QED BY <1>8, <2>1, <2>5, <3>1, <3>2 DEF SnapshotDir, Metadata, MetadataTmp, MetadataChecksum
    <2> QED BY <2>3, <2>4, <2>5, PathKinds
  <1> HIDE DEF G
  <1> QED BY <1>7, <1>9, FS_Subset

---------------------------------------------------------------------------
(* The disk.                                                               *)

\* No other path names the inode of p.
Private(p) == \A q \in Paths \ {p} : entries[q] # entries[p] /\ disk_entries[q] # entries[p]

ClassOf(p) ==
  {Torn} \union IF p[2] \in Runs THEN {t \in Tags : t.num = p[2]} ELSE [runs : SUBSET Runs]

DiskTypes ==
  /\ entries \in [Paths -> Inodes \union {None}]
  /\ disk_entries \in [Paths -> Inodes \union {None}]
  /\ data \in [Inodes -> Holdings]
  /\ disk_data \in [Inodes -> Holdings]

NamedBy(p) == {entries[p], disk_entries[p]} \ {None}

Classes == \A p \in Paths : \A i \in NamedBy(p) : data[i] \in ClassOf(p)

\* The temporary file of a run's checksums is linked from nowhere.
TmpApart ==
  \A r \in Runs :
    /\ entries[ChecksumsTmp(r)] # None => Private(ChecksumsTmp(r))
    /\ disk_entries[ChecksumsTmp(r)] # None =>
         \A q \in Paths \ {ChecksumsTmp(r)} :
           /\ disk_entries[q] # disk_entries[ChecksumsTmp(r)]
           /\ entries[q] = disk_entries[ChecksumsTmp(r)] => q = Cs("active", r)

\* What atomic writes leave is whole and synced.
Whole == \A p \in WholePaths : \A i \in NamedBy(p) : data[i] = disk_data[i] /\ data[i] # Torn

\* All files of a run that has its checksums are synced.
Committed ==
  \A p \in CsPaths : \A i \in Inodes :
    entries[p] # None /\ data[i] = data[entries[p]] => disk_data[i] = data[i]

DiskInv == DiskTypes /\ Classes /\ TmpApart /\ Whole /\ Committed

\* What a step leaves as it was: all paths but those of X, all contents but those
\* of the files W, and what is lost.
Keeps(X) ==
  /\ \A q \in Paths : disk_entries'[q] \in {disk_entries[q], entries[q]}
  /\ \A q \in Paths \ X :
       /\ entries'[q] = entries[q]
       /\ entries[q] # None =>
            /\ data'[entries[q]] = data[entries[q]]
            /\ disk_data'[entries[q]] \in {disk_data[entries[q]], data[entries[q]]}
Fades(W) ==
  \A i \in Inodes \ {entries[p] : p \in W} :
    \/ data'[i] = data[i] /\ disk_data'[i] \in {disk_data[i], data[i]}
    \/ data'[i] = Torn

---------------------------------------------------------------------------
(* Facts of the disk.                                                      *)

\* Torn and None are none of the values they stand in for.
LEMMA MarkFacts ==
  /\ Torn \in Holdings /\ Torn \notin Tags /\ Torn \notin [runs : SUBSET Runs]
  /\ None \notin Inodes /\ None \notin Tags /\ None \notin Saves
  /\ Tags \subseteq Holdings /\ [runs : SUBSET Runs] \subseteq Holdings
  /\ Tags \intersect [runs : SUBSET Runs] = {}
PROOF
  <1>1. ASSUME NEW x \in Tags, NEW y \in [runs : SUBSET Runs] PROVE x # y
    <2>1. DOMAIN x = {"num", "born"}
      BY DEF Tags
    <2>2. DOMAIN y = {"runs"}
      OBVIOUS
    <2>3. "num" \in DOMAIN x /\ "num" \notin DOMAIN y
      BY <2>1, <2>2
    <2> QED BY <2>3
  <1> QED BY <1>1, MarkAssumption DEF Holdings

\* What a step of the disk leaves.
LEMMA DiskIs ==
  ASSUME NEW e \in [Paths -> Inodes \union {None}], NEW de \in [Paths -> Inodes \union {None}],
         NEW d \in [Inodes -> Holdings], NEW dd \in [Inodes -> Holdings],
         Disk(e, de, d, dd)
  PROVE  /\ entries' = e /\ disk_entries' = de /\ DiskTypes'
         /\ \A p \in Paths :
              /\ e[p] # None =>
                   e[p] \in Inodes /\ data'[e[p]] = d[e[p]] /\ disk_data'[e[p]] = dd[e[p]]
              /\ de[p] # None =>
                   de[p] \in Inodes /\ data'[de[p]] = d[de[p]] /\ disk_data'[de[p]] = dd[de[p]]
         /\ \A i \in Inodes : \/ data'[i] = d[i] /\ disk_data'[i] = dd[i]
                              \/ data'[i] = Torn /\ disk_data'[i] = Torn
PROOF
  <1>1. Torn \in Holdings
    BY MarkFacts
  <1> QED BY <1>1 DEF Disk, DiskTypes

\* There are more inodes than paths name.
LEMMA Fresh ==
  ASSUME DiskTypes
  PROVE  /\ FreshInode \in Inodes /\ FreshInode # None
         /\ \A p \in Paths : entries[p] # FreshInode /\ disk_entries[p] # FreshInode
PROOF
  <1> DEFINE k == Cardinality(Paths)
             A == {entries[p] : p \in Paths}
             B == {disk_entries[p] : p \in Paths}
  <1>1. IsFiniteSet(Paths) /\ k \in Nat
    BY FinitePaths, FS_CardinalityType
  <1>2. IsFiniteSet(A) /\ Cardinality(A) <= k
    <2>1. entries \in Surjection(Paths, A)
      <3>1. entries \in [Paths -> A] /\ \A y \in A : \E x \in Paths : entries[x] = y
        BY DEF DiskTypes
      <3> HIDE DEF A
      <3> QED BY <3>1, Fun_IsSurj
    <2> HIDE DEF A
    <2> QED BY <1>1, <2>1, FS_Surjection
  <1>3. IsFiniteSet(B) /\ Cardinality(B) <= k
    <2>1. disk_entries \in Surjection(Paths, B)
      <3>1. disk_entries \in [Paths -> B] /\ \A y \in B : \E x \in Paths : disk_entries[x] = y
        BY DEF DiskTypes
      <3> HIDE DEF B
      <3> QED BY <3>1, Fun_IsSurj
    <2> HIDE DEF B
    <2> QED BY <1>1, <2>1, FS_Surjection
  <1> HIDE DEF A, B, k
  <1>4. Inodes = 1 .. 2 * k + 1 /\ IsFiniteSet(Inodes) /\ Cardinality(Inodes) = 2 * k + 1
    <2>1. 2 * k + 1 \in Nat /\ 2 * k + 1 >= 1
      BY <1>1
    <2>2. Inodes = 1 .. 2 * k + 1
      BY DEF Inodes, k
    <2>3. IsFiniteSet(1 .. 2 * k + 1)
          /\ Cardinality(1 .. 2 * k + 1) = IF 1 > 2 * k + 1 THEN 0 ELSE (2 * k + 1) - 1 + 1
      BY <2>1, FS_Interval
    <2> QED BY <2>1, <2>2, <2>3
  <1>5. /\ IsFiniteSet(A \union B)
        /\ Cardinality(A \union B) = Cardinality(A) + Cardinality(B) - Cardinality(A \intersect B)
    BY <1>2, <1>3, FS_Union
  <1>6. Cardinality(A) \in Nat /\ Cardinality(B) \in Nat /\ Cardinality(A \intersect B) \in Nat
    <2>1. IsFiniteSet(A \intersect B)
      BY <1>2, FS_Subset
    <2> QED BY <1>2, <1>3, <2>1, FS_CardinalityType
  <1>7. Cardinality(A \union B) <= 2 * k /\ Cardinality(A \union B) \in Nat
    <2>1. Cardinality(A \union B) \in Nat
      BY <1>5, FS_CardinalityType
    <2> DEFINE a == Cardinality(A)
               b == Cardinality(B)
               c == Cardinality(A \intersect B)
    <2>2. a \in Nat /\ b \in Nat /\ c \in Nat /\ a <= k /\ b <= k
      BY <1>2, <1>3, <1>6
    <2>3. Cardinality(A \union B) = a + b - c
      BY <1>5
    <2> HIDE DEF a, b, c
    <2>4. a + b - c <= 2 * k
      BY <1>1, <2>2
    <2> QED BY <2>1, <2>3, <2>4
  <1>8. \E i \in Inodes : i \notin A \union B
    <2>1. ASSUME Inodes \subseteq A \union B PROVE FALSE
      <3>1. Cardinality(Inodes) <= Cardinality(A \union B)
        BY <1>5, <2>1, FS_Subset
      <3> QED BY <1>1, <1>4, <1>7, <3>1
    <2> QED BY <2>1
  <1>9. \E i \in Inodes : \A p \in Paths : entries[p] # i /\ disk_entries[p] # i
    BY <1>8 DEF A, B
  <1> QED BY <1>9, MarkFacts DEF FreshInode

---------------------------------------------------------------------------
(* What each call does to the disk.                                        *)

\* Creating a file changes its own path only, and no other path has its inode.
LEMMA NewFileCall ==
  ASSUME DiskInv, NEW p \in Paths \ WholePaths, NewFile(p)
  PROVE  /\ DiskInv' /\ Keeps({p}) /\ Fades({}) /\ disk_entries' = disk_entries
         /\ entries'[p] # None /\ Private(p)'
PROOF
  <1> DEFINE f == FreshInode
             e == [entries EXCEPT ![p] = f]
             d == [data EXCEPT ![f] = Torn]
             dd == [disk_data EXCEPT ![f] = Torn]
  <1>1. DiskTypes /\ f \in Inodes /\ f # None
        /\ \A q \in Paths : entries[q] # f /\ disk_entries[q] # f
    BY Fresh DEF DiskInv
  <1> HIDE DEF f
  <1>2. /\ e \in [Paths -> Inodes \union {None}] /\ disk_entries \in [Paths -> Inodes \union {None}]
        /\ d \in [Inodes -> Holdings] /\ dd \in [Inodes -> Holdings]
    BY <1>1, MarkFacts DEF DiskTypes
  <1>3. Disk(e, disk_entries, d, dd)
    BY DEF NewFile, f
  <1>4. /\ e[p] = f /\ \A q \in Paths \ {p} : e[q] = entries[q]
        /\ d[f] = Torn /\ dd[f] = Torn
        /\ \A i \in Inodes \ {f} : d[i] = data[i] /\ dd[i] = disk_data[i]
    BY <1>1 DEF DiskTypes
  <1> HIDE DEF e, d, dd
  <1>5. /\ entries' = e /\ disk_entries' = disk_entries /\ DiskTypes'
        /\ \A q \in Paths :
             /\ e[q] # None =>
                  e[q] \in Inodes /\ data'[e[q]] = d[e[q]] /\ disk_data'[e[q]] = dd[e[q]]
             /\ disk_entries[q] # None =>
                  /\ disk_entries[q] \in Inodes
                  /\ data'[disk_entries[q]] = d[disk_entries[q]]
                  /\ disk_data'[disk_entries[q]] = dd[disk_entries[q]]
        /\ \A i \in Inodes : \/ data'[i] = d[i] /\ disk_data'[i] = dd[i]
                             \/ data'[i] = Torn /\ disk_data'[i] = Torn
    BY <1>2, <1>3, DiskIs
  <1>6. ASSUME NEW q \in Paths, NEW i \in NamedBy(q)'
        PROVE  \/ q = p /\ i = f /\ data'[i] = Torn
               \/ i \in NamedBy(q) /\ data'[i] = data[i] /\ disk_data'[i] = disk_data[i]
    BY <1>1, <1>4, <1>5 DEF NamedBy
  <1>7. Classes'
    BY <1>6 DEF Classes, ClassOf, DiskInv
  <1>8. TmpApart'
    BY <1>1, <1>4, <1>5, TmpPath DEF TmpApart, Private, DiskInv
  <1>9. Whole'
    BY <1>6, WholeFacts DEF Whole, DiskInv
  <1>10. Committed'
    <2> SUFFICES ASSUME NEW q \in CsPaths, NEW i \in Inodes,
                        entries'[q] # None, data'[i] = data'[entries'[q]]
                 PROVE  disk_data'[i] = data'[i]
      BY DEF Committed
    <2>1. q \in Paths /\ q # p /\ q \in WholePaths
      BY WholeFacts
    <2>2. entries[q] # None /\ entries'[q] = entries[q] /\ data'[entries[q]] = data[entries[q]]
      BY <1>4, <1>5, <2>1, <1>1
    <2>3. data[entries[q]] # Torn
      BY <2>1, <2>2 DEF Whole, NamedBy, DiskInv
    <2>4. data'[i] = data[i] /\ disk_data'[i] = disk_data[i]
      BY <1>4, <1>5, <2>2, <2>3
    <2> QED BY <2>2, <2>4 DEF Committed, DiskInv
  <1>11. Keeps({p}) /\ Fades({})
    <2>1. Keeps({p})
      BY <1>1, <1>4, <1>5 DEF Keeps, DiskTypes
    <2>2. Fades({})
      BY <1>1, <1>4, <1>5 DEF Fades
    <2> QED BY <2>1, <2>2
  <1>12. entries'[p] # None /\ Private(p)'
    BY <1>1, <1>4, <1>5 DEF Private
  <1> QED BY <1>5, <1>7, <1>8, <1>9, <1>10, <1>11, <1>12 DEF DiskInv

\* Truncating a file that only one path names changes that path only.
LEMMA TruncateCall ==
  ASSUME DiskInv, NEW p \in Paths \ WholePaths, entries[p] # None, Private(p), Truncate(p)
  PROVE  /\ DiskInv' /\ Keeps({p}) /\ Fades({}) /\ disk_entries' = disk_entries
         /\ entries' = entries /\ entries'[p] # None /\ Private(p)'
PROOF
  <1> DEFINE f == entries[p]
             d == [data EXCEPT ![f] = Torn]
  <1>1. DiskTypes /\ f \in Inodes /\ f # None
        /\ \A q \in Paths \ {p} : entries[q] # f /\ disk_entries[q] # f
    BY DEF DiskInv, DiskTypes, Private
  <1>2. /\ entries \in [Paths -> Inodes \union {None}] /\ disk_entries \in [Paths -> Inodes \union {None}]
        /\ d \in [Inodes -> Holdings] /\ disk_data \in [Inodes -> Holdings]
    BY <1>1, MarkFacts DEF DiskTypes
  <1>3. Disk(entries, disk_entries, d, disk_data)
    BY DEF Truncate
  <1>4. d[f] = Torn /\ \A i \in Inodes \ {f} : d[i] = data[i]
    BY <1>1 DEF DiskTypes
  <1> HIDE DEF d
  <1>5. /\ entries' = entries /\ disk_entries' = disk_entries /\ DiskTypes'
        /\ \A q \in Paths :
             /\ entries[q] # None =>
                  /\ entries[q] \in Inodes
                  /\ data'[entries[q]] = d[entries[q]] /\ disk_data'[entries[q]] = disk_data[entries[q]]
             /\ disk_entries[q] # None =>
                  /\ disk_entries[q] \in Inodes
                  /\ data'[disk_entries[q]] = d[disk_entries[q]]
                  /\ disk_data'[disk_entries[q]] = disk_data[disk_entries[q]]
        /\ \A i \in Inodes : \/ data'[i] = d[i] /\ disk_data'[i] = disk_data[i]
                             \/ data'[i] = Torn /\ disk_data'[i] = Torn
    BY <1>2, <1>3, DiskIs
  <1>6. ASSUME NEW q \in Paths, NEW i \in NamedBy(q)'
        PROVE  \/ q = p /\ i = f /\ data'[i] = Torn
               \/ i \in NamedBy(q) /\ data'[i] = data[i] /\ disk_data'[i] = disk_data[i]
    BY <1>1, <1>4, <1>5 DEF NamedBy
  <1>7. Classes'
    BY <1>6 DEF Classes, ClassOf, DiskInv
  <1>8. TmpApart'
    BY <1>5 DEF TmpApart, Private, DiskInv
  <1>9. Whole'
    BY <1>6, WholeFacts DEF Whole, DiskInv
  <1>10. Committed'
    <2> SUFFICES ASSUME NEW q \in CsPaths, NEW i \in Inodes,
                        entries'[q] # None, data'[i] = data'[entries'[q]]
                 PROVE  disk_data'[i] = data'[i]
      BY DEF Committed
    <2>1. q \in Paths /\ q # p /\ q \in WholePaths
      BY WholeFacts
    <2>2. entries[q] # None /\ entries'[q] = entries[q] /\ data'[entries[q]] = data[entries[q]]
      BY <1>4, <1>5, <2>1, <1>1
    <2>3. data[entries[q]] # Torn
      BY <2>1, <2>2 DEF Whole, NamedBy, DiskInv
    <2>4. data'[i] = data[i] /\ disk_data'[i] = disk_data[i]
      BY <1>4, <1>5, <2>2, <2>3
    <2> QED BY <2>2, <2>4 DEF Committed, DiskInv
  <1>11. Keeps({p}) /\ Fades({})
    <2>1. Keeps({p})
      BY <1>1, <1>4, <1>5 DEF Keeps, DiskTypes
    <2>2. Fades({})
      BY <1>1, <1>4, <1>5 DEF Fades
    <2> QED BY <2>1, <2>2
  <1>12. entries'[p] # None /\ Private(p)'
    BY <1>1, <1>4, <1>5 DEF Private
  <1> QED BY <1>5, <1>7, <1>8, <1>9, <1>10, <1>11, <1>12 DEF DiskInv

\* Writing a file that only one path names changes that path only.
LEMMA WriteCall ==
  ASSUME DiskInv, NEW p \in Paths \ WholePaths, NEW x \in ClassOf(p), x # Torn,
         entries[p] # None, Private(p),
         \A q \in CsPaths : entries[q] # None => data[entries[q]] # x,
         Do(Write(p, x))
  PROVE  /\ DiskInv' /\ Keeps({p}) /\ Fades({p}) /\ disk_entries' = disk_entries
         /\ entries' = entries /\ data'[entries[p]] = x /\ Private(p)'
PROOF
  <1> DEFINE f == entries[p]
             d == [data EXCEPT ![f] = x]
  <1>1. DiskTypes /\ f \in Inodes /\ f # None
        /\ \A q \in Paths \ {p} : entries[q] # f /\ disk_entries[q] # f
    BY DEF DiskInv, DiskTypes, Private
  <1>2. /\ entries \in [Paths -> Inodes \union {None}] /\ disk_entries \in [Paths -> Inodes \union {None}]
        /\ d \in [Inodes -> Holdings] /\ disk_data \in [Inodes -> Holdings]
    <2>1. x \in Holdings
      BY MarkFacts DEF ClassOf
    <2> QED BY <1>1, <2>1 DEF DiskTypes
  <1>3. Disk(entries, disk_entries, d, disk_data)
    BY DEF Do, Write, Call
  <1>4. d[f] = x /\ \A i \in Inodes \ {f} : d[i] = data[i]
    BY <1>1 DEF DiskTypes
  <1> HIDE DEF d
  <1>5. /\ entries' = entries /\ disk_entries' = disk_entries /\ DiskTypes'
        /\ \A q \in Paths :
             /\ entries[q] # None =>
                  /\ entries[q] \in Inodes
                  /\ data'[entries[q]] = d[entries[q]] /\ disk_data'[entries[q]] = disk_data[entries[q]]
             /\ disk_entries[q] # None =>
                  /\ disk_entries[q] \in Inodes
                  /\ data'[disk_entries[q]] = d[disk_entries[q]]
                  /\ disk_data'[disk_entries[q]] = disk_data[disk_entries[q]]
        /\ \A i \in Inodes : \/ data'[i] = d[i] /\ disk_data'[i] = disk_data[i]
                             \/ data'[i] = Torn /\ disk_data'[i] = Torn
    BY <1>2, <1>3, DiskIs
  <1>6. ASSUME NEW q \in Paths, NEW i \in NamedBy(q)'
        PROVE  \/ q = p /\ i = f /\ data'[i] = x
               \/ i \in NamedBy(q) /\ data'[i] = data[i] /\ disk_data'[i] = disk_data[i]
    BY <1>1, <1>4, <1>5 DEF NamedBy
  <1>7. Classes'
    BY <1>6 DEF Classes, ClassOf, DiskInv
  <1>8. TmpApart'
    BY <1>5 DEF TmpApart, Private, DiskInv
  <1>9. Whole'
    BY <1>6, WholeFacts DEF Whole, DiskInv
  <1>10. Committed'
    <2> SUFFICES ASSUME NEW q \in CsPaths, NEW i \in Inodes,
                        entries'[q] # None, data'[i] = data'[entries'[q]]
                 PROVE  disk_data'[i] = data'[i]
      BY DEF Committed
    <2>1. q \in Paths /\ q # p /\ q \in WholePaths
      BY WholeFacts
    <2>2. entries[q] # None /\ entries'[q] = entries[q] /\ data'[entries[q]] = data[entries[q]]
      BY <1>4, <1>5, <2>1, <1>1
    <2>3. data[entries[q]] # Torn
      BY <2>1, <2>2 DEF Whole, NamedBy, DiskInv
    <2>4. data'[i] = data[i] /\ disk_data'[i] = disk_data[i]
      BY <1>4, <1>5, <2>2, <2>3
    <2> QED BY <2>2, <2>4 DEF Committed, DiskInv
  <1>11. Keeps({p}) /\ Fades({p})
    <2>1. Keeps({p})
      BY <1>1, <1>4, <1>5 DEF Keeps, DiskTypes
    <2>2. Fades({p})
      BY <1>1, <1>4, <1>5 DEF Fades
    <2> QED BY <2>1, <2>2
  <1>12. data'[entries[p]] = x /\ Private(p)'
    BY <1>1, <1>4, <1>5 DEF Private
  <1> QED BY <1>5, <1>7, <1>8, <1>9, <1>10, <1>11, <1>12 DEF DiskInv

\* A call that changes directories alone.
LEMMA DirectoryCall ==
  ASSUME DiskInv,
         NEW e \in [Paths -> Inodes \union {None}], NEW de \in [Paths -> Inodes \union {None}],
         Disk(e, de, data, disk_data),
         \A q \in Paths : \A i \in {e[q], de[q]} \ {None} :
           \/ i \in NamedBy(q)
           \/ /\ data[i] \in ClassOf(q)
              /\ q \in WholePaths => data[i] = disk_data[i] /\ data[i] # Torn,
         \A q \in CsPaths : e[q] # None =>
           \/ e[q] = entries[q]
           \/ \A i \in Inodes : data[i] = data[e[q]] => disk_data[i] = data[i]
  PROVE  /\ DiskTypes' /\ Classes' /\ Whole' /\ Committed'
         /\ entries' = e /\ disk_entries' = de /\ Fades({})
         /\ \A q \in Paths :
              /\ entries[q] # None /\ (e[q] = entries[q] \/ \E p \in Paths : e[p] = entries[q]) =>
                   /\ data'[entries[q]] = data[entries[q]]
                   /\ disk_data'[entries[q]] = disk_data[entries[q]]
PROOF
  <1>1. DiskTypes
    BY DEF DiskInv
  <1>2. data \in [Inodes -> Holdings] /\ disk_data \in [Inodes -> Holdings]
    BY <1>1 DEF DiskTypes
  <1>3. /\ entries' = e /\ disk_entries' = de /\ DiskTypes'
        /\ \A q \in Paths :
             /\ e[q] # None =>
                  /\ e[q] \in Inodes
                  /\ data'[e[q]] = data[e[q]] /\ disk_data'[e[q]] = disk_data[e[q]]
             /\ de[q] # None =>
                  /\ de[q] \in Inodes
                  /\ data'[de[q]] = data[de[q]] /\ disk_data'[de[q]] = disk_data[de[q]]
        /\ \A i \in Inodes : \/ data'[i] = data[i] /\ disk_data'[i] = disk_data[i]
                             \/ data'[i] = Torn /\ disk_data'[i] = Torn
    BY <1>2, DiskIs
  <1>4. ASSUME NEW q \in Paths, NEW i \in NamedBy(q)'
        PROVE  /\ data'[i] = data[i] /\ disk_data'[i] = disk_data[i]
               /\ \/ i \in NamedBy(q)
                  \/ /\ data[i] \in ClassOf(q)
                     /\ q \in WholePaths => data[i] = disk_data[i] /\ data[i] # Torn
    <2>1. i \in {e[q], de[q]} \ {None}
      BY <1>3 DEF NamedBy
    <2> QED BY <1>3, <2>1
  <1>5. Classes'
    BY <1>4 DEF Classes, ClassOf, DiskInv
  <1>6. Whole'
    BY <1>4, WholeFacts DEF Whole, DiskInv
  <1>7. Committed'
    <2> SUFFICES ASSUME NEW q \in CsPaths, NEW i \in Inodes,
                        entries'[q] # None, data'[i] = data'[entries'[q]]
                 PROVE  disk_data'[i] = data'[i]
      BY DEF Committed
    <2>1. q \in Paths /\ q \in WholePaths
      BY WholeFacts
    <2>2. e[q] # None /\ entries'[q] = e[q] /\ data'[e[q]] = data[e[q]]
      BY <1>3, <2>1
    <2>3. data'[e[q]] # Torn
      BY <1>6, <2>1, <2>2 DEF Whole, NamedBy
    <2>4. data'[i] = data[i] /\ disk_data'[i] = disk_data[i] /\ data[i] = data[e[q]]
      BY <1>3, <2>2, <2>3
    <2>5. CASE e[q] = entries[q]
      BY <2>2, <2>4, <2>5 DEF Committed, DiskInv
    <2>6. CASE \A j \in Inodes : data[j] = data[e[q]] => disk_data[j] = data[j]
      BY <2>4, <2>6
    <2> QED BY <2>2, <2>5, <2>6
  <1>8. Fades({})
    BY <1>3 DEF Fades
  <1> QED BY <1>3, <1>5, <1>6, <1>7, <1>8

\* Unlinking the paths G changes them only.
LEMMA UnlinkSetCall ==
  ASSUME DiskInv, NEW G \in SUBSET Paths, UnlinkSet(G)
  PROVE  /\ DiskInv' /\ Keeps(G) /\ Fades({}) /\ disk_entries' = disk_entries
         /\ \A p \in G : entries'[p] = None
PROOF
  <1> DEFINE e == [p \in Paths |-> IF p \in G THEN None ELSE entries[p]]
  <1>1. DiskTypes
    BY DEF DiskInv
  <1>2. e \in [Paths -> Inodes \union {None}] /\ disk_entries \in [Paths -> Inodes \union {None}]
    BY <1>1 DEF DiskTypes
  <1>3. Disk(e, disk_entries, data, disk_data)
    BY DEF UnlinkSet
  <1>4. /\ \A q \in G : e[q] = None
        /\ \A q \in Paths \ G : e[q] = entries[q]
    OBVIOUS
  <1> HIDE DEF e
  <1>5. \A q \in Paths : \A i \in {e[q], disk_entries[q]} \ {None} : i \in NamedBy(q)
    BY <1>4 DEF NamedBy
  <1>6. \A q \in CsPaths : e[q] # None => e[q] = entries[q]
    BY <1>4, WholeFacts
  <1>7. /\ DiskTypes' /\ Classes' /\ Whole' /\ Committed'
        /\ entries' = e /\ disk_entries' = disk_entries /\ Fades({})
        /\ \A q \in Paths : entries[q] # None /\ e[q] = entries[q] =>
              /\ data'[entries[q]] = data[entries[q]]
              /\ disk_data'[entries[q]] = disk_data[entries[q]]
    BY <1>2, <1>3, <1>5, <1>6, DirectoryCall
  <1>8. TmpApart'
    BY <1>4, <1>7, TmpPath DEF TmpApart, Private, DiskInv
  <1>9. Keeps(G)
    BY <1>4, <1>7 DEF Keeps
  <1> QED BY <1>4, <1>7, <1>8, <1>9 DEF DiskInv

\* Unlinking a path changes it only.
LEMMA UnlinkCall ==
  ASSUME DiskInv, NEW p \in Paths, Do(Unlink(p))
  PROVE  /\ DiskInv' /\ Keeps({p}) /\ Fades({}) /\ disk_entries' = disk_entries
         /\ entries'[p] = None
PROOF
  <1>1. [entries EXCEPT ![p] = None] = [q \in Paths |-> IF q \in {p} THEN None ELSE entries[q]]
    BY DEF DiskInv, DiskTypes
  <1>2. UnlinkSet({p})
    BY <1>1 DEF Do, Unlink, Call, UnlinkSet
  <1> QED BY <1>2, UnlinkSetCall

\* Syncing a directory changes no entry, and makes its entries durable.
LEMMA SyncDirCall ==
  ASSUME DiskInv, NEW d, Do(SyncDir(d))
  PROVE  /\ DiskInv' /\ Keeps({}) /\ Fades({}) /\ entries' = entries
         /\ \A p \in Paths : disk_entries'[p] = IF p[1] = d THEN entries[p] ELSE disk_entries[p]
PROOF
  <1> DEFINE de == [p \in Paths |-> IF p[1] = d THEN entries[p] ELSE disk_entries[p]]
  <1>1. DiskTypes
    BY DEF DiskInv
  <1>2. de \in [Paths -> Inodes \union {None}] /\ entries \in [Paths -> Inodes \union {None}]
    BY <1>1 DEF DiskTypes
  <1>3. Disk(entries, de, data, disk_data)
    BY DEF Do, SyncDir, Call
  <1>4. \A p \in Paths : de[p] = IF p[1] = d THEN entries[p] ELSE disk_entries[p]
    OBVIOUS
  <1> HIDE DEF de
  <1>5. \A q \in Paths : \A i \in {entries[q], de[q]} \ {None} : i \in NamedBy(q)
    BY <1>4 DEF NamedBy
  <1>7. /\ DiskTypes' /\ Classes' /\ Whole' /\ Committed'
        /\ entries' = entries /\ disk_entries' = de /\ Fades({})
        /\ \A q \in Paths : entries[q] # None =>
              /\ data'[entries[q]] = data[entries[q]]
              /\ disk_data'[entries[q]] = disk_data[entries[q]]
    BY <1>2, <1>3, <1>5, DirectoryCall
  <1>8. TmpApart'
    <2>1. ASSUME NEW r \in Runs, entries'[ChecksumsTmp(r)] # None PROVE Private(ChecksumsTmp(r))'
      BY <1>4, <1>7, <2>1, TmpPath DEF TmpApart, Private, DiskInv
    <2>2. ASSUME NEW r \in Runs, disk_entries'[ChecksumsTmp(r)] # None,
                 NEW q \in Paths \ {ChecksumsTmp(r)}
          PROVE  /\ disk_entries'[q] # disk_entries'[ChecksumsTmp(r)]
                 /\ entries'[q] = disk_entries'[ChecksumsTmp(r)] => q = Cs("active", r)
      <3> DEFINE p == ChecksumsTmp(r)
      <3>1. p \in Paths /\ p[1] = "active"
        BY TmpPath
      <3>2. CASE d = "active"
        <4>1. disk_entries'[p] = entries[p] /\ entries[p] # None
          BY <1>4, <1>7, <2>2, <3>1, <3>2
        <4>2. Private(p)
          BY <4>1 DEF TmpApart, DiskInv
        <4> QED BY <1>4, <1>7, <4>1, <4>2 DEF Private
      <3>3. CASE d # "active"
        <4>1. disk_entries'[p] = disk_entries[p] /\ disk_entries[p] # None
          BY <1>4, <1>7, <2>2, <3>1, <3>3
        <4>2. /\ disk_entries[q] # disk_entries[p]
              /\ entries[q] = disk_entries[p] => q = Cs("active", r)
          BY <4>1 DEF TmpApart, DiskInv
        <4>3. q = Cs("active", r) => q[1] = "active"
          BY CsPath, NameFacts
        <4> QED BY <1>4, <1>7, <3>3, <4>1, <4>2, <4>3
      <3> QED BY <3>2, <3>3
    <2> QED BY <2>1, <2>2 DEF TmpApart
  <1>9. Keeps({})
    BY <1>4, <1>7 DEF Keeps
  <1> QED BY <1>4, <1>7, <1>8, <1>9 DEF DiskInv

\* Syncing a file changes no contents, and makes its contents durable.
LEMMA SyncCall ==
  ASSUME DiskInv, NEW p \in Paths, Do(SyncFile(p))
  PROVE  /\ DiskInv' /\ Keeps({}) /\ Fades({}) /\ entries' = entries
         /\ disk_entries' = disk_entries
         /\ entries[p] # None => disk_data'[entries[p]] = data[entries[p]]
PROOF
  <1> DEFINE f == entries[p]
             dd == [disk_data EXCEPT ![f] = data[f]]
  <1>1. DiskTypes /\ (f # None => f \in Inodes)
    BY DEF DiskInv, DiskTypes
  <1>2. /\ entries \in [Paths -> Inodes \union {None}] /\ disk_entries \in [Paths -> Inodes \union {None}]
        /\ data \in [Inodes -> Holdings] /\ dd \in [Inodes -> Holdings]
    BY <1>1, MarkFacts DEF DiskTypes
  <1>3. Disk(entries, disk_entries, data, dd)
    BY DEF Do, SyncFile, Call
  <1>4. /\ f # None => dd[f] = data[f]
        /\ \A i \in Inodes : dd[i] \in {disk_data[i], data[i]}
    BY <1>1 DEF DiskTypes
  <1> HIDE DEF dd
  <1>5. /\ entries' = entries /\ disk_entries' = disk_entries /\ DiskTypes'
        /\ \A q \in Paths :
             /\ entries[q] # None =>
                  /\ entries[q] \in Inodes
                  /\ data'[entries[q]] = data[entries[q]] /\ disk_data'[entries[q]] = dd[entries[q]]
             /\ disk_entries[q] # None =>
                  /\ disk_entries[q] \in Inodes
                  /\ data'[disk_entries[q]] = data[disk_entries[q]]
                  /\ disk_data'[disk_entries[q]] = dd[disk_entries[q]]
        /\ \A i \in Inodes : \/ data'[i] = data[i] /\ disk_data'[i] = dd[i]
                             \/ data'[i] = Torn /\ disk_data'[i] = Torn
    BY <1>2, <1>3, DiskIs
  <1>6. ASSUME NEW q \in Paths, NEW i \in NamedBy(q)'
        PROVE  /\ i \in NamedBy(q) /\ data'[i] = data[i]
               /\ disk_data'[i] \in {disk_data[i], data[i]}
    BY <1>4, <1>5 DEF NamedBy
  <1>7. Classes'
    BY <1>6 DEF Classes, ClassOf, DiskInv
  <1>8. TmpApart'
    BY <1>5 DEF TmpApart, Private, DiskInv
  <1>9. Whole'
    BY <1>6, WholeFacts DEF Whole, DiskInv
  <1>10. Committed'
    <2> SUFFICES ASSUME NEW q \in CsPaths, NEW i \in Inodes,
                        entries'[q] # None, data'[i] = data'[entries'[q]]
                 PROVE  disk_data'[i] = data'[i]
      BY DEF Committed
    <2>1. q \in Paths /\ q \in WholePaths
      BY WholeFacts
    <2>2. entries[q] # None /\ entries'[q] = entries[q] /\ data'[entries[q]] = data[entries[q]]
      BY <1>4, <1>5, <2>1, <1>1
    <2>3. data[entries[q]] # Torn
      BY <2>1, <2>2 DEF Whole, NamedBy, DiskInv
    <2>4. data'[i] = data[i] /\ disk_data'[i] \in {disk_data[i], data[i]}
      BY <1>4, <1>5, <2>2, <2>3
    <2> QED BY <2>2, <2>4 DEF Committed, DiskInv
  <1>11. Keeps({}) /\ Fades({})
    <2>1. Keeps({})
      BY <1>1, <1>4, <1>5 DEF Keeps, DiskTypes
    <2>2. Fades({})
      BY <1>1, <1>4, <1>5 DEF Fades
    <2> QED BY <2>1, <2>2
  <1> QED BY <1>4, <1>5, <1>7, <1>8, <1>9, <1>10, <1>11 DEF DiskInv

\* A hard link changes the new path only, which then names the old one's inode.
LEMMA LinkCall ==
  ASSUME DiskInv, NEW d \in Dirs, NEW g \in Dirs, NEW r \in Runs, NEW c \in Comps,
         d # g,
         LET p == RunFile(d, r, c)
         IN  d = "active" => entries[p] = disk_entries[p],
         Do(Link(RunFile(d, r, c), RunFile(g, r, c)))
  PROVE  LET p == RunFile(d, r, c)
             q == RunFile(g, r, c)
         IN  /\ DiskInv' /\ Keeps({q}) /\ Fades({}) /\ disk_entries' = disk_entries
             /\ entries[p] # None /\ entries[q] = None /\ entries'[q] = entries[p]
PROOF
  <1> DEFINE p == RunFile(d, r, c)
             q == RunFile(g, r, c)
             e == [entries EXCEPT ![q] = entries[p]]
  <1>1. /\ DiskTypes /\ p \in Paths /\ q \in Paths /\ p[2] = q[2] /\ p # q
        /\ p[1] = d /\ p[2] = r /\ q[3] = c /\ q[1] = g
    BY RunFilePath DEF DiskInv
  <1>2. /\ entries[p] # None /\ entries[q] = None
        /\ Disk(e, disk_entries, data, disk_data)
    BY DEF Do, Link, Call
  <1>3. e \in [Paths -> Inodes \union {None}] /\ disk_entries \in [Paths -> Inodes \union {None}]
    BY <1>1 DEF DiskTypes
  <1>4. e[q] = entries[p] /\ \A x \in Paths \ {q} : e[x] = entries[x]
    BY <1>1 DEF DiskTypes
  <1>40. d = "active" => entries[p] = disk_entries[p]
    OBVIOUS
  <1>41. q \in WholePaths => c = "checksums" /\ p \in CsPaths /\ p \in WholePaths
    BY WholeFacts, CsPath DEF Cs
  <1> HIDE DEF e, p, q
  <1>5. ASSUME NEW x \in Paths, NEW i \in {e[x], disk_entries[x]} \ {None}
        PROVE  \/ i \in NamedBy(x)
               \/ /\ data[i] \in ClassOf(x)
                  /\ x \in WholePaths => data[i] = disk_data[i] /\ data[i] # Torn
    <2>1. CASE x = q /\ i = entries[p]
      <3>1. i \in NamedBy(p)
        BY <1>2, <2>1 DEF NamedBy
      <3>2. data[i] \in ClassOf(p) /\ ClassOf(p) = ClassOf(q)
        BY <1>1, <3>1 DEF Classes, DiskInv, ClassOf
      <3>3. q \in WholePaths => data[i] = disk_data[i] /\ data[i] # Torn
        BY <1>41, <3>1 DEF Whole, DiskInv
      <3> QED BY <2>1, <3>2, <3>3
    <2>2. CASE ~(x = q /\ i = entries[p])
      BY <1>4, <2>2 DEF NamedBy
    <2> QED BY <2>1, <2>2
  <1>6. ASSUME NEW x \in CsPaths, e[x] # None
        PROVE  \/ e[x] = entries[x]
               \/ \A i \in Inodes : data[i] = data[e[x]] => disk_data[i] = data[i]
    <2>1. CASE x # q
      BY <1>4, <2>1, WholeFacts
    <2>2. CASE x = q
      <3>1. p \in CsPaths
        BY <1>41, <2>2, WholeFacts
      <3> QED BY <1>2, <1>4, <2>2, <3>1 DEF Committed, DiskInv
    <2> QED BY <2>1, <2>2
  <1>7. /\ DiskTypes' /\ Classes' /\ Whole' /\ Committed'
        /\ entries' = e /\ disk_entries' = disk_entries /\ Fades({})
        /\ \A x \in Paths : entries[x] # None /\ e[x] = entries[x] =>
              /\ data'[entries[x]] = data[entries[x]]
              /\ disk_data'[entries[x]] = disk_data[entries[x]]
    BY <1>2, <1>3, <1>5, <1>6, DirectoryCall
  <1>8. TmpApart'
    <2> SUFFICES ASSUME NEW s \in Runs
                 PROVE  LET t == ChecksumsTmp(s) IN
                        /\ entries'[t] # None => Private(t)'
                        /\ disk_entries'[t] # None =>
                             \A x \in Paths \ {t} :
                               /\ disk_entries'[x] # disk_entries'[t]
                               /\ entries'[x] = disk_entries'[t] => x = Cs("active", s)
      BY DEF TmpApart
    <2> DEFINE t == ChecksumsTmp(s)
    <2>1. t \in Paths /\ t # p /\ t # q /\ e[t] = entries[t]
      <3>1. t \in Paths /\ t[3] = "checksum.tmp"
        BY TmpPath
      <3>2. p[3] = c /\ c # "checksum.tmp"
        BY RunFilePath, CompsIs DEF p
      <3> QED BY <1>1, <1>4, <3>1, <3>2
    <2>2. entries'[t] # None => Private(t)'
      BY <1>1, <1>4, <1>7, <2>1 DEF TmpApart, Private, DiskInv
    <2>3. ASSUME disk_entries[t] # None, entries[p] = disk_entries[t] PROVE FALSE
      <3>1. p = Cs("active", s)
        BY <1>1, <2>1, <2>3 DEF TmpApart, DiskInv
      <3>2. d = "active"
        BY <1>1, <3>1, CsPath, NameFacts
      <3>3. entries[p] = disk_entries[p]
        BY <1>40, <3>2
      <3> QED BY <1>1, <2>1, <2>3, <3>3 DEF TmpApart, DiskInv
    <2>4. ASSUME disk_entries[t] # None, NEW x \in Paths \ {t}
          PROVE  /\ disk_entries[x] # disk_entries[t]
                 /\ e[x] = disk_entries[t] => x = Cs("active", s)
      BY <1>4, <2>3, <2>4 DEF TmpApart, DiskInv
    <2> QED BY <1>7, <2>2, <2>4
  <1>9. Keeps({q})
    BY <1>4, <1>7 DEF Keeps
  <1> QED BY <1>2, <1>4, <1>7, <1>8, <1>9 DEF DiskInv, p, q

\* Renaming a synced file to the name of an atomic write changes the two paths only.
LEMMA RenameCall ==
  ASSUME DiskInv, NEW p \in Paths \ WholePaths, NEW q \in WholePaths, p[2] = q[2],
         \A r \in Runs : p = ChecksumsTmp(r) => q = Cs("active", r),
         entries[p] # None, data[entries[p]] # Torn, disk_data[entries[p]] = data[entries[p]],
         q \in CsPaths => \A i \in Inodes : data[i] = data[entries[p]] => disk_data[i] = data[i],
         Do(Rename(p, q))
  PROVE  /\ DiskInv' /\ Keeps({p, q}) /\ Fades({}) /\ disk_entries' = disk_entries
         /\ entries'[p] = None /\ entries'[q] = entries[p]
         /\ data'[entries[p]] = data[entries[p]] /\ disk_data'[entries[p]] = data[entries[p]]
PROOF
  <1> DEFINE e == [entries EXCEPT ![q] = entries[p], ![p] = None]
  <1>1. DiskTypes /\ p \in Paths /\ q \in Paths /\ p # q
    BY WholeFacts DEF DiskInv
  <1>2. Disk(e, disk_entries, data, disk_data)
    BY DEF Do, Rename, Call
  <1>3. e \in [Paths -> Inodes \union {None}] /\ disk_entries \in [Paths -> Inodes \union {None}]
    BY <1>1 DEF DiskTypes
  <1>4. e[q] = entries[p] /\ e[p] = None /\ \A x \in Paths \ {p, q} : e[x] = entries[x]
    BY <1>1 DEF DiskTypes
  <1> HIDE DEF e
  <1>5. ASSUME NEW x \in Paths, NEW i \in {e[x], disk_entries[x]} \ {None}
        PROVE  \/ i \in NamedBy(x)
               \/ /\ data[i] \in ClassOf(x)
                  /\ x \in WholePaths => data[i] = disk_data[i] /\ data[i] # Torn
    <2>1. CASE x = q /\ i = entries[p]
      <3>1. i \in NamedBy(p)
        BY <2>1 DEF NamedBy
      <3>2. data[i] \in ClassOf(p) /\ ClassOf(p) = ClassOf(q)
        BY <1>1, <3>1 DEF Classes, DiskInv, ClassOf
      <3> QED BY <2>1, <3>2
    <2>2. CASE ~(x = q /\ i = entries[p])
      BY <1>4, <2>2 DEF NamedBy
    <2> QED BY <2>1, <2>2
  <1>6. ASSUME NEW x \in CsPaths, e[x] # None
        PROVE  \/ e[x] = entries[x]
               \/ \A i \in Inodes : data[i] = data[e[x]] => disk_data[i] = data[i]
    <2>1. CASE x # q
      BY <1>4, <1>6, <2>1, WholeFacts
    <2>2. CASE x = q
      BY <1>4, <2>2
    <2> QED BY <2>1, <2>2
  <1>7. /\ DiskTypes' /\ Classes' /\ Whole' /\ Committed'
        /\ entries' = e /\ disk_entries' = disk_entries /\ Fades({})
        /\ \A x \in Paths :
              entries[x] # None /\ (e[x] = entries[x] \/ \E y \in Paths : e[y] = entries[x]) =>
                /\ data'[entries[x]] = data[entries[x]]
                /\ disk_data'[entries[x]] = disk_data[entries[x]]
    BY <1>2, <1>3, <1>5, <1>6, DirectoryCall
  <1>8. TmpApart'
    <2> SUFFICES ASSUME NEW s \in Runs
                 PROVE  LET t == ChecksumsTmp(s) IN
                        /\ entries'[t] # None => Private(t)'
                        /\ disk_entries'[t] # None =>
                             \A x \in Paths \ {t} :
                               /\ disk_entries'[x] # disk_entries'[t]
                               /\ entries'[x] = disk_entries'[t] => x = Cs("active", s)
      BY DEF TmpApart
    <2> DEFINE t == ChecksumsTmp(s)
    <2>1. t \in Paths /\ t # q
      BY TmpPath, WholeFacts
    <2> HIDE DEF t
    <2>2. ASSUME e[t] # None, NEW x \in Paths \ {t}
          PROVE  e[x] # e[t] /\ disk_entries[x] # e[t]
      <3>1. t # p /\ e[t] = entries[t]
        BY <1>4, <2>1, <2>2
      <3>2. Private(t)
        BY <2>2, <3>1 DEF TmpApart, DiskInv, t
      <3> QED BY <1>1, <1>4, <2>1, <2>2, <3>1, <3>2 DEF Private
    <2>4. ASSUME disk_entries[t] # None, NEW x \in Paths \ {t}
          PROVE  /\ disk_entries[x] # disk_entries[t]
                 /\ e[x] = disk_entries[t] => x = Cs("active", s)
      <3>1. /\ disk_entries[x] # disk_entries[t]
            /\ entries[x] = disk_entries[t] => x = Cs("active", s)
        BY <2>4 DEF TmpApart, DiskInv, t
      <3>2. ASSUME x = q, entries[p] = disk_entries[t] PROVE q = Cs("active", s)
        <4>1. p = t
          <5>1. p # Cs("active", s)
            BY CsPath, WholeFacts, NameFacts
          <5> QED BY <1>1, <2>1, <2>4, <3>2, <5>1 DEF TmpApart, DiskInv, t
        <4> QED BY <4>1 DEF t
      <3> QED BY <1>4, <2>4, <3>1, <3>2
    <2> QED BY <1>7, <2>2, <2>4 DEF Private, t
  <1>9. Keeps({p, q})
    BY <1>4, <1>7 DEF Keeps
  <1>10. data'[entries[p]] = data[entries[p]] /\ disk_data'[entries[p]] = data[entries[p]]
    BY <1>1, <1>4, <1>7
  <1> QED BY <1>4, <1>7, <1>8, <1>9, <1>10 DEF DiskInv

---------------------------------------------------------------------------
(* The inductive invariant.                                                *)

\* A file with contents x: in memory, with its name on disk, or altogether.
Has(p, x) == entries[p] # None /\ data[entries[p]] = x
Held(p, x) == Has(p, x) /\ disk_entries[p] = entries[p]
Settled(p, x) == Held(p, x) /\ disk_data[entries[p]] = x
Synced(d) == \A p \in Paths : p[1] = d => disk_entries[p] = entries[p]

NumsOf(T) == {t.num : t \in T}
Open == task.kind \in {"ready", "write", "delete", "save", "remove"}

ProcTypes ==
  /\ tree \subseteq Tags /\ session \in Sessions /\ next_run_number \in 1 .. MaxRun + 1
  /\ mishaps \in 0 .. MaxMishaps
  /\ task.kind \in {"closed", "close", "open", "restore"} => tree = {}
  /\ task.kind \in {"open", "restore"} => session < MaxSession

\* No run that is there has a number that is still to be given.
NumbersAhead ==
  /\ \A t \in tree : t.num < next_run_number
  /\ Open => \A r \in Runs : r >= next_run_number => entries[RunFile("active", r, "keyops")] = None

\* The same number and session were not given before.
Births ==
  \A i \in Inodes : data[i] \in Tags =>
    \/ data[i].born < session
    \/ data[i].born = session /\ (Open => data[i].num < next_run_number)

TreeHeld == \A t \in tree : \A p \in RunFiles("active", t.num) : Settled(p, t)

\* A name that was not saved to has no files.
Unused(n) ==
  \A p \in Paths : p[1] = n \/ p = SnapshotDir(n) => entries[p] = None /\ disk_entries[p] = None

\* The files of a snapshot whose save has returned.
Kept(n) ==
  LET m == [runs |-> NumsOf(saved[n].runs)] IN
    /\ Synced(n)
    /\ Settled(Metadata(n), m)
    /\ \A t \in saved[n].runs : \A p \in RunFiles(n, t.num) : Settled(p, t)
    /\ \/ Held(MetadataChecksum(n), m)
       \/ saved[n].power /\ Held(MetadataChecksum(n), Torn)
    /\ ~saved[n].power => entries[SnapshotDir(n)] # None

SavedInv ==
  /\ saved \in [Names -> Saves \union {None}]
  /\ \A n \in Names : saved[n] = None => Unused(n)
  /\ \A n \in Names : saved[n] # None => (saved[n].done => Kept(n))

TaskTypes ==
  /\ task = [kind |-> task.kind, todo |-> task.todo, run |-> task.run, drop |-> task.drop,
             name |-> task.name]
  /\ task.kind \in Kinds
  /\ task.run \in Tags \union {None} /\ task.drop \subseteq Tags
  /\ task.name \in Names \union {None}

\* What is left to do.
Rem == Range(task.todo)

---------------------------------------------------------------------------
(* A run being written: the calls, their order, and what is done of them.  *)

File(t, c) == RunFile("active", t.num, c)
WTmp(t) == ChecksumsTmp(t.num)
WFiles(t) == {File(t, c) : c \in Plain}
WRename(t) == Rename(WTmp(t), File(t, "checksums"))
WCalls(t) ==
  (UNION {{CreateNew(p), Write(p, t), SyncFile(p)} : p \in WFiles(t)})
    \union {OpenTruncate(WTmp(t)), Write(WTmp(t), t), SyncFile(WTmp(t)), WRename(t), SyncDir("active")}

WOrder(s, t) ==
  /\ s \in Seq(WCalls(t))
  /\ EndsWith(s, SyncDir("active"))
  /\ Never(s, CreateNew(File(t, "keyops")), CreateNew(File(t, "keyops")))
  /\ \A p \in WFiles(t) : Never(s, Write(p, t), CreateNew(p))
  /\ Never(s, Write(WTmp(t), t), OpenTruncate(WTmp(t)))
  /\ \A c \in WCalls(t) \ {SyncDir("active")} : Never(s, WRename(t), c)
  /\ Later(s, OpenTruncate(WTmp(t)), Write(WTmp(t), t))
  /\ \A p \in WFiles(t) \union {WTmp(t)} :
       Later(s, Write(p, t), SyncFile(p)) /\ Later(s, Write(p, t), WRename(t))

Written(t) ==
  /\ CreateNew(File(t, "keyops")) \in Rem => entries[File(t, "keyops")] = None
  /\ \A p \in WFiles(t) :
       /\ Write(p, t) \in Rem \/ Has(p, t)
       /\ Write(p, t) \in Rem => CreateNew(p) \in Rem \/ (entries[p] # None /\ Private(p))
  /\ WRename(t) \in Rem \/ Has(File(t, "checksums"), t)
  /\ WRename(t) \in Rem => Write(WTmp(t), t) \in Rem \/ Has(WTmp(t), t)
  /\ Write(WTmp(t), t) \in Rem => OpenTruncate(WTmp(t)) \in Rem \/ entries[WTmp(t)] # None
  /\ WRename(t) \in Rem => \A p \in CsPaths : ~Has(p, t)
  /\ \A i \in Inodes : data[i] = t /\ disk_data[i] # t =>
       \E p \in WFiles(t) \union {WTmp(t)} : entries[p] = i /\ SyncFile(p) \in Rem
  /\ task.todo = <<>> => Synced("active")

Writing(t) ==
  /\ t \in Tags /\ t.born = session /\ t.num = next_run_number - 1 /\ t.num \notin NumsOf(tree)
  /\ task.drop \subseteq tree
  /\ WOrder(task.todo, t)
  /\ Written(t)

---------------------------------------------------------------------------
(* A snapshot being saved.                                                 *)

MRename(n) == Rename(MetadataTmp(n), Metadata(n))
SLink(n, r, c) == Link(RunFile("active", r, c), RunFile(n, r, c))
SCalls(n, R, m) ==
  {CreateNew(SnapshotDir(n)), SyncDir(n), OpenTruncate(MetadataTmp(n)), Write(MetadataTmp(n), m),
   SyncFile(MetadataTmp(n)), MRename(n), OpenTruncate(MetadataChecksum(n)), Write(MetadataChecksum(n), m)}
    \union {SLink(n, r, c) : r \in R, c \in Comps}

SOrder(s, n, R, m) ==
  /\ s \in Seq(SCalls(n, R, m))
  /\ EndsWith(s, SyncDir(n))
  /\ \A p \in {MetadataTmp(n), MetadataChecksum(n)} :
       Never(s, Write(p, m), OpenTruncate(p)) /\ Never(s, OpenTruncate(p), OpenTruncate(p))
  /\ Later(s, Write(MetadataTmp(n), m), SyncFile(MetadataTmp(n)))
  /\ \A c \in {Write(MetadataTmp(n), m), SyncFile(MetadataTmp(n)), MRename(n)} : Never(s, MRename(n), c)

Linked(n, R, m) ==
  /\ task.todo = <<>> => Synced(n)
  /\ CreateNew(SnapshotDir(n)) \in Rem \/ entries[SnapshotDir(n)] # None
  /\ \A r \in R, c \in Comps :
       SLink(n, r, c) \in Rem \/ entries[RunFile(n, r, c)] = entries[RunFile("active", r, c)]
  /\ MRename(n) \in Rem \/ Has(Metadata(n), m)

Described(n, m) ==
  LET tmp == MetadataTmp(n)
      mc == MetadataChecksum(n)
  IN
    /\ MRename(n) \in Rem => Write(tmp, m) \in Rem \/ Has(tmp, m)
    /\ MRename(n) \in Rem =>
         SyncFile(tmp) \in Rem \/ (entries[tmp] # None => disk_data[entries[tmp]] = data[entries[tmp]])
    /\ Write(mc, m) \in Rem \/ Has(mc, m)
    /\ \A p \in {tmp, mc} :
         /\ OpenTruncate(p) \in Rem => entries[p] = None
         /\ Write(p, m) \in Rem => OpenTruncate(p) \in Rem \/ (entries[p] # None /\ Private(p))

Done(n, R, m) == Linked(n, R, m) /\ Described(n, m)

Saving(n) ==
  LET R == NumsOf(tree)
      m == [runs |-> R]
  IN  /\ n \in Names /\ saved[n] # None /\ saved[n].runs = tree /\ ~saved[n].done
      /\ SOrder(task.todo, n, R, m)
      /\ Done(n, R, m)

---------------------------------------------------------------------------
(* The other operations.                                                   *)

Deleting ==
  task.todo \in Seq({Unlink(p) : p \in UNION {RunFiles("active", r) : r \in Runs \ NumsOf(tree)}})

Removing(n) ==
  /\ n \in Names /\ saved[n] # None /\ ~saved[n].done
  /\ task.todo \in Seq({UnlinkAll(n), Unlink(SnapshotDir(n))})

Opening ==
  /\ task.todo \in Seq({SyncDir("active"), SyncDir("snapshots")})
  /\ SyncDir("active") \in Rem \/ Synced("active")

RLink(n, r, c) == Link(RunFile(n, r, c), RunFile("active", r, c))

Restoring(n) ==
  LET R == NamedRuns(n) IN
    /\ n \in Names /\ Contents(Metadata(n)) # Torn
    /\ task.todo \in Seq({SyncDir("snapshots"), SyncDir("active"), UnlinkAll("active")}
                           \union {RLink(n, r, c) : r \in R, c \in Comps})
    /\ EndsWith(task.todo, SyncDir("active"))
    /\ task.todo = <<>> => Synced("active")
    /\ UnlinkAll("active") \notin Rem =>
         \A p \in Paths : p[1] = "active" /\ entries[p] # None =>
           \E r \in R : p \in RunFiles("active", r)

TaskInv ==
  /\ task.kind \in {"ready", "closed"} => task.todo = <<>>
  /\ task.kind = "write" => Writing(task.run)
  /\ task.kind = "save" => Saving(task.name)
  /\ task.kind \in {"delete", "close"} => Deleting
  /\ task.kind = "remove" => Removing(task.name)
  /\ task.kind = "open" => Opening
  /\ task.kind = "restore" => Restoring(task.name)

StateInv == DiskInv /\ ProcTypes /\ NumbersAhead /\ Births /\ TreeHeld /\ SavedInv /\ TaskTypes

FullInv == StateInv /\ TaskInv

---------------------------------------------------------------------------
(* What a step of the disk keeps.                                          *)

\* Calls that spare a path spare what it names, what it holds and what is synced.
LEMMA HasKept ==
  ASSUME NEW X, Keeps(X), NEW q \in Paths \ X, NEW x
  PROVE  /\ Has(q, x)' <=> Has(q, x)
         /\ Held(q, x) => Held(q, x)'
         /\ Settled(q, x) => Settled(q, x)'
         /\ entries'[q] = entries[q]
PROOF BY DEF Keeps, Has, Held, Settled

\* A path spared by a call stays the only one of its inode.
LEMMA PrivateKept ==
  ASSUME NEW X, Keeps(X), NEW q \in Paths \ X, Private(q),
         \A x \in X : entries'[x] # entries[q]
  PROVE  Private(q)'
PROOF BY DEF Keeps, Private

\* A directory whose paths a call spares stays synced.
LEMMA SyncedKept ==
  ASSUME NEW X, Keeps(X), NEW d, \A x \in X : x[1] # d, Synced(d)
  PROVE  Synced(d)'
PROOF BY DEF Keeps, Synced

\* Calls that spare the files of the tree's runs spare its handles.
LEMMA TreeHeldKept ==
  ASSUME NEW X, Keeps(X), TreeHeld, tree' = tree, tree \subseteq Tags,
         \A x \in X : x[1] = "active" => x[2] \notin NumsOf(tree)
  PROVE  TreeHeld'
PROOF
  <1> SUFFICES ASSUME NEW t \in tree, NEW p \in RunFiles("active", t.num)
               PROVE  Settled(p, t)'
    BY DEF TreeHeld
  <1>1. p \in Paths /\ p[1] = "active" /\ p[2] = t.num
    BY RunFilePath, NameFacts DEF RunFiles, Comps, Tags
  <1>2. p \notin X
    BY <1>1 DEF NumsOf
  <1> QED BY <1>1, <1>2, HasKept DEF TreeHeld

\* The condition on the files X of a step under which saved snapshots are kept.
SparesSaved(X) ==
  \A x \in X : \/ x[1] = "active"
               \/ \E m \in Names : /\ saved[m] # None /\ ~saved[m].done
                                   /\ x[1] = m \/ x = SnapshotDir(m)

\* Calls that spare the files of saved snapshots keep what is known of them.
LEMMA SavedKept ==
  ASSUME NEW X, Keeps(X), SavedInv, saved' = saved, SparesSaved(X)
  PROVE  SavedInv'
PROOF
  <1>1. ASSUME NEW n \in Names, saved[n] = None \/ saved[n].done,
               NEW p \in Paths, p[1] = n \/ p = SnapshotDir(n)
        PROVE  p \notin X
    <2> SUFFICES ASSUME p \in X PROVE FALSE
      OBVIOUS
    <2>1. p[1] # "active"
      BY <1>1, NamePaths, NameFacts
    <2>2. PICK m \in Names : saved[m] # None /\ ~saved[m].done /\ (p[1] = m \/ p = SnapshotDir(m))
      BY <2>1 DEF SparesSaved
    <2>3. SnapshotDir(m)[1] = "snapshots" /\ SnapshotDir(n)[1] = "snapshots"
          /\ SnapshotDir(m)[3] = m /\ SnapshotDir(n)[3] = n
      BY NamePaths
    <2>4. m = n
      BY <1>1, <2>2, <2>3, NameFacts
    <2> QED BY <1>1, <2>2, <2>4
  <1>2. ASSUME NEW n \in Names, saved[n] = None PROVE Unused(n)'
    <2>1. Unused(n)
      BY <1>2 DEF SavedInv
    <2> SUFFICES ASSUME NEW p \in Paths, p[1] = n \/ p = SnapshotDir(n)
                 PROVE  entries'[p] = None /\ disk_entries'[p] = None
      BY DEF Unused
    <2>2. p \notin X
      BY <1>1, <1>2
    <2> QED BY <2>1, <2>2 DEF Unused, Keeps
  <1>3. ASSUME NEW n \in Names, saved[n] # None, saved[n].done PROVE Kept(n)'
    <2>1. Kept(n)
      BY <1>3 DEF SavedInv
    <2>2. ASSUME NEW p \in Paths, p[1] = n \/ p = SnapshotDir(n) PROVE p \notin X
      BY <1>1, <1>3, <2>2
    <2> DEFINE m == [runs |-> NumsOf(saved[n].runs)]
    <2>3. Synced(n)'
      <3>1. ASSUME NEW p \in Paths, p[1] = n PROVE disk_entries'[p] = entries'[p]
        BY <2>1, <2>2, <3>1 DEF Kept, Synced, Keeps
      <3> QED BY <3>1 DEF Synced
    <2>4. Settled(Metadata(n), m)'
      <3>1. Metadata(n) \in Paths \ X
        BY <2>2, NamePaths
      <3> QED BY <2>1, <3>1, HasKept DEF Kept
    <2>5. ASSUME NEW t \in saved[n].runs, NEW p \in RunFiles(n, t.num) PROVE Settled(p, t)'
      <3>1. saved[n].runs \subseteq Tags
        BY <1>3 DEF SavedInv, Saves
      <3>2. p \in Paths /\ p[1] = n
        BY <2>5, <3>1, RunFilePath, NameFacts DEF RunFiles, Comps, Tags
      <3>3. p \in Paths \ X
        BY <2>2, <3>2
      <3> QED BY <2>1, <2>5, <3>3, HasKept DEF Kept
    <2>6. \/ Held(MetadataChecksum(n), m)'
          \/ saved[n].power /\ Held(MetadataChecksum(n), Torn)'
      <3>1. MetadataChecksum(n) \in Paths \ X
        BY <2>2, NamePaths
      <3> QED BY <2>1, <3>1, HasKept DEF Kept
    <2>7. ~saved[n].power => entries'[SnapshotDir(n)] # None
      <3>1. SnapshotDir(n) \in Paths \ X
        BY <2>2, NamePaths
      <3> QED BY <2>1, <3>1, HasKept DEF Kept
    <2> QED BY <2>3, <2>4, <2>5, <2>6, <2>7 DEF Kept
  <1> QED BY <1>2, <1>3 DEF SavedInv

\* A step that neither gives a number nor opens or closes a tree.
Moves ==
  /\ UNCHANGED <<tree, session, next_run_number, saved>>
  /\ TaskTypes' /\ (Open' => Open) /\ mishaps' \in 0 .. MaxMishaps
  /\ task'.kind \in {"closed", "close", "open", "restore"} => tree = {}
  /\ task'.kind \in {"open", "restore"} => session < MaxSession

\* Calls that make no .keyops file with a number to come keep the counter ahead.
LEMMA NumbersKept ==
  ASSUME NEW X, NEW W, Keeps(X), Fades(W), NumbersAhead, Births, ProcTypes, Moves,
         Open => \A x \in X : \/ entries'[x] = None
                              \/ \A r \in Runs : x = RunFile("active", r, "keyops") => r < next_run_number,
         \A p \in W : data'[entries[p]] \in Tags =>
           data'[entries[p]].born = session /\ data'[entries[p]].num < next_run_number
  PROVE  NumbersAhead' /\ Births' /\ ProcTypes'
PROOF
  <1>1. /\ ProcTypes' /\ (Open' => Open)
        /\ tree' = tree /\ session' = session /\ next_run_number' = next_run_number
    BY DEF ProcTypes, Moves
  <1>2. NumbersAhead'
    <2> SUFFICES ASSUME Open', NEW r \in Runs, r >= next_run_number
                 PROVE  entries'[RunFile("active", r, "keyops")] = None
      BY <1>1 DEF NumbersAhead
    <2> DEFINE p == RunFile("active", r, "keyops")
    <2>1. p \in Paths /\ entries[p] = None
      BY <1>1, RunFilePath, CsPath, NameFacts DEF NumbersAhead
    <2>2. ~(r < next_run_number)
      BY DEF ProcTypes, Runs
    <2>3. p = RunFile("active", r, "keyops")
      OBVIOUS
    <2> HIDE DEF p
    <2> QED BY <1>1, <2>1, <2>2, <2>3 DEF Keeps
  <1>3. Births'
    <2> SUFFICES ASSUME NEW i \in Inodes, data'[i] \in Tags
                 PROVE  \/ data'[i].born < session
                        \/ data'[i].born = session /\ (Open' => data'[i].num < next_run_number)
      BY <1>1 DEF Births
    <2>1. CASE \E p \in W : i = entries[p]
      BY <1>1, <2>1
    <2>2. CASE ~\E p \in W : i = entries[p]
      <3>1. data'[i] = data[i]
        BY <2>2, MarkFacts DEF Fades
      <3> QED BY <1>1, <3>1 DEF Births
    <2> QED BY <2>1, <2>2
  <1> QED BY <1>1, <1>2, <1>3

\* What a step of an operation has to show for the part of the invariant that is
\* not about the operation itself.
LEMMA MoveRest ==
  ASSUME StateInv, Moves, NEW X, NEW W, Keeps(X), Fades(W), DiskInv', SparesSaved(X),
         \A x \in X : x[1] = "active" => x[2] \notin NumsOf(tree),
         Open => \A x \in X : \/ entries'[x] = None
                              \/ \A r \in Runs : x = RunFile("active", r, "keyops") => r < next_run_number,
         \A p \in W : data'[entries[p]] \in Tags =>
           data'[entries[p]].born = session /\ data'[entries[p]].num < next_run_number
  PROVE  StateInv'
PROOF
  <1>1. NumbersAhead' /\ Births' /\ ProcTypes'
    BY NumbersKept DEF StateInv
  <1>2. TreeHeld' /\ SavedInv' /\ TaskTypes'
    BY TreeHeldKept, SavedKept DEF StateInv, Moves, ProcTypes
  <1> QED BY <1>1, <1>2 DEF StateInv

\* No task.
LEMMA IdleTask ==
  ASSUME task' \in {Ready, Closed}
  PROVE  TaskTypes' /\ TaskInv' /\ (task' = Closed => ~Open') /\ task'.kind = IF task' = Closed THEN "closed" ELSE "ready"
PROOF
  <1>1. /\ Closed.kind = "closed" /\ Closed.todo = <<>> /\ Closed.run = None /\ Closed.drop = {}
        /\ Closed.name = None
        /\ Closed = [kind |-> Closed.kind, todo |-> Closed.todo, run |-> Closed.run,
                     drop |-> Closed.drop, name |-> Closed.name]
    BY DEF Closed
  <1>2. /\ Ready.kind = "ready" /\ Ready.todo = <<>> /\ Ready.run = None /\ Ready.drop = {}
        /\ Ready.name = None
        /\ Ready = [kind |-> Ready.kind, todo |-> Ready.todo, run |-> Ready.run,
                    drop |-> Ready.drop, name |-> Ready.name]
    BY <1>1 DEF Ready
  <1>3. TaskTypes'
    BY <1>1, <1>2 DEF TaskTypes, Kinds
  <1>4. TaskInv'
    BY <1>1, <1>2 DEF TaskInv
  <1> QED BY <1>1, <1>2, <1>3, <1>4 DEF Open

\* The process ends.
LEMMA EndRest ==
  ASSUME StateInv, NEW X, Keeps(X), Fades({}), DiskInv', SparesSaved(X),
         task' = Closed, tree' = {}, next_run_number' \in 1 .. MaxRun + 1,
         UNCHANGED <<session, saved>>, mishaps' \in 0 .. MaxMishaps
  PROVE  FullInv'
PROOF
  <1>1. TaskTypes' /\ TaskInv' /\ ~Open' /\ task'.kind = "closed"
    BY IdleTask
  <1>2. ProcTypes' /\ NumbersAhead' /\ TreeHeld'
    BY <1>1 DEF StateInv, ProcTypes, NumbersAhead, TreeHeld
  <1>3. Births'
    BY <1>1, MarkFacts DEF StateInv, Births, Fades
  <1>4. SavedInv'
    BY SavedKept DEF StateInv
  <1> QED BY <1>1, <1>2, <1>3, <1>4 DEF FullInv, StateInv

\* A task is given up and the process goes on.
LEMMA ReadyRest ==
  ASSUME StateInv, NEW X, Keeps(X), Fades({}), DiskInv', SparesSaved(X), Open,
         \A x \in X : x[1] # "active",
         task' = Ready, UNCHANGED <<tree, session, next_run_number, saved>>, mishaps' \in 0 .. MaxMishaps
  PROVE  FullInv'
PROOF
  <1>1. TaskTypes' /\ TaskInv' /\ task'.kind = "ready"
    BY IdleTask DEF Ready, Closed
  <1>2. Moves
    BY <1>1 DEF Moves
  <1>3. \A x \in X : \A r \in Runs : x # RunFile("active", r, "keyops")
    BY RunFilePath, CsPath, NameFacts
  <1>4. StateInv'
    BY <1>2, <1>3, MoveRest
  <1> QED BY <1>1, <1>4 DEF FullInv

---------------------------------------------------------------------------
(* Calls, and the task after one.                                          *)

\* The parts of each call.
LEMMA CallParts ==
  ASSUME NEW p, NEW x
  PROVE  /\ CreateNew(p).op = "create_new" /\ CreateNew(p).path = p
         /\ OpenTruncate(p).op = "truncate" /\ OpenTruncate(p).path = p
         /\ Write(p, x).op = "write" /\ Write(p, x).path = p /\ Write(p, x).arg = x
         /\ SyncFile(p).op = "sync" /\ SyncFile(p).path = p
         /\ SyncDir(p).op = "sync_dir" /\ SyncDir(p).path = p
         /\ Link(p, x).op = "link" /\ Link(p, x).path = p /\ Link(p, x).arg = x
         /\ Rename(p, x).op = "rename" /\ Rename(p, x).path = p /\ Rename(p, x).arg = x
         /\ Unlink(p).op = "unlink" /\ Unlink(p).path = p
         /\ UnlinkAll(p).op = "unlink_all" /\ UnlinkAll(p).path = p
PROOF BY DEF CreateNew, OpenTruncate, Write, SyncFile, SyncDir, Link, Rename, Unlink, UnlinkAll, Call

\* After a step, the operation has the same parameters and one call less.
LEMMA TaskRest ==
  ASSUME TaskTypes, NEW S, task.todo \in Seq(S), task.todo # <<>>,
         task' = [task EXCEPT !.todo = Tail(@)]
  PROVE  /\ TaskTypes' /\ task'.kind = task.kind /\ task'.run = task.run
         /\ task'.drop = task.drop /\ task'.name = task.name
         /\ task'.todo = Tail(task.todo) /\ task'.todo \in Seq(S)
         /\ Head(task.todo) \in S /\ Rem = {Head(task.todo)} \union Rem'
PROOF
  <1>1. /\ task'.kind = task.kind /\ task'.run = task.run
        /\ task'.drop = task.drop /\ task'.name = task.name
        /\ task'.todo = Tail(task.todo) /\ TaskTypes'
    BY DEF TaskTypes
  <1> QED BY <1>1, TailOrder DEF Rem

\* The process goes on with the same task.
Goes == /\ UNCHANGED <<tree, session, next_run_number, saved, mishaps>>
        /\ task'.kind = task.kind /\ task'.run = task.run /\ task'.drop = task.drop
        /\ task'.name = task.name /\ TaskTypes'

\* A step of an operation moves neither the tree nor its counters.
LEMMA GoesMoves ==
  ASSUME StateInv, Goes
  PROVE  Moves
PROOF
  <1>1. Open' <=> Open
    BY DEF Goes, Open
  <1> QED BY <1>1 DEF StateInv, ProcTypes, Goes, Moves

---------------------------------------------------------------------------
(* Writing a run.                                                          *)

\* The paths a run is written to.
LEMMA WPaths ==
  ASSUME NEW t \in Tags
  PROVE  /\ t.num \in Runs
         /\ \A p \in WFiles(t) \union {WTmp(t)} :
              /\ p \in Paths /\ p \notin WholePaths /\ p \notin CsPaths
              /\ p[1] = "active" /\ p[2] = t.num /\ t \in ClassOf(p)
              /\ p # File(t, "checksums")
         /\ WTmp(t) \notin WFiles(t)
         /\ File(t, "keyops") \in WFiles(t)
         /\ LET p == File(t, "checksums")
            IN  /\ p = Cs("active", t.num) /\ p \in CsPaths /\ p \in WholePaths /\ p \in Paths
                /\ p[1] = "active" /\ p[2] = t.num
PROOF
  <1>1. t.num \in Runs
    BY DEF Tags
  <1>2. ASSUME NEW c \in Plain
        PROVE  LET p == File(t, c)
               IN  /\ p \in Paths /\ p \notin WholePaths /\ p[1] = "active" /\ p[2] = t.num /\ p[3] = c
                   /\ c # "checksums" /\ c # "checksum.tmp"
    <2>1. c \in Comps /\ c # "checksums"
      BY DEF Plain
    <2>2. c # "checksum.tmp"
      BY CompsIs
    <2> QED BY <1>1, <2>1, <2>2, RunFilePath, WholeFacts, NameFacts DEF File
  <1>3. LET p == WTmp(t)
        IN  /\ p \in Paths /\ p \notin WholePaths /\ p[1] = "active" /\ p[2] = t.num
            /\ p[3] = "checksum.tmp"
    BY <1>1, TmpPath, WholeFacts DEF WTmp
  <1>4. LET p == File(t, "checksums")
        IN  /\ p = Cs("active", t.num) /\ p \in CsPaths /\ p \in WholePaths /\ p \in Paths
            /\ p[1] = "active" /\ p[2] = t.num
    BY <1>1, CsPath, WholeFacts, NameFacts DEF File, Cs
  <1>5. \A p \in Paths : p[2] = t.num => t \in ClassOf(p)
    BY <1>1 DEF ClassOf
  <1>6. CsPaths \subseteq WholePaths
    BY WholeFacts
  <1>7. File(t, "keyops") \in WFiles(t)
    BY CsPath DEF WFiles
  <1>8. \A p \in WFiles(t) : \E c \in Plain : p = File(t, c)
    BY DEF WFiles
  <1> QED BY <1>1, <1>2, <1>3, <1>4, <1>5, <1>6, <1>7, <1>8

\* The call c is made, and what is left has the order that it had.
Makes(t, c) ==
  /\ c \in WCalls(t) /\ Rem = {c} \union Rem' /\ task.kind = "write"
  /\ c = CreateNew(File(t, "keyops")) => c \notin Rem'
  /\ \A p \in WFiles(t) : c = Write(p, t) => CreateNew(p) \notin Rem'
  /\ c = Write(WTmp(t), t) => OpenTruncate(WTmp(t)) \notin Rem'
  /\ c = WRename(t) => \A b \in WCalls(t) \ {SyncDir("active")} : b \notin Rem'
  /\ c = OpenTruncate(WTmp(t)) => Write(WTmp(t), t) \in Rem'
  /\ \A p \in WFiles(t) \union {WTmp(t)} :
       c = Write(p, t) => SyncFile(p) \in Rem' /\ WRename(t) \in Rem'
  /\ task'.todo = <<>> => c = SyncDir("active")

\* The next call of a run being written, and the order of those after it.
LEMMA WMakes ==
  ASSUME NEW t, WOrder(task.todo, t), task.todo # <<>>, task.kind = "write",
         TaskTypes, task' = [task EXCEPT !.todo = Tail(@)]
  PROVE  Makes(t, Head(task.todo)) /\ WOrder(task.todo, t)'
PROOF
  <1> DEFINE s == task.todo
  <1>1. s \in Seq(WCalls(t)) /\ s # <<>>
    BY DEF WOrder
  <1>2. task'.todo = Tail(s) /\ Rem = {Head(s)} \union Rem' /\ Head(s) \in WCalls(t)
    BY <1>1, TaskRest
  <1>3. /\ Tail(s) \in Seq(WCalls(t))
        /\ \A x, y : Never(s, x, y) =>
             Never(Tail(s), x, y) /\ (Head(s) = x => y \notin Range(Tail(s)))
        /\ \A x, y : Later(s, x, y) =>
             Later(Tail(s), x, y) /\ (Head(s) = x => y \in Range(Tail(s)))
        /\ \A y : EndsWith(s, y) =>
             EndsWith(Tail(s), y) /\ (Tail(s) = <<>> => Head(s) = y)
    BY <1>1, TailOrder
  <1>4. WOrder(Tail(s), t)
    BY <1>3 DEF WOrder
  <1>5. Makes(t, Head(s))
    BY <1>2, <1>3 DEF WOrder, Makes, Rem
  <1> QED BY <1>2, <1>4, <1>5 DEF WOrder, WCalls, WFiles, WTmp, WRename, File

\* What the calls on the files of the run do to the rest of the state.
LEMMA WRest ==
  ASSUME StateInv, NEW t \in Tags, t.born = session, t.num = next_run_number - 1,
         t.num \notin NumsOf(tree), Goes, task.kind = "write",
         NEW X \in SUBSET (WFiles(t) \union {WTmp(t), File(t, "checksums")}),
         NEW W \in SUBSET X, Keeps(X), Fades(W), DiskInv',
         \A p \in W : data'[entries[p]] = t
  PROVE  StateInv'
PROOF
  <1>1. \A x \in X : x[1] = "active" /\ x[2] = t.num
    BY WPaths
  <1>2. SparesSaved(X)
    BY <1>1 DEF SparesSaved
  <1>3. \A x \in X : x[1] = "active" => x[2] \notin NumsOf(tree)
    BY <1>1
  <1>4. t.num < next_run_number /\ t.num \in Nat /\ next_run_number \in Nat
    <2>1. t.num \in Nat /\ next_run_number \in Nat
      BY DEF StateInv, ProcTypes, Tags, Runs
    <2> QED BY <2>1
  <1>5. \A x \in X : \A r \in Runs : x = RunFile("active", r, "keyops") => r < next_run_number
    BY <1>1, <1>4, RunFilePath, CsPath, NameFacts
  <1> QED BY <1>2, <1>3, <1>4, <1>5, GoesMoves, MoveRest

\* Creating a file of the run keeps the writing on its way.
LEMMA WCreate ==
  ASSUME StateInv, NEW t \in Tags, Written(t), NEW p \in WFiles(t),
         Makes(t, CreateNew(p)), Do(CreateNew(p))
  PROVE  /\ Written(t)' /\ DiskInv'
         /\ \E X \in SUBSET (WFiles(t) \union {WTmp(t), File(t, "checksums")}) : Keeps(X) /\ Fades({})
PROOF
  <1> DEFINE c == CreateNew(p)
             kf == File(t, "keyops")
             tmp == WTmp(t)
             cs == File(t, "checksums")
  <1>1. /\ p \in Paths \ WholePaths /\ p # tmp /\ p # cs /\ p \notin CsPaths /\ kf \in WFiles(t)
        /\ WFiles(t) \subseteq Paths /\ tmp \in Paths /\ cs \in Paths
        /\ CsPaths \subseteq Paths
    BY WPaths, CsPath
  <1>2. entries[p] = None /\ NewFile(p)
    BY CallParts DEF Do, DoCreateNew
  <1>3. /\ DiskInv' /\ Keeps({p}) /\ Fades({}) /\ disk_entries' = disk_entries
        /\ entries'[p] # None /\ Private(p)'
    BY <1>1, <1>2, NewFileCall DEF StateInv
  <1>4. /\ \A q \in WFiles(t) \union {tmp} :
             /\ c # Write(q, t) /\ c # SyncFile(q) /\ c # OpenTruncate(q)
             /\ q # p => c # CreateNew(q)
        /\ c # WRename(t) /\ c # SyncDir("active")
    BY CallParts DEF WRename
  <1> HIDE DEF c, kf, tmp, cs
  <1>5. \A b : b \in Rem <=> b = c \/ b \in Rem'
    BY DEF Makes, c
  <1>6. \A q \in Paths : q # p => (Has(q, t)' <=> Has(q, t)) /\ entries'[q] = entries[q]
    BY <1>3, HasKept
  <1>7. CreateNew(kf) \in Rem' => entries'[kf] = None
    BY <1>1, <1>5, <1>6 DEF Written, Makes, c, kf
  <1>8. ASSUME NEW q \in WFiles(t) PROVE Write(q, t) \in Rem' \/ Has(q, t)'
    <2>1. ~Has(p, t)
      BY <1>2 DEF Has
    <2>2. Write(q, t) \in Rem \/ Has(q, t)
      BY DEF Written
    <2> QED BY <1>1, <1>4, <1>5, <1>6, <2>1, <2>2
  <1>9. ASSUME NEW q \in WFiles(t), Write(q, t) \in Rem'
        PROVE  CreateNew(q) \in Rem' \/ (entries'[q] # None /\ Private(q)')
    <2>1. CASE q = p
      BY <1>3, <2>1
    <2>2. CASE q # p
      <3>1. CreateNew(q) \in Rem \/ (entries[q] # None /\ Private(q))
        BY <1>5, <1>9 DEF Written
      <3>2. entries'[p] # entries[q]
        BY <1>1, <1>3, <1>6, <2>2 DEF Private
      <3>3. Private(q) => Private(q)'
        BY <1>1, <1>3, <2>2, <3>2, PrivateKept
      <3> QED BY <1>1, <1>4, <1>5, <1>6, <2>2, <3>1, <3>3
    <2> QED BY <2>1, <2>2
  <1>10. WRename(t) \in Rem' \/ Has(cs, t)'
    BY <1>1, <1>4, <1>5, <1>6 DEF Written, cs
  <1>11. WRename(t) \in Rem' => Write(tmp, t) \in Rem' \/ Has(tmp, t)'
    BY <1>1, <1>4, <1>5, <1>6 DEF Written, tmp
  <1>12. Write(tmp, t) \in Rem' => OpenTruncate(tmp) \in Rem' \/ entries'[tmp] # None
    BY <1>1, <1>4, <1>5, <1>6 DEF Written, tmp
  <1>13. WRename(t) \in Rem' => \A q \in CsPaths : ~Has(q, t)'
    BY <1>1, <1>5, <1>6 DEF Written
  <1>14. ASSUME NEW i \in Inodes, data'[i] = t, disk_data'[i] # t
         PROVE  \E q \in WFiles(t) \union {tmp} : entries'[q] = i /\ SyncFile(q) \in Rem'
    <2>1. data[i] = t /\ disk_data[i] # t
      BY <1>3, <1>14, MarkFacts DEF Fades
    <2>2. PICK q \in WFiles(t) \union {tmp} : entries[q] = i /\ SyncFile(q) \in Rem
      BY <2>1 DEF Written, tmp
    <2>3. q # p
      BY <1>2, <2>2, MarkFacts
    <2> QED BY <1>1, <1>4, <1>5, <1>6, <2>2, <2>3
  <1>15. task'.todo # <<>>
    BY <1>4 DEF Makes, c
  <1>16. Written(t)'
    BY <1>7, <1>8, <1>9, <1>10, <1>11, <1>12, <1>13, <1>14, <1>15
       DEF Written, kf, cs, tmp
  <1> QED BY <1>3, <1>16

\* Writing a file of the run keeps the writing on its way.
LEMMA WWrite ==
  ASSUME StateInv, NEW t \in Tags, Written(t), NEW p \in WFiles(t) \union {WTmp(t)},
         Makes(t, Write(p, t)), Do(Write(p, t))
  PROVE  /\ Written(t)' /\ DiskInv' /\ data'[entries[p]] = t
         /\ Keeps({p}) /\ Fades({p})
PROOF
  <1> DEFINE c == Write(p, t)
             kf == File(t, "keyops")
             tmp == WTmp(t)
             cs == File(t, "checksums")
  <1>1. /\ p \in Paths \ WholePaths /\ p # cs /\ p \notin CsPaths /\ kf \in WFiles(t)
        /\ WFiles(t) \subseteq Paths /\ tmp \in Paths /\ cs \in Paths /\ tmp \notin WFiles(t)
        /\ CsPaths \subseteq Paths /\ t \in ClassOf(p) /\ t # Torn
    BY WPaths, CsPath, MarkFacts
  <1>2. /\ \A q \in WFiles(t) \union {tmp} :
             /\ c # CreateNew(q) /\ c # SyncFile(q) /\ c # OpenTruncate(q)
             /\ q # p => c # Write(q, t)
        /\ c # WRename(t) /\ c # SyncDir("active")
    BY CallParts DEF WRename
  <1> HIDE DEF c, kf, tmp, cs
  <1>3. \A b : b \in Rem <=> b = c \/ b \in Rem'
    BY DEF Makes, c
  <1>4. SyncFile(p) \in Rem' /\ WRename(t) \in Rem'
    BY DEF Makes, c
  <1>5. entries[p] # None /\ Private(p)
    <2>1. CASE p \in WFiles(t)
      <3>1. CreateNew(p) \notin Rem
        BY <1>2, <1>3, <2>1 DEF Makes, c
      <3> QED BY <1>3, <2>1, <3>1 DEF Written, c
    <2>2. CASE p = tmp
      <3>1. OpenTruncate(tmp) \notin Rem
        BY <1>2, <1>3, <2>2 DEF Makes, c, tmp
      <3>2. entries[tmp] # None
        BY <1>3, <2>2, <3>1 DEF Written, c, tmp
      <3> QED BY <2>2, <3>2, WPaths DEF StateInv, DiskInv, TmpApart, tmp, WTmp
    <2> QED BY <2>1, <2>2 DEF tmp
  <1>6. \A q \in CsPaths : entries[q] # None => data[entries[q]] # t
    BY <1>3, <1>4 DEF Written, Has
  <1>7. /\ DiskInv' /\ Keeps({p}) /\ Fades({p}) /\ disk_entries' = disk_entries
        /\ entries' = entries /\ data'[entries[p]] = t /\ Private(p)'
    BY <1>1, <1>5, <1>6, WriteCall DEF StateInv
  <1>8. \A q \in Paths : q # p => (Has(q, t)' <=> Has(q, t))
    BY <1>7, HasKept
  <1>9. Has(p, t)'
    BY <1>5, <1>7 DEF Has
  <1>10. CreateNew(kf) \in Rem' => entries'[kf] = None
    BY <1>3, <1>7 DEF Written, kf
  <1>11. ASSUME NEW q \in WFiles(t) PROVE Write(q, t) \in Rem' \/ Has(q, t)'
    BY <1>1, <1>2, <1>3, <1>8, <1>9 DEF Written
  <1>12. ASSUME NEW q \in WFiles(t), Write(q, t) \in Rem'
         PROVE  CreateNew(q) \in Rem' \/ (entries'[q] # None /\ Private(q)')
    <2>1. CreateNew(q) \in Rem \/ (entries[q] # None /\ Private(q))
      BY <1>3, <1>12 DEF Written
    <2>2. Private(q) => Private(q)'
      BY <1>7 DEF Private
    <2> QED BY <1>2, <1>3, <1>7, <2>1, <2>2
  <1>13. WRename(t) \in Rem' => Write(tmp, t) \in Rem' \/ Has(tmp, t)'
    <2>1. CASE p = tmp
      BY <1>9, <2>1
    <2>2. CASE p # tmp
      BY <1>1, <1>2, <1>3, <1>8, <2>2 DEF Written, tmp
    <2> QED BY <2>1, <2>2
  <1>14. Write(tmp, t) \in Rem' => OpenTruncate(tmp) \in Rem' \/ entries'[tmp] # None
    BY <1>2, <1>3, <1>7 DEF Written, tmp
  <1>15. \A q \in CsPaths : ~Has(q, t)'
    BY <1>1, <1>6, <1>8 DEF Has
  <1>16. ASSUME NEW i \in Inodes, data'[i] = t, disk_data'[i] # t
         PROVE  \E q \in WFiles(t) \union {tmp} : entries'[q] = i /\ SyncFile(q) \in Rem'
    <2>1. CASE i = entries[p]
      BY <1>4, <1>7, <2>1 DEF tmp
    <2>2. CASE i # entries[p]
      <3>1. data[i] = t /\ disk_data[i] # t
        BY <1>7, <1>1, <1>16, <2>2 DEF Fades
      <3>2. PICK q \in WFiles(t) \union {tmp} : entries[q] = i /\ SyncFile(q) \in Rem
        BY <3>1 DEF Written, tmp
      <3> QED BY <1>2, <1>3, <1>7, <3>2
    <2> QED BY <2>1, <2>2
  <1>17. task'.todo # <<>>
    BY <1>2 DEF Makes, c
  <1>18. Written(t)'
    BY <1>4, <1>10, <1>11, <1>12, <1>13, <1>14, <1>15, <1>16, <1>17
       DEF Written, kf, cs, tmp
  <1> QED BY <1>7, <1>18

\* Syncing a file of the run keeps the writing on its way.
LEMMA WSync ==
  ASSUME StateInv, NEW t \in Tags, Written(t), NEW p \in WFiles(t) \union {WTmp(t)},
         Makes(t, SyncFile(p)), Do(SyncFile(p))
  PROVE  Written(t)' /\ DiskInv' /\ Keeps({}) /\ Fades({})
PROOF
  <1> DEFINE c == SyncFile(p)
             kf == File(t, "keyops")
             tmp == WTmp(t)
             cs == File(t, "checksums")
  <1>1. /\ p \in Paths /\ kf \in WFiles(t)
        /\ WFiles(t) \subseteq Paths /\ tmp \in Paths /\ cs \in Paths
        /\ CsPaths \subseteq Paths /\ t # Torn
    BY WPaths, CsPath, MarkFacts
  <1>2. /\ \A q \in WFiles(t) \union {tmp} :
             /\ c # CreateNew(q) /\ c # Write(q, t) /\ c # OpenTruncate(q)
             /\ q # p => c # SyncFile(q)
        /\ c # WRename(t) /\ c # SyncDir("active")
    BY CallParts DEF WRename
  <1> HIDE DEF c, kf, tmp, cs
  <1>3. \A b : b \in Rem <=> b = c \/ b \in Rem'
    BY DEF Makes, c
  <1>4. /\ DiskInv' /\ Keeps({}) /\ Fades({}) /\ entries' = entries /\ disk_entries' = disk_entries
        /\ entries[p] # None => disk_data'[entries[p]] = data[entries[p]]
    BY <1>1, SyncCall DEF StateInv
  <1>5. \A q \in Paths : Has(q, t)' <=> Has(q, t)
    BY <1>4, HasKept
  <1>6. \A q \in Paths : Private(q)' <=> Private(q)
    BY <1>4 DEF Private
  <1>7. CreateNew(kf) \in Rem' => entries'[kf] = None
    BY <1>3, <1>4 DEF Written, kf
  <1>8. ASSUME NEW q \in WFiles(t)
        PROVE  /\ Write(q, t) \in Rem' \/ Has(q, t)'
               /\ Write(q, t) \in Rem' => CreateNew(q) \in Rem' \/ (entries'[q] # None /\ Private(q)')
    BY <1>1, <1>2, <1>3, <1>4, <1>5, <1>6 DEF Written
  <1>9. /\ WRename(t) \in Rem' \/ Has(cs, t)'
        /\ WRename(t) \in Rem' => Write(tmp, t) \in Rem' \/ Has(tmp, t)'
        /\ Write(tmp, t) \in Rem' => OpenTruncate(tmp) \in Rem' \/ entries'[tmp] # None
        /\ WRename(t) \in Rem' => \A q \in CsPaths : ~Has(q, t)'
    BY <1>1, <1>2, <1>3, <1>4, <1>5 DEF Written, cs, tmp
  <1>10. ASSUME NEW i \in Inodes, data'[i] = t, disk_data'[i] # t
         PROVE  \E q \in WFiles(t) \union {tmp} : entries'[q] = i /\ SyncFile(q) \in Rem'
    <2>1. data[i] = t /\ disk_data[i] # t
      BY <1>1, <1>4, <1>10 DEF Fades
    <2>2. PICK q \in WFiles(t) \union {tmp} : entries[q] = i /\ SyncFile(q) \in Rem
      BY <2>1 DEF Written, tmp
    <2>3. q # p
      BY <1>4, <1>10, <2>1, <2>2, MarkFacts
    <2> QED BY <1>2, <1>3, <1>4, <2>2, <2>3
  <1>11. task'.todo # <<>>
    BY <1>2 DEF Makes, c
  <1>12. Written(t)'
    BY <1>7, <1>8, <1>9, <1>10, <1>11 DEF Written, kf, cs, tmp
  <1> QED BY <1>4, <1>12

\* Opening the temporary checksums file keeps the writing on its way.
LEMMA WTruncate ==
  ASSUME StateInv, NEW t \in Tags, Written(t), Makes(t, OpenTruncate(WTmp(t))),
         Do(OpenTruncate(WTmp(t)))
  PROVE  Written(t)' /\ DiskInv' /\ Keeps({WTmp(t)}) /\ Fades({})
PROOF
  <1> DEFINE tmp == WTmp(t)
             c == OpenTruncate(tmp)
             kf == File(t, "keyops")
             cs == File(t, "checksums")
  <1>1. /\ tmp \in Paths \ WholePaths /\ kf \in WFiles(t) /\ tmp # cs /\ tmp \notin CsPaths
        /\ WFiles(t) \subseteq Paths /\ cs \in Paths /\ tmp \notin WFiles(t)
        /\ CsPaths \subseteq Paths /\ t # Torn
    BY WPaths, CsPath, MarkFacts
  <1>2. /\ \A q \in WFiles(t) \union {tmp} : c # CreateNew(q) /\ c # Write(q, t) /\ c # SyncFile(q)
        /\ c # WRename(t) /\ c # SyncDir("active")
    BY CallParts DEF WRename
  <1>3. IF entries[tmp] = None THEN NewFile(tmp) ELSE Truncate(tmp)
    BY CallParts DEF Do
  <1>4. Write(tmp, t) \in Rem'
    BY DEF Makes
  <1> HIDE DEF c, kf, cs, tmp
  <1>5. \A b : b \in Rem <=> b = c \/ b \in Rem'
    BY DEF Makes, c, tmp
  <1>6. /\ DiskInv' /\ Keeps({tmp}) /\ Fades({}) /\ disk_entries' = disk_entries
        /\ entries'[tmp] # None /\ Private(tmp)'
        /\ entries[tmp] # None => entries'[tmp] = entries[tmp]
    <2>1. CASE entries[tmp] = None
      BY <1>1, <1>3, <2>1, NewFileCall DEF StateInv
    <2>2. CASE entries[tmp] # None
      <3>1. Private(tmp)
        BY <2>2, WPaths DEF StateInv, DiskInv, TmpApart, tmp, WTmp
      <3> QED BY <1>1, <1>3, <2>2, <3>1, TruncateCall DEF StateInv
    <2> QED BY <2>1, <2>2
  <1>7. \A q \in Paths : q # tmp => (Has(q, t)' <=> Has(q, t)) /\ entries'[q] = entries[q]
    BY <1>6, HasKept
  <1>8. CreateNew(kf) \in Rem' => entries'[kf] = None
    BY <1>1, <1>5, <1>7 DEF Written, kf
  <1>9. ASSUME NEW q \in WFiles(t)
        PROVE  /\ Write(q, t) \in Rem' \/ Has(q, t)'
               /\ Write(q, t) \in Rem' => CreateNew(q) \in Rem' \/ (entries'[q] # None /\ Private(q)')
    <2>1. Private(q) => Private(q)'
      BY <1>1, <1>6, <1>7, PrivateKept DEF Private
    <2> QED BY <1>1, <1>2, <1>5, <1>7, <2>1 DEF Written
  <1>10. /\ WRename(t) \in Rem' \/ Has(cs, t)'
         /\ WRename(t) \in Rem' => \A q \in CsPaths : ~Has(q, t)'
    BY <1>1, <1>2, <1>5, <1>7 DEF Written, cs
  <1>11. ASSUME NEW i \in Inodes, data'[i] = t, disk_data'[i] # t
         PROVE  \E q \in WFiles(t) \union {tmp} : entries'[q] = i /\ SyncFile(q) \in Rem'
    <2>1. data[i] = t /\ disk_data[i] # t
      BY <1>1, <1>6, <1>11 DEF Fades
    <2>2. PICK q \in WFiles(t) \union {tmp} : entries[q] = i /\ SyncFile(q) \in Rem
      BY <2>1 DEF Written, tmp
    <2>3. entries'[q] = entries[q]
      BY <1>1, <1>6, <1>7, <2>2, MarkFacts
    <2> QED BY <1>2, <1>5, <2>2, <2>3
  <1>12. task'.todo # <<>>
    BY <1>2 DEF Makes, c, tmp
  <1>13. Written(t)'
    BY <1>4, <1>6, <1>8, <1>9, <1>10, <1>11, <1>12 DEF Written, kf, cs, tmp
  <1> QED BY <1>6, <1>13 DEF tmp

\* Renaming the temporary checksums file keeps the writing on its way.
LEMMA WCommit ==
  ASSUME StateInv, NEW t \in Tags, Written(t), Makes(t, WRename(t)), Do(WRename(t))
  PROVE  /\ Written(t)' /\ DiskInv' /\ Fades({})
         /\ Keeps({WTmp(t), File(t, "checksums")})
PROOF
  <1> DEFINE tmp == WTmp(t)
             c == WRename(t)
             kf == File(t, "keyops")
             cs == File(t, "checksums")
  <1>1. /\ tmp \in Paths \ WholePaths /\ kf \in WFiles(t) /\ tmp # cs
        /\ WFiles(t) \subseteq Paths /\ cs \in WholePaths /\ cs \in CsPaths /\ tmp \notin WFiles(t)
        /\ cs \notin WFiles(t) /\ tmp[2] = cs[2] /\ cs = Cs("active", t.num) /\ t # Torn /\ t.num \in Runs
    BY WPaths, CsPath, MarkFacts
  <1>2. /\ \A q \in WFiles(t) : {Write(q, t), SyncFile(q), CreateNew(q)} \subseteq WCalls(t) \ {SyncDir("active")}
        /\ {Write(tmp, t), SyncFile(tmp), OpenTruncate(tmp), WRename(t)} \subseteq WCalls(t) \ {SyncDir("active")}
        /\ c # SyncDir("active")
    BY CallParts DEF WRename, WCalls
  <1>3. \A b \in WCalls(t) \ {SyncDir("active")} : b \notin Rem'
    BY DEF Makes
  <1>30. /\ \A q \in WFiles(t) \union {tmp} : c # SyncFile(q) /\ c # Write(q, t)
    BY CallParts DEF WRename
  <1> HIDE DEF c, kf, cs, tmp
  <1>4. \A b : b \in Rem <=> b = c \/ b \in Rem'
    BY DEF Makes, c
  <1>5. Has(tmp, t)
    <2>1. Write(tmp, t) \notin Rem
      BY <1>2, <1>3, <1>4, <1>30
    <2> QED BY <1>4, <2>1 DEF Written, tmp, c
  <1>6. \A i \in Inodes : data[i] = t => disk_data[i] = t
    <2>1. \A q \in WFiles(t) \union {tmp} : SyncFile(q) \notin Rem
      BY <1>2, <1>3, <1>4, <1>30
    <2> QED BY <2>1 DEF Written, tmp
  <1>7. entries[tmp] \in Inodes /\ entries[tmp] # None /\ data[entries[tmp]] = t
    BY <1>1, <1>5 DEF Has, StateInv, DiskInv, DiskTypes
  <1>8. \A r \in Runs : tmp = ChecksumsTmp(r) => cs = Cs("active", r)
    BY <1>1, TmpPath DEF tmp, WTmp
  <1>9. Do(Rename(tmp, cs))
    BY DEF WRename, tmp, cs
  <1>10. /\ DiskInv' /\ Keeps({tmp, cs}) /\ Fades({}) /\ disk_entries' = disk_entries
         /\ entries'[tmp] = None /\ entries'[cs] = entries[tmp] /\ data'[entries[tmp]] = t
    BY <1>1, <1>6, <1>7, <1>8, <1>9, RenameCall DEF StateInv
  <1>11. Has(cs, t)'
    BY <1>7, <1>10 DEF Has
  <1>12. ASSUME NEW q \in WFiles(t) PROVE Has(q, t)'
    <2>1. Write(q, t) \notin Rem
      BY <1>2, <1>3, <1>4, <1>30
    <2>2. Has(q, t)
      BY <2>1 DEF Written
    <2>3. q \in Paths \ {tmp, cs}
      BY <1>1
    <2> QED BY <1>10, <2>2, <2>3, HasKept
  <1>13. \A i \in Inodes : data'[i] = t => disk_data'[i] = t
    BY <1>1, <1>6, <1>10 DEF Fades
  <1>14. task'.todo # <<>>
    BY <1>2 DEF Makes, c
  <1>15. Written(t)'
    BY <1>1, <1>2, <1>3, <1>11, <1>12, <1>13, <1>14 DEF Written, kf, cs, tmp
  <1> QED BY <1>10, <1>15 DEF tmp, cs

\* Syncing active/ keeps the writing on its way.
LEMMA WSyncDir ==
  ASSUME StateInv, NEW t \in Tags, Written(t), Makes(t, SyncDir("active")), Do(SyncDir("active"))
  PROVE  Written(t)' /\ DiskInv' /\ Keeps({}) /\ Fades({})
PROOF
  <1> DEFINE c == SyncDir("active")
             kf == File(t, "keyops")
             tmp == WTmp(t)
             cs == File(t, "checksums")
  <1>1. /\ kf \in WFiles(t) /\ WFiles(t) \subseteq Paths /\ tmp \in Paths /\ cs \in Paths
        /\ CsPaths \subseteq Paths /\ t # Torn
    BY WPaths, CsPath, MarkFacts
  <1>2. /\ \A q \in WFiles(t) \union {tmp} :
             /\ c # CreateNew(q) /\ c # Write(q, t) /\ c # OpenTruncate(q) /\ c # SyncFile(q)
        /\ c # WRename(t)
    BY CallParts DEF WRename
  <1>3. /\ DiskInv' /\ Keeps({}) /\ Fades({}) /\ entries' = entries
        /\ \A q \in Paths : disk_entries'[q] = IF q[1] = "active" THEN entries[q] ELSE disk_entries[q]
    BY SyncDirCall DEF StateInv
  <1> HIDE DEF c, kf, tmp, cs
  <1>4. \A b : b \in Rem <=> b = c \/ b \in Rem'
    BY DEF Makes, c
  <1>5. \A q \in Paths : Has(q, t)' <=> Has(q, t)
    BY <1>3, HasKept
  <1>6. \A q \in Paths : Private(q) => Private(q)'
    BY <1>3 DEF Private
  <1>7. CreateNew(kf) \in Rem' => entries'[kf] = None
    BY <1>3, <1>4 DEF Written, kf
  <1>8. ASSUME NEW q \in WFiles(t)
        PROVE  /\ Write(q, t) \in Rem' \/ Has(q, t)'
               /\ Write(q, t) \in Rem' => CreateNew(q) \in Rem' \/ (entries'[q] # None /\ Private(q)')
    BY <1>1, <1>2, <1>3, <1>4, <1>5, <1>6 DEF Written
  <1>9. /\ WRename(t) \in Rem' \/ Has(cs, t)'
        /\ WRename(t) \in Rem' => Write(tmp, t) \in Rem' \/ Has(tmp, t)'
        /\ Write(tmp, t) \in Rem' => OpenTruncate(tmp) \in Rem' \/ entries'[tmp] # None
        /\ WRename(t) \in Rem' => \A q \in CsPaths : ~Has(q, t)'
    BY <1>1, <1>2, <1>3, <1>4, <1>5 DEF Written, cs, tmp
  <1>10. ASSUME NEW i \in Inodes, data'[i] = t, disk_data'[i] # t
         PROVE  \E q \in WFiles(t) \union {tmp} : entries'[q] = i /\ SyncFile(q) \in Rem'
    <2>1. data[i] = t /\ disk_data[i] # t
      BY <1>1, <1>3, <1>10 DEF Fades
    <2>2. PICK q \in WFiles(t) \union {tmp} : entries[q] = i /\ SyncFile(q) \in Rem
      BY <2>1 DEF Written, tmp
    <2> QED BY <1>2, <1>3, <1>4, <2>2
  <1>11. Synced("active")'
    BY <1>3 DEF Synced
  <1>12. Written(t)'
    BY <1>7, <1>8, <1>9, <1>10, <1>11 DEF Written, kf, cs, tmp
  <1> QED BY <1>3, <1>12

\* Each call of a write.
LEMMA WriteStep ==
  ASSUME FullInv, Step, task.kind = "write"
  PROVE  FullInv'
PROOF
  <1>1. PICK t : t = task.run
    OBVIOUS
  <1>2. /\ StateInv /\ t \in Tags /\ t.born = session /\ t.num = next_run_number - 1
        /\ t.num \notin NumsOf(tree) /\ task.drop \subseteq tree /\ WOrder(task.todo, t) /\ Written(t)
    BY <1>1 DEF FullInv, TaskInv, Writing
  <1>3. Goes /\ task'.todo = Tail(task.todo)
    BY <1>2, TaskRest DEF StateInv, Step, WOrder, Goes
  <1>4. PICK c : c = Head(task.todo)
    OBVIOUS
  <1>5. Makes(t, c) /\ WOrder(task.todo, t)' /\ Do(c)
    BY <1>2, <1>4, WMakes DEF Step, StateInv
  <1> DEFINE F == WFiles(t) \union {WTmp(t), File(t, "checksums")}
             Good == /\ Written(t)' /\ DiskInv'
                     /\ \E X \in SUBSET F : \E W \in SUBSET X :
                          Keeps(X) /\ Fades(W) /\ \A p \in W : data'[entries[p]] = t
  <1>12. Good
    <2>6. CASE \E p \in WFiles(t) : c = CreateNew(p)
      BY <1>2, <1>5, <2>6, WCreate
    <2>7. CASE \E p \in WFiles(t) \union {WTmp(t)} : c = Write(p, t)
      <3>1. PICK p \in WFiles(t) \union {WTmp(t)} : c = Write(p, t)
        BY <2>7
      <3>2. /\ Written(t)' /\ DiskInv' /\ data'[entries[p]] = t
            /\ Keeps({p}) /\ Fades({p})
        BY <1>2, <1>5, <3>1, WWrite
      <3> QED BY <3>2
    <2>8. CASE \E p \in WFiles(t) \union {WTmp(t)} : c = SyncFile(p)
      BY <1>2, <1>5, <2>8, WSync
    <2>9. CASE c = OpenTruncate(WTmp(t))
      <3>1. Written(t)' /\ DiskInv' /\ Keeps({WTmp(t)}) /\ Fades({})
        BY <1>2, <1>5, <2>9, WTruncate
      <3>2. {WTmp(t)} \in SUBSET F /\ {} \in SUBSET {WTmp(t)}
        OBVIOUS
      <3> HIDE DEF F
      <3> QED BY <3>1, <3>2
    <2>10. CASE c = WRename(t)
      <3>1. /\ Written(t)' /\ DiskInv' /\ Fades({})
            /\ Keeps({WTmp(t), File(t, "checksums")})
        BY <1>2, <1>5, <2>10, WCommit
      <3>2. {WTmp(t), File(t, "checksums")} \in SUBSET F /\ {} \in SUBSET {WTmp(t), File(t, "checksums")}
        OBVIOUS
      <3> HIDE DEF F
      <3> QED BY <3>1, <3>2
    <2>11. CASE c = SyncDir("active")
      BY <1>2, <1>5, <2>11, WSyncDir
    <2>12. c \in WCalls(t)
      BY <1>5 DEF Makes
    <2> QED BY <2>6, <2>7, <2>8, <2>9, <2>10, <2>11, <2>12 DEF WCalls
  <1>13. StateInv'
    <2>1. PICK X \in SUBSET F : \E W \in SUBSET X :
            Keeps(X) /\ Fades(W) /\ \A p \in W : data'[entries[p]] = t
      BY <1>12
    <2>2. PICK W \in SUBSET X : Keeps(X) /\ Fades(W) /\ \A p \in W : data'[entries[p]] = t
      BY <2>1
    <2> QED BY <1>2, <1>3, <1>12, <2>2, WRest
  <1>14. Writing(task.run)'
    <2>1. task'.run = t /\ session' = session /\ next_run_number' = next_run_number /\ tree' = tree
          /\ task'.drop = task.drop
      BY <1>1, <1>3 DEF Goes
    <2>2. Writing(t)'
      BY <1>2, <1>5, <1>12, <2>1 DEF Writing, NumsOf
    <2> QED BY <2>1, <2>2
  <1> QED BY <1>3, <1>13, <1>14 DEF FullInv, TaskInv, Goes

---------------------------------------------------------------------------
(* Saving a snapshot.                                                      *)

\* The files of a snapshot that are written, not linked.
SFiles(n) == {MetadataTmp(n), MetadataChecksum(n)}

\* The paths a snapshot is saved to.
LEMMA SPaths ==
  ASSUME NEW n \in Names, NEW R \in SUBSET Runs, NEW m, m = [runs |-> R]
  PROVE  /\ LET p == SnapshotDir(n)
            IN  p \in Paths /\ p \notin WholePaths /\ p \notin CsPaths /\ p[1] = "snapshots" /\ p # Metadata(n)
                /\ p \notin SFiles(n)
         /\ LET p == Metadata(n)
            IN  p \in WholePaths /\ p \in Paths /\ p \notin CsPaths /\ p[1] = n /\ p[2] = 0
                /\ p \notin SFiles(n)
         /\ MetadataTmp(n) # MetadataChecksum(n)
         /\ \A p \in SFiles(n) :
              /\ p \in Paths /\ p \notin WholePaths /\ p \notin CsPaths /\ p[1] = n /\ p[2] = 0
              /\ m \in ClassOf(p) /\ \A r \in Runs : p # ChecksumsTmp(r)
         /\ \A r \in R, c \in Comps :
              /\ LET p == RunFile(n, r, c)
                 IN  /\ p \in Paths /\ p[1] = n /\ p[2] = r
                     /\ p \notin SFiles(n) /\ p # Metadata(n) /\ p # SnapshotDir(n)
              /\ LET p == RunFile("active", r, c)
                 IN  /\ p \in Paths /\ p[1] = "active" /\ p[2] = r
                     /\ p \notin SFiles(n) /\ p # Metadata(n) /\ p # SnapshotDir(n)
         /\ m # Torn /\ m \notin Tags /\ n # "active" /\ n \in Dirs /\ "active" \in Dirs
         /\ n # "snapshots"
PROOF
  <1>1. 0 \notin Runs
    BY DEF Runs
  <1>2. n # "active" /\ n # "snapshots" /\ n \in Dirs /\ "active" \in Dirs
    BY NameFacts
  <1>3. m \in [runs : SUBSET Runs]
    OBVIOUS
  <1>4. m # Torn /\ m \notin Tags
    BY <1>3, MarkFacts
  <1>5. \A p \in SFiles(n) : /\ p \in Paths /\ p \notin WholePaths /\ p[1] = n /\ p[2] = 0
                             /\ p[3] \in {"metadata.tmp", "metadata.checksum"}
    BY NamePaths, WholeFacts DEF SFiles
  <1>6. \A p \in SFiles(n) : p \notin CsPaths /\ m \in ClassOf(p) /\ \A r \in Runs : p # ChecksumsTmp(r)
    <2>1. \A p \in SFiles(n) : p \notin CsPaths
      BY <1>5, WholeFacts
    <2>2. \A p \in SFiles(n) : m \in ClassOf(p)
      BY <1>1, <1>3, <1>5 DEF ClassOf
    <2>3. \A r \in Runs : ChecksumsTmp(r)[2] = r
      BY TmpPath
    <2> QED BY <1>1, <1>5, <2>1, <2>2, <2>3
  <1>7. LET p == SnapshotDir(n)
        IN  p \in Paths /\ p \notin WholePaths /\ p \notin CsPaths /\ p[1] = "snapshots" /\ p[2] = 0
    BY NamePaths, WholeFacts
  <1>8. LET p == Metadata(n)
        IN  p \in WholePaths /\ p \in Paths /\ p \notin CsPaths /\ p[1] = n /\ p[2] = 0 /\ p[3] = "metadata"
    BY NamePaths, WholeFacts
  <1>9. MetadataTmp(n) # MetadataChecksum(n)
    BY NamePaths
  <1>10. ASSUME NEW d \in {n, "active"}, NEW r \in R, NEW c \in Comps
         PROVE  LET p == RunFile(d, r, c) IN p \in Paths /\ p[1] = d /\ p[2] = r /\ p[2] # 0
    BY <1>2, RunFilePath
  <1> QED BY <1>2, <1>4, <1>5, <1>6, <1>7, <1>8, <1>9, <1>10

SMakes(n, R, m, c) ==
  /\ c \in SCalls(n, R, m) /\ Rem = {c} \union Rem'
  /\ \A p \in SFiles(n) :
       /\ c = Write(p, m) => OpenTruncate(p) \notin Rem'
       /\ c = OpenTruncate(p) => OpenTruncate(p) \notin Rem'
  /\ c = Write(MetadataTmp(n), m) => SyncFile(MetadataTmp(n)) \in Rem'
  /\ Write(MetadataTmp(n), m) \in Rem' => SyncFile(MetadataTmp(n)) \in Rem'
  /\ c = MRename(n) =>
       \A b \in {Write(MetadataTmp(n), m), SyncFile(MetadataTmp(n)), MRename(n)} : b \notin Rem'
  /\ task'.todo = <<>> => c = SyncDir(n)

\* The next call of a save, and the order of those after it.
LEMMA SMakesIt ==
  ASSUME NEW n, NEW R, NEW m, SOrder(task.todo, n, R, m), task.todo # <<>>,
         TaskTypes, task' = [task EXCEPT !.todo = Tail(@)]
  PROVE  SMakes(n, R, m, Head(task.todo)) /\ SOrder(task'.todo, n, R, m)
PROOF
  <1> DEFINE s == task.todo
  <1>1. s \in Seq(SCalls(n, R, m)) /\ s # <<>>
    BY DEF SOrder
  <1>2. task'.todo = Tail(s) /\ Rem = {Head(s)} \union Rem' /\ Head(s) \in SCalls(n, R, m)
    BY <1>1, TaskRest
  <1>3. /\ Tail(s) \in Seq(SCalls(n, R, m))
        /\ \A x, y : Never(s, x, y) =>
             Never(Tail(s), x, y) /\ (Head(s) = x => y \notin Range(Tail(s)))
        /\ \A x, y : Later(s, x, y) =>
             Later(Tail(s), x, y) /\ (Head(s) = x => y \in Range(Tail(s)))
        /\ \A y : EndsWith(s, y) =>
             EndsWith(Tail(s), y) /\ (Tail(s) = <<>> => Head(s) = y)
    BY <1>1, TailOrder
  <1>4. SOrder(Tail(s), n, R, m)
    BY <1>3 DEF SOrder
  <1>5. \A x, y : Later(Tail(s), x, y) /\ x \in Range(Tail(s)) => y \in Range(Tail(s))
    BY DEF Later, Range
  <1>6. SMakes(n, R, m, Head(s))
    BY <1>2, <1>3, <1>4, <1>5 DEF SOrder, SMakes, Rem, SFiles
  <1> QED BY <1>2, <1>4, <1>6

\* What a step of a save leaves to show once its own progress is kept.
LEMMA SRest ==
  ASSUME StateInv, NEW n \in Names, saved[n] # None, ~saved[n].done, Goes,
         NEW X, NEW W, Keeps(X), Fades(W), DiskInv',
         \A x \in X : x[1] = n \/ x = SnapshotDir(n),
         \A p \in W : data'[entries[p]] \notin Tags
  PROVE  StateInv'
PROOF
  <1>1. \A x \in X : x[1] # "active"
    BY NamePaths, NameFacts
  <1>2. \A x \in X : \A r \in Runs : x # RunFile("active", r, "keyops")
    BY <1>1, RunFilePath, CsPath, NameFacts
  <1>3. SparesSaved(X)
    BY DEF SparesSaved
  <1> QED BY <1>1, <1>2, <1>3, GoesMoves, MoveRest

\* A step that makes the call c and touches the files X: the files that it is not
\* about are as they were.
SparesLinks(n, R, m, c, X) ==
  /\ c # SyncDir(n) \/ Synced(n)'
  /\ (c # CreateNew(SnapshotDir(n)) /\ SnapshotDir(n) \notin X) \/ entries'[SnapshotDir(n)] # None
  /\ \A r \in R, k \in Comps :
       /\ RunFile("active", r, k) \notin X
       /\ \/ c # SLink(n, r, k) /\ RunFile(n, r, k) \notin X
          \/ entries'[RunFile(n, r, k)] = entries'[RunFile("active", r, k)]
  /\ (c # MRename(n) /\ Metadata(n) \notin X) \/ Has(Metadata(n), m)'

\* A call that spares the links made so far keeps them.
LEMMA SKeep ==
  ASSUME NEW n \in Names, NEW R \in SUBSET Runs, NEW m, m = [runs |-> R], Linked(n, R, m),
         NEW c, SMakes(n, R, m, c), NEW X, Keeps(X), SparesLinks(n, R, m, c, X)
  PROVE  Linked(n, R, m)'
PROOF
  <1>1. \A b : b \in Rem <=> b = c \/ b \in Rem'
    BY DEF SMakes
  <1>2. \A q \in Paths \ X : entries'[q] = entries[q] /\ (Has(q, m)' <=> Has(q, m))
    BY HasKept
  <1>3. task'.todo = <<>> => Synced(n)'
    BY DEF SMakes, SparesLinks
  <1>4. CreateNew(SnapshotDir(n)) \in Rem' \/ entries'[SnapshotDir(n)] # None
    BY <1>1, <1>2, SPaths DEF Linked, SparesLinks
  <1>5. ASSUME NEW r \in R, NEW k \in Comps
        PROVE  SLink(n, r, k) \in Rem' \/ entries'[RunFile(n, r, k)] = entries'[RunFile("active", r, k)]
    <2>1. RunFile(n, r, k) \in Paths /\ RunFile("active", r, k) \in Paths
      BY SPaths
    <2>2. SLink(n, r, k) \in Rem \/ entries[RunFile(n, r, k)] = entries[RunFile("active", r, k)]
      BY DEF Linked
    <2> QED BY <1>1, <1>2, <2>1, <2>2 DEF SparesLinks
  <1>6. MRename(n) \in Rem' \/ Has(Metadata(n), m)'
    <2>1. MRename(n) \in Rem \/ Has(Metadata(n), m)
      BY DEF Linked
    <2>2. Metadata(n) \in Paths
      BY SPaths
    <2> QED BY <1>1, <1>2, <2>1, <2>2 DEF SparesLinks
  <1> QED BY <1>3, <1>4, <1>5, <1>6 DEF Linked

\* The same of the files that are written, when the call is not about them.
SparesFiles(n, m, c, X) ==
  /\ X \intersect SFiles(n) = {}
  /\ \A p \in SFiles(n) : c # Write(p, m) /\ c # OpenTruncate(p)
  /\ c = SyncFile(MetadataTmp(n)) =>
       (entries'[MetadataTmp(n)] # None =>
          disk_data'[entries'[MetadataTmp(n)]] = data'[entries'[MetadataTmp(n)]])
  /\ \A p \in SFiles(n) : Private(p) /\ entries[p] # None => \A x \in X : entries'[x] # entries[p]

\* A call that spares the metadata files keeps what is in them.
LEMMA SKeepFiles ==
  ASSUME NEW n \in Names, NEW R \in SUBSET Runs, NEW m, m = [runs |-> R], Described(n, m),
         NEW c, SMakes(n, R, m, c), NEW X, Keeps(X), SparesFiles(n, m, c, X)
  PROVE  Described(n, m)'
PROOF
  <1> DEFINE tmp == MetadataTmp(n)
             mc == MetadataChecksum(n)
  <1>1. \A b : b \in Rem <=> b = c \/ b \in Rem'
    BY DEF SMakes
  <1>2. \A q \in Paths \ X : entries'[q] = entries[q] /\ (Has(q, m)' <=> Has(q, m))
    BY HasKept
  <1>3. \A p \in SFiles(n) : p \in Paths \ X
    BY SPaths DEF SparesFiles
  <1>4. tmp \in SFiles(n) /\ mc \in SFiles(n) /\ SFiles(n) = {tmp, mc}
    BY DEF SFiles
  <1> HIDE DEF tmp, mc
  <1>5. MRename(n) \in Rem' => Write(tmp, m) \in Rem' \/ Has(tmp, m)'
    BY <1>1, <1>2, <1>3, <1>4 DEF Described, tmp, SparesFiles
  <1>6. MRename(n) \in Rem' =>
              SyncFile(tmp) \in Rem' \/ (entries'[tmp] # None => disk_data'[entries'[tmp]] = data'[entries'[tmp]])
    <2> SUFFICES ASSUME MRename(n) \in Rem', SyncFile(tmp) \notin Rem', entries'[tmp] # None
                 PROVE  disk_data'[entries'[tmp]] = data'[entries'[tmp]]
      OBVIOUS
    <2>1. CASE c = SyncFile(tmp)
      BY <2>1 DEF tmp, SparesFiles
    <2>2. CASE c # SyncFile(tmp)
      <3>1. disk_data[entries[tmp]] = data[entries[tmp]] /\ entries'[tmp] = entries[tmp] /\ entries[tmp] # None
        BY <1>1, <1>2, <1>3, <1>4, <2>2 DEF Described, tmp
      <3>2. data'[entries[tmp]] = data[entries[tmp]]
            /\ disk_data'[entries[tmp]] \in {disk_data[entries[tmp]], data[entries[tmp]]}
        BY <1>3, <1>4, <3>1 DEF Keeps
      <3> QED BY <3>1, <3>2
    <2> QED BY <2>1, <2>2
  <1>7. Write(mc, m) \in Rem' \/ Has(mc, m)'
    BY <1>1, <1>2, <1>3, <1>4 DEF Described, mc, SparesFiles
  <1>8. ASSUME NEW p \in SFiles(n)
        PROVE  /\ OpenTruncate(p) \in Rem' => entries'[p] = None
               /\ Write(p, m) \in Rem' => OpenTruncate(p) \in Rem' \/ (entries'[p] # None /\ Private(p)')
    <2>1. /\ OpenTruncate(p) \in Rem => entries[p] = None
          /\ Write(p, m) \in Rem => OpenTruncate(p) \in Rem \/ (entries[p] # None /\ Private(p))
      BY <1>4 DEF Described, tmp, mc
    <2>2. entries[p] # None /\ Private(p) => Private(p)'
      BY <1>3, PrivateKept DEF SparesFiles
    <2> QED BY <1>1, <1>2, <1>3, <2>1, <2>2 DEF SparesFiles
  <1> QED BY <1>4, <1>5, <1>6, <1>7, <1>8 DEF tmp, mc, Described

\* The calls of a save are not each other.
LEMMA SCallsApart ==
  ASSUME NEW n \in Names, NEW m
  PROVE  /\ \A p, q : /\ CreateNew(p) # SyncDir(q) /\ CreateNew(p) # OpenTruncate(q)
                      /\ CreateNew(p) # SyncFile(q) /\ CreateNew(p) # Write(q, m)
                      /\ OpenTruncate(p) # SyncDir(q) /\ OpenTruncate(p) # SyncFile(q)
                      /\ OpenTruncate(p) # Write(q, m) /\ Write(p, m) # SyncFile(q)
                      /\ Write(p, m) # SyncDir(q) /\ SyncFile(p) # SyncDir(q)
                      /\ CreateNew(p) # MRename(n) /\ OpenTruncate(p) # MRename(n)
                      /\ Write(p, m) # MRename(n) /\ SyncFile(p) # MRename(n) /\ SyncDir(p) # MRename(n)
                      /\ p # q => OpenTruncate(p) # OpenTruncate(q) /\ Write(p, m) # Write(q, m)
         /\ \A r, c : /\ SLink(n, r, c) # MRename(n)
                      /\ \A p : /\ SLink(n, r, c) # CreateNew(p) /\ SLink(n, r, c) # OpenTruncate(p)
                                /\ SLink(n, r, c) # Write(p, m) /\ SLink(n, r, c) # SyncFile(p)
                                /\ SLink(n, r, c) # SyncDir(p)
PROOF BY CallParts DEF MRename, SLink

\* A step of a save.
SStep(n, R, m, c) ==
  /\ StateInv /\ n \in Names /\ R \in SUBSET Runs /\ m = [runs |-> R]
  /\ Done(n, R, m) /\ SMakes(n, R, m, c) /\ Do(c)
  /\ R = NumsOf(tree)

\* What it is to show of it.
STouches(n, X, W) ==
  /\ Keeps(X) /\ Fades(W)
  /\ \A x \in X : x[1] = n \/ x = SnapshotDir(n)
  /\ \A p \in W : data'[entries[p]] \notin Tags
SGood(n, R, m) == Done(n, R, m)' /\ DiskInv' /\ \E X, W : STouches(n, X, W)

\* Creating the snapshot's directory keeps the save on its way.
LEMMA SCreate ==
  ASSUME NEW n, NEW R, NEW m, SStep(n, R, m, CreateNew(SnapshotDir(n)))
  PROVE  SGood(n, R, m)
PROOF
  <1> DEFINE p == SnapshotDir(n)
             c == CreateNew(p)
  <1>1. n \in Names /\ R \in SUBSET Runs /\ m = [runs |-> R]
    BY DEF SStep
  <1>2. p \in Paths \ WholePaths /\ NewFile(p) /\ DiskInv
    BY <1>1, SPaths, CallParts DEF SStep, StateInv, Do, DoCreateNew
  <1>3. /\ DiskInv' /\ Keeps({p}) /\ Fades({})
        /\ entries'[p] # None /\ Private(p)'
    BY <1>2, NewFileCall
  <1>4. /\ \A q : c # OpenTruncate(q) /\ c # Write(q, m) /\ c # SyncFile(q) /\ c # SyncDir(q)
        /\ c # MRename(n) /\ \A r, k : c # SLink(n, r, k)
    BY <1>1, SCallsApart
  <1>5. Linked(n, R, m) /\ Described(n, m) /\ SMakes(n, R, m, c)
    BY DEF SStep, Done
  <1> HIDE DEF c
  <1>6. SparesLinks(n, R, m, c, {p})
    <2>1. /\ p # Metadata(n)
          /\ \A r \in R, k \in Comps : RunFile(n, r, k) # p /\ RunFile("active", r, k) # p
      BY <1>1, SPaths
    <2> HIDE DEF p
    <2>2. p = SnapshotDir(n)
      BY DEF p
    <2> QED BY <1>3, <1>4, <2>1, <2>2 DEF SparesLinks
  <1>7. \A q \in SFiles(n) : q \in Paths /\ q # p /\ c # OpenTruncate(q)
    BY <1>1, <1>4, SPaths
  <1>8. \A q \in SFiles(n) : Private(q) /\ entries[q] # None => entries'[p] # entries[q]
    <2>1. \A q \in SFiles(n) : entries'[q] = entries[q]
      BY <1>3, <1>7, HasKept
    <2> QED BY <1>2, <1>3, <1>7, <2>1 DEF Private
  <1>9. SparesFiles(n, m, c, {p})
    <2> HIDE DEF p
    <2> QED BY <1>4, <1>7, <1>8 DEF SparesFiles
  <1>10. Done(n, R, m)'
    BY <1>1, <1>3, <1>5, <1>6, <1>9, SKeep, SKeepFiles DEF Done
  <1>11. \A x \in {p} : x[1] = n \/ x = SnapshotDir(n)
    OBVIOUS
  <1> QED BY <1>3, <1>10, <1>11 DEF SGood, STouches

\* Syncing the snapshot's directory keeps the save on its way.
LEMMA SSyncDir ==
  ASSUME NEW n, NEW R, NEW m, SStep(n, R, m, SyncDir(n))
  PROVE  SGood(n, R, m)
PROOF
  <1> DEFINE c == SyncDir(n)
  <1>1. n \in Names /\ R \in SUBSET Runs /\ m = [runs |-> R]
    BY DEF SStep
  <1>2. /\ DiskInv' /\ Keeps({}) /\ Fades({}) /\ entries' = entries
        /\ \A p \in Paths : disk_entries'[p] = IF p[1] = n THEN entries[p] ELSE disk_entries[p]
    BY SyncDirCall DEF SStep, StateInv
  <1>3. Synced(n)'
    BY <1>2 DEF Synced
  <1>4. /\ \A q : c # OpenTruncate(q) /\ c # Write(q, m) /\ c # SyncFile(q) /\ c # CreateNew(q)
        /\ c # MRename(n) /\ \A r, k : c # SLink(n, r, k)
    BY <1>1, SCallsApart
  <1>5. Linked(n, R, m) /\ Described(n, m) /\ SMakes(n, R, m, c)
    BY DEF SStep, Done
  <1> HIDE DEF c
  <1>6. SparesLinks(n, R, m, c, {})
    BY <1>3, <1>4 DEF SparesLinks
  <1>9. SparesFiles(n, m, c, {})
    BY <1>4 DEF SparesFiles
  <1>10. Done(n, R, m)'
    BY <1>1, <1>2, <1>5, <1>6, <1>9, SKeep, SKeepFiles DEF Done
  <1> QED BY <1>2, <1>10 DEF SGood, STouches

\* Linking a file of a run keeps the save on its way.
LEMMA SLinkCall ==
  ASSUME NEW n, NEW R, NEW m, NEW r \in R, NEW k \in Comps, SStep(n, R, m, SLink(n, r, k))
  PROVE  SGood(n, R, m)
PROOF
  <1> DEFINE p == RunFile("active", r, k)
             q == RunFile(n, r, k)
             c == SLink(n, r, k)
  <1>1. n \in Names /\ R \in SUBSET Runs /\ m = [runs |-> R] /\ r \in Runs
    BY DEF SStep
  <1>2. entries[p] = disk_entries[p]
    <2>1. PICK t \in tree : r = t.num
      BY DEF SStep, NumsOf
    <2>2. p \in RunFiles("active", t.num)
      BY <2>1 DEF RunFiles, Comps
    <2> QED BY <2>1, <2>2 DEF SStep, StateInv, TreeHeld, Settled, Held
  <1>3. /\ DiskInv' /\ Keeps({q}) /\ Fades({})
        /\ entries[p] # None /\ entries[q] = None /\ entries'[q] = entries[p]
    <2>1. DiskInv /\ Do(Link(p, q))
      BY DEF SStep, StateInv, SLink
    <2>2. n \in Dirs /\ "active" \in Dirs /\ n # "active"
      BY <1>1, SPaths
    <2> QED BY <1>1, <1>2, <2>1, <2>2, LinkCall
  <1>4. /\ \A x : c # OpenTruncate(x) /\ c # Write(x, m) /\ c # SyncFile(x) /\ c # CreateNew(x) /\ c # SyncDir(x)
        /\ c # MRename(n)
    BY <1>1, SCallsApart
  <1>5. Linked(n, R, m) /\ Described(n, m) /\ SMakes(n, R, m, c)
    BY DEF SStep, Done
  <1>6. /\ p \in Paths /\ q \in Paths /\ p # q /\ q # SnapshotDir(n) /\ q # Metadata(n) /\ q \notin SFiles(n)
        /\ p \notin SFiles(n) /\ q[1] = n
        /\ \A s \in R, j \in Comps :
             /\ RunFile("active", s, j) # q /\ RunFile(n, s, j) \in Paths
             /\ RunFile(n, s, j) = q => s = r /\ j = k
             /\ SLink(n, s, j) = c => s = r /\ j = k
    <2>1. /\ q # SnapshotDir(n) /\ q # Metadata(n) /\ q \notin SFiles(n)
          /\ p \notin SFiles(n) /\ n # "active"
      BY <1>1, SPaths
    <2>2. \A s \in R, j \in Comps :
             /\ LET x == RunFile("active", s, j)
                IN  x \in Paths /\ x[1] = "active" /\ x[2] = s /\ x[3] = j
             /\ LET x == RunFile(n, s, j)
                IN  x \in Paths /\ x[1] = n /\ x[2] = s /\ x[3] = j
      BY <1>1, RunFilePath, NameFacts
    <2>3. \A s, j : SLink(n, s, j).path = RunFile("active", s, j)
      BY CallParts DEF SLink
    <2> QED BY <2>1, <2>2, <2>3
  <1>7. entries'[p] = entries[p]
    BY <1>3, <1>6, HasKept
  <1> HIDE DEF c, p, q
  <1>8. SparesLinks(n, R, m, c, {q})
    <2>1. \A s \in R, j \in Comps :
           /\ RunFile("active", s, j) \notin {q}
           /\ \/ c # SLink(n, s, j) /\ RunFile(n, s, j) \notin {q}
              \/ entries'[RunFile(n, s, j)] = entries'[RunFile("active", s, j)]
      BY <1>3, <1>6, <1>7 DEF p, q, c
    <2> QED BY <1>4, <1>6, <2>1 DEF SparesLinks
  <1>9. SparesFiles(n, m, c, {q})
    <2>1. \A x \in SFiles(n) : Private(x) /\ entries[x] # None => \A y \in {q} : entries'[y] # entries[x]
      BY <1>1, <1>3, <1>6, SPaths DEF Private
    <2> QED BY <1>4, <1>6, <2>1 DEF SparesFiles
  <1>10. Done(n, R, m)'
    BY <1>1, <1>3, <1>5, <1>8, <1>9, SKeep, SKeepFiles DEF Done
  <1>11. \A x \in {q} : x[1] = n \/ x = SnapshotDir(n)
    BY <1>6
  <1> QED BY <1>3, <1>10, <1>11 DEF SGood, STouches

\* Syncing the temporary metadata file keeps the save on its way.
LEMMA SSync ==
  ASSUME NEW n, NEW R, NEW m, SStep(n, R, m, SyncFile(MetadataTmp(n)))
  PROVE  SGood(n, R, m)
PROOF
  <1> DEFINE p == MetadataTmp(n)
             c == SyncFile(p)
  <1>1. n \in Names /\ R \in SUBSET Runs /\ m = [runs |-> R]
    BY DEF SStep
  <1>2. p \in Paths
    BY <1>1, SPaths DEF SFiles
  <1>3. /\ DiskInv' /\ Keeps({}) /\ Fades({}) /\ entries' = entries
        /\ entries[p] # None => disk_data'[entries[p]] = data[entries[p]]
    BY <1>2, SyncCall DEF SStep, StateInv
  <1>30. entries'[p] # None => disk_data'[entries'[p]] = data'[entries'[p]]
    BY <1>2, <1>3 DEF Keeps
  <1>4. /\ \A q : c # OpenTruncate(q) /\ c # Write(q, m) /\ c # SyncDir(q) /\ c # CreateNew(q)
        /\ c # MRename(n) /\ \A r, k : c # SLink(n, r, k)
    BY <1>1, SCallsApart
  <1>5. Linked(n, R, m) /\ Described(n, m) /\ SMakes(n, R, m, c)
    BY DEF SStep, Done
  <1> HIDE DEF c
  <1>6. SparesLinks(n, R, m, c, {})
    BY <1>4 DEF SparesLinks
  <1>9. SparesFiles(n, m, c, {})
    BY <1>30, <1>4 DEF SparesFiles
  <1>10. Done(n, R, m)'
    BY <1>1, <1>3, <1>5, <1>6, <1>9, SKeep, SKeepFiles DEF Done
  <1> QED BY <1>3, <1>10 DEF SGood, STouches

\* A step that touches no file but one of those that are written, and is about it.
LEMMA SOther ==
  ASSUME NEW n \in Names, NEW R \in SUBSET Runs, NEW m, m = [runs |-> R],
         Linked(n, R, m), NEW p \in SFiles(n), NEW c \in {OpenTruncate(p), Write(p, m)},
         SMakes(n, R, m, c), Keeps({p})
  PROVE  Linked(n, R, m)'
PROOF
  <1>1. /\ c # SyncDir(n) /\ c # CreateNew(SnapshotDir(n)) /\ c # MRename(n)
        /\ \A r, k : c # SLink(n, r, k)
    BY SCallsApart
  <1>2. /\ p # SnapshotDir(n) /\ p # Metadata(n)
        /\ \A r \in R, k \in Comps : RunFile(n, r, k) # p /\ RunFile("active", r, k) # p
    BY SPaths
  <1>3. SparesLinks(n, R, m, c, {p})
    BY <1>1, <1>2 DEF SparesLinks
  <1> QED BY <1>3, SKeep

\* Opening a metadata file keeps the save on its way.
LEMMA STruncate ==
  ASSUME NEW n, NEW R, NEW m, NEW p \in SFiles(n), SStep(n, R, m, OpenTruncate(p))
  PROVE  SGood(n, R, m)
PROOF
  <1> DEFINE c == OpenTruncate(p)
             tmp == MetadataTmp(n)
             mc == MetadataChecksum(n)
  <1>1. n \in Names /\ R \in SUBSET Runs /\ m = [runs |-> R]
    BY DEF SStep
  <1>2. Linked(n, R, m) /\ Described(n, m) /\ SMakes(n, R, m, c)
    BY DEF SStep, Done
  <1>3. \A q \in SFiles(n) : q \in Paths \ WholePaths /\ q[1] = n
    BY <1>1, SPaths
  <1>4. /\ \A q : c # Write(q, m) /\ c # SyncFile(q)
        /\ \A q : q # p => c # OpenTruncate(q)
        /\ c # MRename(n)
    BY <1>1, SCallsApart
  <1>5. \A b : b \in Rem <=> b = c \/ b \in Rem'
    BY <1>2 DEF SMakes
  <1>6. tmp \in SFiles(n) /\ mc \in SFiles(n) /\ tmp # mc /\ SFiles(n) = {tmp, mc}
    BY <1>1, SPaths DEF SFiles
  <1>7. entries[p] = None
    BY <1>2, <1>5, <1>6 DEF Described
  <1>8. /\ DiskInv' /\ Keeps({p}) /\ Fades({})
        /\ entries'[p] # None /\ Private(p)'
    <2>1. NewFile(p) /\ DiskInv
      <3>1. Do(c) /\ DiskInv
        BY DEF SStep, StateInv
      <3>2. c.op = "truncate" /\ c.path = p
        BY CallParts
      <3> HIDE DEF c
      <3> QED BY <1>7, <3>1, <3>2 DEF Do
    <2> QED BY <1>3, <2>1, NewFileCall
  <1>9. Linked(n, R, m)'
    BY <1>1, <1>2, <1>8, SOther
  <1>10. OpenTruncate(p) \notin Rem' /\ (Write(tmp, m) \in Rem' => SyncFile(tmp) \in Rem')
    BY <1>2 DEF SMakes
  <1>11. \A q \in SFiles(n) \ {p} : entries'[q] = entries[q] /\ (Has(q, m)' <=> Has(q, m))
    BY <1>3, <1>8, HasKept
  <1> HIDE DEF c, tmp, mc
  <1>12. ASSUME p = tmp PROVE Write(tmp, m) \in Rem' \/ MRename(n) \notin Rem'
    BY <1>2, <1>4, <1>5, <1>7, <1>12 DEF Described, Has, tmp, c
  <1>13. MRename(n) \in Rem' => Write(tmp, m) \in Rem' \/ Has(tmp, m)'
    BY <1>2, <1>4, <1>5, <1>6, <1>11, <1>12 DEF Described, tmp
  <1>14. MRename(n) \in Rem' =>
           SyncFile(tmp) \in Rem' \/ (entries'[tmp] # None => disk_data'[entries'[tmp]] = data'[entries'[tmp]])
    <2> SUFFICES ASSUME MRename(n) \in Rem', SyncFile(tmp) \notin Rem', entries'[tmp] # None
                 PROVE  disk_data'[entries'[tmp]] = data'[entries'[tmp]]
      OBVIOUS
    <2>1. tmp # p
      BY <1>10, <1>12
    <2>2. disk_data[entries[tmp]] = data[entries[tmp]] /\ entries'[tmp] = entries[tmp] /\ entries[tmp] # None
      BY <1>2, <1>4, <1>5, <1>6, <1>11, <2>1 DEF Described, tmp
    <2>3. data'[entries[tmp]] = data[entries[tmp]]
          /\ disk_data'[entries[tmp]] \in {disk_data[entries[tmp]], data[entries[tmp]]}
      BY <1>3, <1>6, <1>8, <2>1, <2>2 DEF Keeps
    <2> QED BY <2>2, <2>3
  <1>15. Write(mc, m) \in Rem' \/ Has(mc, m)'
    <2>1. Write(mc, m) \in Rem' \/ Has(mc, m)
      BY <1>2, <1>4, <1>5 DEF Described, mc
    <2> QED BY <1>6, <1>7, <1>11, <2>1 DEF Has
  <1>16. ASSUME NEW q \in SFiles(n)
         PROVE  /\ OpenTruncate(q) \in Rem' => entries'[q] = None
                /\ Write(q, m) \in Rem' => OpenTruncate(q) \in Rem' \/ (entries'[q] # None /\ Private(q)')
    <2>1. CASE q = p
      BY <1>8, <1>10, <2>1
    <2>2. CASE q # p
      <3>1. /\ OpenTruncate(q) \in Rem => entries[q] = None
            /\ Write(q, m) \in Rem => OpenTruncate(q) \in Rem \/ (entries[q] # None /\ Private(q))
        BY <1>2, <1>6 DEF Described, tmp, mc
      <3>2. entries'[q] = entries[q] /\ entries'[p] # entries[q]
        BY <1>3, <1>8, <1>11, <2>2 DEF Private
      <3>3. Private(q) => Private(q)'
        BY <1>3, <1>8, <2>2, <3>2, PrivateKept
      <3> QED BY <1>4, <1>5, <2>2, <3>1, <3>2, <3>3
    <2> QED BY <2>1, <2>2
  <1>17. Described(n, m)'
    BY <1>6, <1>13, <1>14, <1>15, <1>16 DEF Described, tmp, mc
  <1> QED BY <1>3, <1>8, <1>9, <1>17 DEF SGood, STouches, Done

\* Writing a metadata file keeps the save on its way.
LEMMA SWrite ==
  ASSUME NEW n, NEW R, NEW m, NEW p \in SFiles(n), SStep(n, R, m, Write(p, m))
  PROVE  SGood(n, R, m)
PROOF
  <1> DEFINE c == Write(p, m)
             tmp == MetadataTmp(n)
             mc == MetadataChecksum(n)
  <1>1. n \in Names /\ R \in SUBSET Runs /\ m = [runs |-> R]
    BY DEF SStep
  <1>2. Linked(n, R, m) /\ Described(n, m) /\ SMakes(n, R, m, c)
    BY DEF SStep, Done
  <1>3. /\ \A q \in SFiles(n) : q \in Paths \ WholePaths /\ q[1] = n
        /\ m \in ClassOf(p) /\ m # Torn /\ m \notin Tags
    BY <1>1, SPaths
  <1>4. /\ \A q : c # OpenTruncate(q) /\ c # SyncFile(q)
        /\ \A q : q # p => c # Write(q, m)
        /\ c # MRename(n)
    BY <1>1, SCallsApart
  <1>5. \A b : b \in Rem <=> b = c \/ b \in Rem'
    BY <1>2 DEF SMakes
  <1>6. tmp \in SFiles(n) /\ mc \in SFiles(n) /\ tmp # mc /\ SFiles(n) = {tmp, mc}
    BY <1>1, SPaths DEF SFiles
  <1>7. entries[p] # None /\ Private(p)
    <2>1. OpenTruncate(p) \notin Rem /\ Write(p, m) \in Rem
      BY <1>2, <1>4, <1>5 DEF SMakes
    <2> QED BY <1>2, <1>6, <2>1 DEF Described
  <1>70. \A q \in CsPaths : entries[q] # None => data[entries[q]] # m
    <2> SUFFICES ASSUME NEW q \in CsPaths, entries[q] # None PROVE data[entries[q]] # m
      OBVIOUS
    <2>1. q \in Paths /\ q[2] \in Runs
      BY CsPath
    <2>2. data[entries[q]] \in ClassOf(q)
      BY <2>1 DEF SStep, StateInv, DiskInv, Classes, NamedBy
    <2> QED BY <1>3, <2>1, <2>2 DEF ClassOf
  <1>8. /\ DiskInv' /\ Keeps({p}) /\ Fades({p})
        /\ entries' = entries /\ data'[entries[p]] = m
    BY <1>3, <1>7, <1>70, WriteCall DEF SStep, StateInv
  <1>80. Has(p, m)'
    BY <1>7, <1>8 DEF Has
  <1>9. Linked(n, R, m)'
    BY <1>1, <1>2, <1>8, SOther
  <1>10. p = tmp => SyncFile(tmp) \in Rem'
    BY <1>2 DEF SMakes
  <1>11. \A q \in SFiles(n) \ {p} : Has(q, m)' <=> Has(q, m)
    BY <1>3, <1>8, HasKept
  <1> HIDE DEF c, tmp, mc
  <1>13. MRename(n) \in Rem' => Write(tmp, m) \in Rem' \/ Has(tmp, m)'
    BY <1>2, <1>4, <1>5, <1>6, <1>11, <1>80 DEF Described, tmp
  <1>14. MRename(n) \in Rem' =>
           SyncFile(tmp) \in Rem' \/ (entries'[tmp] # None => disk_data'[entries'[tmp]] = data'[entries'[tmp]])
    <2> SUFFICES ASSUME MRename(n) \in Rem', SyncFile(tmp) \notin Rem', entries'[tmp] # None
                 PROVE  disk_data'[entries'[tmp]] = data'[entries'[tmp]]
      OBVIOUS
    <2>1. tmp # p
      BY <1>10
    <2>2. disk_data[entries[tmp]] = data[entries[tmp]] /\ entries'[tmp] = entries[tmp] /\ entries[tmp] # None
      BY <1>2, <1>4, <1>5, <1>8 DEF Described, tmp
    <2>3. data'[entries[tmp]] = data[entries[tmp]]
          /\ disk_data'[entries[tmp]] \in {disk_data[entries[tmp]], data[entries[tmp]]}
      BY <1>3, <1>6, <1>8, <2>1, <2>2 DEF Keeps
    <2> QED BY <2>2, <2>3
  <1>15. Write(mc, m) \in Rem' \/ Has(mc, m)'
    BY <1>2, <1>4, <1>5, <1>6, <1>11, <1>80 DEF Described, mc
  <1>16. ASSUME NEW q \in SFiles(n)
         PROVE  /\ OpenTruncate(q) \in Rem' => entries'[q] = None
                /\ Write(q, m) \in Rem' => OpenTruncate(q) \in Rem' \/ (entries'[q] # None /\ Private(q)')
    <2>1. /\ OpenTruncate(q) \in Rem => entries[q] = None
          /\ Write(q, m) \in Rem => OpenTruncate(q) \in Rem \/ (entries[q] # None /\ Private(q))
      BY <1>2, <1>6 DEF Described, tmp, mc
    <2>2. entries[q] # None /\ Private(q) => Private(q)'
      <3>1. CASE q = p
        <4>1. Private(p)'
          BY <1>3, <1>7, <1>8, WriteCall DEF Private, Keeps
        <4> QED BY <3>1, <4>1
      <3>2. CASE q # p
        <4>1. entries'[p] # entries[q]
          BY <1>3, <1>7, <1>8, <3>2 DEF Private
        <4> QED BY <1>3, <1>8, <3>2, <4>1, PrivateKept
      <3> QED BY <3>1, <3>2
    <2> QED BY <1>4, <1>5, <1>8, <2>1, <2>2
  <1>17. Described(n, m)'
    BY <1>6, <1>13, <1>14, <1>15, <1>16 DEF Described, tmp, mc
  <1>18. \A x \in {p} : x[1] = n \/ x = SnapshotDir(n)
    BY <1>3
  <1>19. \A x \in {p} : data'[entries[x]] \notin Tags
    BY <1>3, <1>8
  <1> QED BY <1>8, <1>9, <1>17, <1>18, <1>19 DEF SGood, STouches, Done

\* Renaming the temporary metadata file keeps the save on its way.
LEMMA SCommit ==
  ASSUME NEW n, NEW R, NEW m, SStep(n, R, m, MRename(n))
  PROVE  SGood(n, R, m)
PROOF
  <1> DEFINE c == MRename(n)
             tmp == MetadataTmp(n)
             mc == MetadataChecksum(n)
             q == Metadata(n)
  <1>1. n \in Names /\ R \in SUBSET Runs /\ m = [runs |-> R]
    BY DEF SStep
  <1>2. Linked(n, R, m) /\ Described(n, m) /\ SMakes(n, R, m, c)
    BY DEF SStep, Done
  <1>3. /\ tmp \in Paths \ WholePaths /\ tmp[1] = n /\ tmp[2] = 0
        /\ q \in WholePaths /\ q \in Paths /\ q \notin CsPaths /\ q[1] = n /\ q[2] = 0
        /\ mc \in Paths /\ mc # tmp /\ mc # q /\ tmp # q
        /\ m # Torn /\ q # SnapshotDir(n) /\ tmp # SnapshotDir(n)
        /\ \A r \in Runs : tmp # ChecksumsTmp(r)
        /\ tmp \in SFiles(n) /\ mc \in SFiles(n)
    BY <1>1, SPaths DEF SFiles
  <1>4. /\ \A x : c # OpenTruncate(x) /\ c # SyncFile(x) /\ c # Write(x, m) /\ c # SyncDir(x) /\ c # CreateNew(x)
        /\ \A r, k : c # SLink(n, r, k)
    BY <1>1, SCallsApart
  <1>5. \A b : b \in Rem <=> b = c \/ b \in Rem'
    BY <1>2 DEF SMakes
  <1>6. Write(tmp, m) \notin Rem' /\ SyncFile(tmp) \notin Rem' /\ MRename(n) \notin Rem'
    BY <1>2 DEF SMakes
  <1>7. entries[tmp] # None /\ data[entries[tmp]] = m /\ disk_data[entries[tmp]] = data[entries[tmp]]
    <2>1. MRename(n) \in Rem /\ Write(tmp, m) \notin Rem /\ SyncFile(tmp) \notin Rem
      BY <1>4, <1>5, <1>6
    <2> QED BY <1>2, <2>1 DEF Described, Has
  <1> HIDE DEF tmp, mc, q
  <1>8. /\ DiskInv' /\ Keeps({tmp, q}) /\ Fades({})
        /\ entries'[tmp] = None /\ entries'[q] = entries[tmp]
        /\ data'[entries[tmp]] = data[entries[tmp]]
    <2>1. DiskInv /\ Do(Rename(tmp, q))
      BY DEF SStep, StateInv, MRename, tmp, q
    <2> QED BY <1>3, <1>7, <2>1, RenameCall
  <1>9. Has(q, m)'
    BY <1>7, <1>8 DEF Has
  <1> HIDE DEF c
  <1>10. SparesLinks(n, R, m, c, {tmp, q})
    <2>1. \A r \in R, k \in Comps :
            /\ RunFile(n, r, k) # tmp /\ RunFile("active", r, k) # tmp
            /\ RunFile(n, r, k) # q /\ RunFile("active", r, k) # q
      BY <1>1, SPaths DEF SFiles, tmp, q
    <2> QED BY <1>3, <1>4, <1>9, <2>1 DEF SparesLinks, q
  <1>11. Linked(n, R, m)'
    BY <1>1, <1>2, <1>8, <1>10, SKeep
  <1>12. entries'[mc] = entries[mc] /\ (Has(mc, m)' <=> Has(mc, m))
    BY <1>3, <1>8, HasKept
  <1>13. Write(mc, m) \in Rem' \/ Has(mc, m)'
    BY <1>2, <1>4, <1>5, <1>12 DEF Described, mc
  <1>14. ASSUME NEW p \in {tmp, mc}
         PROVE  /\ OpenTruncate(p) \in Rem' => entries'[p] = None
                /\ Write(p, m) \in Rem' => OpenTruncate(p) \in Rem' \/ (entries'[p] # None /\ Private(p)')
    <2>1. CASE p = tmp
      BY <1>6, <1>8, <2>1
    <2>2. CASE p = mc
      <3>1. /\ OpenTruncate(mc) \in Rem => entries[mc] = None
            /\ Write(mc, m) \in Rem => OpenTruncate(mc) \in Rem \/ (entries[mc] # None /\ Private(mc))
        BY <1>2 DEF Described, tmp, mc
      <3>2. entries[mc] # None /\ Private(mc) => Private(mc)'
        <4> SUFFICES ASSUME entries[mc] # None, Private(mc) PROVE Private(mc)'
          OBVIOUS
        <4>1. \A x \in {tmp, q} : entries'[x] # entries[mc]
          BY <1>3, <1>8 DEF Private
        <4> QED BY <1>3, <1>8, <4>1, PrivateKept
      <3> QED BY <1>4, <1>5, <1>12, <2>2, <3>1, <3>2
    <2> QED BY <2>1, <2>2
  <1>15. Described(n, m)'
    BY <1>6, <1>13, <1>14 DEF Described, tmp, mc
  <1>16. \A x \in {tmp, q} : x[1] = n \/ x = SnapshotDir(n)
    BY <1>3
  <1> QED BY <1>8, <1>11, <1>15, <1>16 DEF SGood, STouches, Done

\* A step of a save.
LEMMA SaveStep ==
  ASSUME FullInv, Step, task.kind = "save"
  PROVE  FullInv'
PROOF
  <1>0. PICK n, R, m, c : n = task.name /\ R = NumsOf(tree) /\ m = [runs |-> R] /\ c = Head(task.todo)
    OBVIOUS
  <1>1. StateInv /\ Saving(n)
    BY <1>0 DEF FullInv, TaskInv
  <1>2. n \in Names /\ R \in SUBSET Runs
    BY <1>0, <1>1 DEF Saving, StateInv, ProcTypes, NumsOf, Tags
  <1>3. SOrder(task.todo, n, R, m) /\ Done(n, R, m)
    BY <1>0, <1>1 DEF Saving
  <1>4. SMakes(n, R, m, c) /\ SOrder(task'.todo, n, R, m)
    BY <1>0, <1>1, <1>3, SMakesIt DEF StateInv, Step
  <1>5. Goes
    <2>1. task.todo \in Seq(SCalls(n, R, m))
      BY <1>3 DEF SOrder
    <2> QED BY <1>1, <2>1, TaskRest DEF StateInv, Step, Goes
  <1>6. SStep(n, R, m, c)
    BY <1>0, <1>1, <1>2, <1>3, <1>4 DEF SStep, Step
  <1>7. SGood(n, R, m)
    <2>1. c \in SCalls(n, R, m)
      BY <1>4 DEF SMakes
    <2>2. \/ c = CreateNew(SnapshotDir(n)) \/ c = SyncDir(n) \/ c = SyncFile(MetadataTmp(n))
          \/ c = MRename(n)
          \/ \E p \in SFiles(n) : c = OpenTruncate(p) \/ c = Write(p, m)
          \/ \E r \in R, k \in Comps : c = SLink(n, r, k)
      BY <2>1 DEF SCalls, SFiles
    <2>3. CASE \E p \in SFiles(n) : c = OpenTruncate(p) \/ c = Write(p, m)
      BY <1>6, <2>3, STruncate, SWrite
    <2>4. CASE \E r \in R, k \in Comps : c = SLink(n, r, k)
      BY <1>6, <2>4, SLinkCall
    <2> QED BY <1>6, <2>2, <2>3, <2>4, SCreate, SSyncDir, SSync, SCommit
  <1>8. StateInv'
    <2>1. PICK X, W : STouches(n, X, W)
      BY <1>7 DEF SGood
    <2>3. saved[n] # None /\ ~saved[n].done /\ DiskInv'
      BY <1>1, <1>7 DEF Saving, SGood
    <2>4. /\ Keeps(X) /\ Fades(W)
          /\ \A x \in X : x[1] = n \/ x = SnapshotDir(n)
          /\ \A p \in W : data'[entries[p]] \notin Tags
      BY <2>1 DEF STouches
    <2>7. StateInv
      BY <1>1
    <2> QED BY <1>2, <1>5, <2>3, <2>4, <2>7, SRest
  <1>9. Saving(n)'
    <2>1. Done(n, R, m)'
      BY <1>7 DEF SGood
    <2>2. NumsOf(tree)' = R /\ saved' = saved /\ tree' = tree
      BY <1>0, <1>5 DEF Goes, NumsOf
    <2> QED BY <1>0, <1>1, <1>2, <1>4, <2>1, <2>2 DEF Saving
  <1>10. task'.kind = "save" /\ task'.name = n
    BY <1>0, <1>5 DEF Goes
  <1>11. TaskInv'
    BY <1>9, <1>10 DEF TaskInv
  <1> QED BY <1>8, <1>11 DEF FullInv

---------------------------------------------------------------------------
(* The steps of the other operations.                                      *)

\* An unlink of delete_files, or of Drop for LsmTree, keeps the invariant.
LEMMA DeleteStep ==
  ASSUME FullInv, Step, task.kind \in {"delete", "close"}
  PROVE  FullInv'
PROOF
  <1> DEFINE S == {Unlink(p) : p \in UNION {RunFiles("active", r) : r \in Runs \ NumsOf(tree)}}
  <1>1. StateInv /\ task.todo \in Seq(S) /\ task.todo # <<>>
    BY DEF FullInv, TaskInv, Deleting, Step
  <1>2. Goes /\ task'.todo \in Seq(S) /\ Head(task.todo) \in S
    BY <1>1, TaskRest DEF StateInv, Step, Goes
  <1>3. PICK r \in Runs \ NumsOf(tree) : \E p \in RunFiles("active", r) : Head(task.todo) = Unlink(p)
    BY <1>2
  <1>4. PICK p \in RunFiles("active", r) : Head(task.todo) = Unlink(p)
    BY <1>3
  <1>5. p \in Paths /\ p[1] = "active" /\ p[2] = r
    BY <1>3, <1>4, RunFilePath, NameFacts DEF RunFiles, Comps
  <1>6. DiskInv' /\ Keeps({p}) /\ Fades({}) /\ entries'[p] = None
    BY <1>1, <1>4, <1>5, UnlinkCall DEF StateInv, Step
  <1>7. StateInv'
    <2>1. SparesSaved({p}) /\ \A x \in {p} : x[1] = "active" => x[2] \notin NumsOf(tree)
      BY <1>3, <1>5 DEF SparesSaved
    <2> QED BY <1>1, <1>2, <1>6, <2>1, GoesMoves, MoveRest
  <1>8. Deleting'
    BY <1>2 DEF Goes, Deleting, NumsOf
  <1>9. TaskInv'
    BY <1>2, <1>8 DEF Goes, TaskInv
  <1> QED BY <1>7, <1>9 DEF FullInv

\* A directory sync at the start of LsmTree::open keeps the invariant.
LEMMA OpenStep ==
  ASSUME FullInv, Step, task.kind = "open"
  PROVE  FullInv'
PROOF
  <1> DEFINE S == {SyncDir("active"), SyncDir("snapshots")}
             c == Head(task.todo)
  <1>1. StateInv /\ task.todo \in Seq(S) /\ task.todo # <<>>
        /\ (SyncDir("active") \in Rem \/ Synced("active"))
    BY DEF FullInv, TaskInv, Opening, Step
  <1>2. Goes /\ task'.todo \in Seq(S) /\ c \in S /\ Rem = {c} \union Rem'
    BY <1>1, TaskRest DEF StateInv, Step, Goes
  <1>3. PICK d : c = SyncDir(d)
    BY <1>2
  <1>4. /\ DiskInv' /\ Keeps({}) /\ Fades({}) /\ entries' = entries
        /\ \A p \in Paths : disk_entries'[p] = IF p[1] = d THEN entries[p] ELSE disk_entries[p]
    BY <1>1, <1>3, SyncDirCall DEF StateInv, Step
  <1>5. StateInv'
    BY <1>1, <1>2, <1>4, GoesMoves, MoveRest DEF SparesSaved
  <1>6. SyncDir("active") \in Rem' \/ Synced("active")'
    <2>1. CASE c = SyncDir("active")
      <3>1. d = "active"
        BY <1>3, <2>1, CallParts
      <3> QED BY <1>4, <3>1 DEF Synced
    <2>2. CASE c # SyncDir("active")
      BY <1>1, <1>2, <1>4, <2>2, SyncedKept
    <2> QED BY <2>1, <2>2
  <1>7. TaskInv'
    BY <1>2, <1>6 DEF Goes, TaskInv, Opening
  <1> QED BY <1>5, <1>7 DEF FullInv

\* A call of delete_snapshot keeps the invariant.
LEMMA RemoveStep ==
  ASSUME FullInv, task.kind = "remove", task.todo # <<>>, Step \/ StepUnlinkAll
  PROVE  FullInv'
PROOF
  <1>0. PICK n, c : n = task.name /\ c = Head(task.todo)
    OBVIOUS
  <1> DEFINE S == {UnlinkAll(n), Unlink(SnapshotDir(n))}
  <1>1. StateInv /\ n \in Names /\ saved[n] # None /\ ~saved[n].done /\ task.todo \in Seq(S)
    BY <1>0 DEF FullInv, TaskInv, Removing
  <1>2. Goes /\ task'.todo \in Seq(S) /\ c \in S
    BY <1>0, <1>1, TaskRest DEF StateInv, Step, StepUnlinkAll, Goes
  <1>3. \E X : /\ Keeps(X) /\ Fades({}) /\ DiskInv'
               /\ \A x \in X : x[1] = n \/ x = SnapshotDir(n)
    <2>1. CASE Step
      <3>1. Do(c)
        BY <1>0, <2>1 DEF Step
      <3>2. c # UnlinkAll(n)
        BY <3>1, CallParts DEF Do
      <3>3. c = Unlink(SnapshotDir(n)) /\ SnapshotDir(n) \in Paths
        BY <1>1, <1>2, <3>2, NamePaths
      <3>4. DiskInv' /\ Keeps({SnapshotDir(n)}) /\ Fades({})
        BY <1>1, <3>1, <3>3, UnlinkCall DEF StateInv
      <3> QED BY <3>4
    <2>2. CASE StepUnlinkAll
      <3>1. c.op = "unlink_all" /\ UnlinkSet(Listing(c.path))
        BY <1>0, <2>2 DEF StepUnlinkAll
      <3>2. c.path = n
        <4>1. Unlink(SnapshotDir(n)).op # "unlink_all" /\ UnlinkAll(n).path = n
          BY CallParts
        <4> QED BY <1>2, <3>1, <4>1
      <3>3. Listing(n) \in SUBSET Paths /\ \A x \in Listing(n) : x[1] = n
        BY DEF Listing
      <3>4. DiskInv' /\ Keeps(Listing(n)) /\ Fades({})
        BY <1>1, <3>1, <3>2, <3>3, UnlinkSetCall DEF StateInv
      <3> QED BY <3>3, <3>4
    <2> QED BY <2>1, <2>2
  <1>4. StateInv'
    BY <1>1, <1>2, <1>3, SRest
  <1>5. TaskInv'
    BY <1>0, <1>1, <1>2 DEF Goes, TaskInv, Removing
  <1> QED BY <1>4, <1>5 DEF FullInv

\* What a snapshot's metadata name does not change with other files.
LEMMA MetadataKept ==
  ASSUME NEW X, Keeps(X), DiskInv, NEW n \in Names, Metadata(n) \notin X, Contents(Metadata(n)) # Torn
  PROVE  /\ Contents(Metadata(n))' = Contents(Metadata(n)) /\ NamedRuns(n)' = NamedRuns(n)
         /\ Contents(Metadata(n)) \in [runs : SUBSET Runs] /\ NamedRuns(n) \in SUBSET Runs
PROOF
  <1> DEFINE p == Metadata(n)
  <1>1. p \in Paths /\ p[2] \notin Runs
    BY NamePaths DEF Runs
  <1>2. entries[p] # None /\ Contents(p) = data[entries[p]]
    BY DEF Contents
  <1>3. entries'[p] = entries[p] /\ data'[entries[p]] = data[entries[p]]
    BY <1>1, <1>2 DEF Keeps
  <1>4. Contents(p) \in ClassOf(p)
    BY <1>1, <1>2 DEF DiskInv, Classes, NamedBy
  <1>5. Contents(p)' = Contents(p)
    BY <1>2, <1>3 DEF Contents
  <1>6. Contents(p) \in [runs : SUBSET Runs]
    BY <1>1, <1>4 DEF ClassOf
  <1> HIDE DEF p
  <1>7. p = Metadata(n)
    BY DEF p
  <1> QED BY <1>5, <1>6, <1>7 DEF NamedRuns

\* A call of open_snapshot keeps the invariant.
LEMMA RestoreStep ==
  ASSUME FullInv, task.kind = "restore", task.todo # <<>>, Step \/ StepUnlinkAll
  PROVE  FullInv'
PROOF
  <1>0. PICK n, R, c : n = task.name /\ R = NamedRuns(n) /\ c = Head(task.todo)
    OBVIOUS
  <1> DEFINE S == {SyncDir("snapshots"), SyncDir("active"), UnlinkAll("active")}
                    \union {RLink(n, r, k) : r \in R, k \in Comps}
             Left == \A p \in Paths : p[1] = "active" /\ entries[p] # None =>
                       \E r \in R : p \in RunFiles("active", r)
  <1>1. /\ StateInv /\ n \in Names /\ Contents(Metadata(n)) # Torn /\ task.todo \in Seq(S)
        /\ EndsWith(task.todo, SyncDir("active"))
        /\ UnlinkAll("active") \notin Rem => Left
    BY <1>0 DEF FullInv, TaskInv, Restoring
  <1>2. Goes /\ task'.todo \in Seq(S) /\ c \in S /\ Rem = {c} \union Rem' /\ tree = {} /\ ~Open
    BY <1>0, <1>1, TaskRest DEF StateInv, Step, StepUnlinkAll, Goes, ProcTypes, Open
  <1>3. EndsWith(task'.todo, SyncDir("active")) /\ (task'.todo = <<>> => c = SyncDir("active"))
    <2>1. task'.todo = Tail(task.todo)
      BY <1>1, TaskRest DEF StateInv, Step, StepUnlinkAll
    <2> QED BY <1>0, <1>1, <2>1, TailOrder
  <1>4. R \in SUBSET Runs /\ Metadata(n) \in Paths /\ Metadata(n)[1] = n /\ n # "active"
    <2> DEFINE p == Metadata(n)
    <2>2. p \in Paths /\ p[2] \notin Runs /\ p[1] = n /\ n # "active"
      BY <1>1, NamePaths, NameFacts DEF Runs
    <2>3. entries[p] # None /\ Contents(p) = data[entries[p]]
      BY <1>1 DEF Contents
    <2>4. Contents(p) \in ClassOf(p)
      BY <1>1, <2>2, <2>3 DEF StateInv, DiskInv, Classes, NamedBy
    <2> QED BY <1>0, <1>1, <2>2, <2>4 DEF ClassOf, NamedRuns
  <1> HIDE DEF S, Left
  <1>5. \E X : /\ Keeps(X) /\ Fades({}) /\ DiskInv' /\ \A x \in X : x[1] = "active"
               /\ c = SyncDir("active") => Synced("active")'
               /\ UnlinkAll("active") \notin Rem' =>
                    \A p \in Paths : p[1] = "active" /\ entries'[p] # None =>
                       \E r \in R : p \in RunFiles("active", r)
    <2>1. CASE StepUnlinkAll
      <3>1. c.op = "unlink_all" /\ UnlinkSet(Listing(c.path))
        BY <1>0, <2>1 DEF StepUnlinkAll
      <3>2. c = UnlinkAll("active") /\ c.path = "active"
        <4>1. \A d : SyncDir(d).op # "unlink_all"
          BY CallParts
        <4>2. \A r, k : RLink(n, r, k).op # "unlink_all"
          BY CallParts DEF RLink
        <4>3. UnlinkAll("active").path = "active"
          BY CallParts
        <4> QED BY <1>2, <3>1, <4>1, <4>2, <4>3 DEF S
      <3>3. Listing("active") \in SUBSET Paths /\ \A x \in Listing("active") : x[1] = "active"
        BY DEF Listing
      <3>4. DiskInv' /\ Keeps(Listing("active")) /\ Fades({})
            /\ \A p \in Listing("active") : entries'[p] = None
        BY <1>1, <3>1, <3>2, <3>3, UnlinkSetCall DEF StateInv
      <3>5. \A p \in Paths : p[1] = "active" => entries'[p] = None
        BY <3>4 DEF Listing, Keeps
      <3>6. c # SyncDir("active")
        BY <3>2, CallParts
      <3> QED BY <3>3, <3>4, <3>5, <3>6
    <2>2. CASE Step
      <3>1. Do(c) /\ DiskInv
        BY <1>0, <1>1, <2>2 DEF Step, StateInv
      <3>2. c # UnlinkAll("active")
        BY <3>1, CallParts DEF Do
      <3>3. UnlinkAll("active") \notin Rem' => Left
        BY <1>1, <1>2, <3>2
      <3>4. CASE \E d : c = SyncDir(d)
        <4>1. PICK d : c = SyncDir(d)
          BY <3>4
        <4>2. /\ DiskInv' /\ Keeps({}) /\ Fades({}) /\ entries' = entries
              /\ \A p \in Paths : disk_entries'[p] = IF p[1] = d THEN entries[p] ELSE disk_entries[p]
          BY <3>1, <4>1, SyncDirCall
        <4>3. c = SyncDir("active") => Synced("active")'
          <5>1. c = SyncDir("active") => d = "active"
            <6>1. SyncDir(d).path = d /\ SyncDir("active").path = "active"
              BY CallParts
            <6> QED BY <4>1, <6>1
          <5> QED BY <4>2, <5>1 DEF Synced
        <4> QED BY <3>3, <4>2, <4>3 DEF Left
      <3>5. CASE \E r \in R, k \in Comps : c = RLink(n, r, k)
        <4>1. PICK r \in R : \E k \in Comps : c = RLink(n, r, k)
          BY <3>5
        <4>2. PICK k \in Comps : c = RLink(n, r, k)
          BY <4>1
        <4> DEFINE q == RunFile("active", r, k)
        <4>3. DiskInv' /\ Keeps({q}) /\ Fades({})
          <5>1. Do(Link(RunFile(n, r, k), q))
            BY <3>1, <4>2 DEF RLink
          <5>2. n \in Dirs /\ "active" \in Dirs /\ r \in Runs
            BY <1>1, <1>4, NameFacts
          <5> QED BY <1>4, <3>1, <5>1, <5>2, LinkCall
        <4>4. q \in Paths /\ q[1] = "active" /\ q \in RunFiles("active", r)
          BY <1>4, RunFilePath, NameFacts DEF RunFiles, Comps
        <4>5. c # SyncDir("active")
          BY <4>2, CallParts DEF RLink
        <4> HIDE DEF q
        <4>6. Left => \A p \in Paths : p[1] = "active" /\ entries'[p] # None =>
                       \E s \in R : p \in RunFiles("active", s)
          BY <4>3, <4>4 DEF Keeps, Left
        <4> QED BY <3>3, <4>3, <4>4, <4>5, <4>6
      <3> QED BY <1>2, <3>2, <3>4, <3>5 DEF S
    <2> QED BY <2>1, <2>2
  <1>6. PICK X : /\ Keeps(X) /\ Fades({}) /\ DiskInv' /\ \A x \in X : x[1] = "active"
                 /\ c = SyncDir("active") => Synced("active")'
                 /\ UnlinkAll("active") \notin Rem' =>
                    \A p \in Paths : p[1] = "active" /\ entries'[p] # None =>
                       \E r \in R : p \in RunFiles("active", r)
    BY <1>5
  <1>7. StateInv'
    BY <1>1, <1>2, <1>6, GoesMoves, MoveRest DEF SparesSaved, NumsOf
  <1>8. Contents(Metadata(n))' = Contents(Metadata(n)) /\ NamedRuns(n)' = R
    <2>1. Metadata(n) \notin X
      BY <1>4, <1>6
    <2> QED BY <1>1, <1>6, <2>1, MetadataKept, <1>0 DEF StateInv
  <1>9. Restoring(n)'
    <2>1. task'.todo = <<>> => Synced("active")'
      BY <1>3, <1>6
    <2>2. Contents(Metadata(n))' # Torn
      BY <1>1, <1>8
    <2> QED BY <1>1, <1>2, <1>3, <1>6, <1>8, <2>1, <2>2 DEF Restoring, S
  <1>10. TaskInv'
    BY <1>0, <1>2, <1>9 DEF Goes, TaskInv
  <1> QED BY <1>7, <1>10 DEF FullInv

---------------------------------------------------------------------------
(* What cuts an operation short.                                           *)

\* A step that leaves the disk alone keeps the invariant of the disk.
LEMMA SameDisk ==
  ASSUME DiskInv, DiskUnchanged
  PROVE  DiskInv' /\ Keeps({}) /\ Fades({})
PROOF
  <1>1. entries' = entries /\ disk_entries' = disk_entries /\ data' = data /\ disk_data' = disk_data
    BY DEF DiskUnchanged
  <1>2. DiskTypes' /\ Classes' /\ Whole' /\ Committed'
    BY <1>1 DEF DiskInv, DiskTypes, Classes, Whole, Committed, NamedBy
  <1>3. \A p : Private(p) => Private(p)'
    BY <1>1 DEF Private
  <1>4. TmpApart'
    BY <1>1, <1>3 DEF DiskInv, TmpApart
  <1>5. Keeps({}) /\ Fades({})
    BY <1>1 DEF Keeps, Fades
  <1> QED BY <1>2, <1>4, <1>5 DEF DiskInv

\* What a mishap picks of S is part of S.
LEMMA Few ==
  ASSUME NEW S
  PROVE  AlikeExceptFew(S) \subseteq SUBSET S
PROOF BY DEF AlikeExceptFew, kSubset

\* Mishaps stay within their bound.
LEMMA MishapCount ==
  ASSUME StateInv, Mishap \/ mishaps' = mishaps
  PROVE  mishaps' \in 0 .. MaxMishaps
PROOF BY DiskAssumption DEF StateInv, ProcTypes, Mishap

\* Only the deletion of a snapshot and a restore have a call for many unlinks.
LEMMA ManyUnlinks ==
  ASSUME FullInv, task.todo # <<>>, Head(task.todo).op = "unlink_all"
  PROVE  LET c == Head(task.todo)
         IN  \/ task.kind = "remove" /\ c.path = task.name
             \/ task.kind = "restore" /\ c.path = "active"
PROOF
  <1>0. PICK c : c = Head(task.todo)
    OBVIOUS
  <1>1. \A p, x : /\ CreateNew(p).op # "unlink_all" /\ OpenTruncate(p).op # "unlink_all"
                  /\ Write(p, x).op # "unlink_all" /\ SyncFile(p).op # "unlink_all"
                  /\ SyncDir(p).op # "unlink_all" /\ Link(p, x).op # "unlink_all"
                  /\ Rename(p, x).op # "unlink_all" /\ Unlink(p).op # "unlink_all"
                  /\ UnlinkAll(p).path = p
    BY CallParts
  <1>2. ASSUME NEW S, task.todo \in Seq(S) PROVE c \in S
    BY <1>0, <1>2, TailOrder
  <1>3. task.kind # "write"
    <2> SUFFICES ASSUME task.kind = "write" PROVE FALSE
      OBVIOUS
    <2>1. c \in WCalls(task.run)
      BY <1>2 DEF FullInv, TaskInv, Writing, WOrder
    <2>2. \E p, x : \/ c = CreateNew(p) \/ c = Write(p, x) \/ c = SyncFile(p) \/ c = OpenTruncate(p)
                    \/ c = Rename(p, x) \/ c = SyncDir(p)
      BY <2>1 DEF WCalls, WRename
    <2> QED BY <1>0, <1>1, <2>2
  <1>4. task.kind # "save"
    <2> SUFFICES ASSUME task.kind = "save" PROVE FALSE
      OBVIOUS
    <2>1. c \in SCalls(task.name, NumsOf(tree), [runs |-> NumsOf(tree)])
      BY <1>2 DEF FullInv, TaskInv, Saving, SOrder
    <2>2. \E p, x : \/ c = CreateNew(p) \/ c = Write(p, x) \/ c = SyncFile(p) \/ c = OpenTruncate(p)
                    \/ c = Rename(p, x) \/ c = SyncDir(p) \/ c = Link(p, x)
      BY <2>1 DEF SCalls, MRename, SLink
    <2> QED BY <1>0, <1>1, <2>2
  <1>5. task.kind \notin {"delete", "close"}
    <2> SUFFICES ASSUME task.kind \in {"delete", "close"} PROVE FALSE
      OBVIOUS
    <2>1. c \in {Unlink(p) : p \in UNION {RunFiles("active", r) : r \in Runs \ NumsOf(tree)}}
      BY <1>2 DEF FullInv, TaskInv, Deleting
    <2> QED BY <1>0, <1>1, <2>1
  <1>6. task.kind # "open"
    <2> SUFFICES ASSUME task.kind = "open" PROVE FALSE
      OBVIOUS
    <2>1. c \in {SyncDir("active"), SyncDir("snapshots")}
      BY <1>2 DEF FullInv, TaskInv, Opening
    <2> QED BY <1>0, <1>1, <2>1
  <1>7. ASSUME task.kind = "remove" PROVE c.path = task.name
    <2>1. c \in {UnlinkAll(task.name), Unlink(SnapshotDir(task.name))}
      BY <1>2, <1>7 DEF FullInv, TaskInv, Removing
    <2> QED BY <1>0, <1>1, <2>1
  <1>8. ASSUME task.kind = "restore" PROVE c.path = "active"
    <2>1. c \in {SyncDir("snapshots"), SyncDir("active"), UnlinkAll("active")}
                  \union {RLink(task.name, r, k) : r \in NamedRuns(task.name), k \in Comps}
      BY <1>2, <1>8 DEF FullInv, TaskInv, Restoring
    <2> QED BY <1>0, <1>1, <2>1 DEF RLink
  <1>9. task.kind \in Kinds /\ task.kind \notin {"ready", "closed"}
    BY DEF FullInv, TaskInv, StateInv, TaskTypes
  <1> QED BY <1>0, <1>3, <1>4, <1>5, <1>6, <1>7, <1>8, <1>9 DEF Kinds

\* A call that succeeds keeps the invariant, whatever the operation is.
LEMMA AnyStep ==
  ASSUME FullInv, Step
  PROVE  FullInv'
PROOF
  <1>1. task.todo # <<>>
    BY DEF Step
  <1>2. task.kind \in {"write", "save", "delete", "close", "open", "remove", "restore"}
    BY <1>1 DEF FullInv, StateInv, TaskTypes, TaskInv, Kinds
  <1> QED BY <1>1, <1>2, WriteStep, SaveStep, DeleteStep, OpenStep, RemoveStep, RestoreStep

\* Clearing a directory keeps the invariant.
LEMMA AnyStepUnlinkAll ==
  ASSUME FullInv, StepUnlinkAll
  PROVE  FullInv'
PROOF
  <1>1. task.todo # <<>> /\ task.kind \in {"remove", "restore"}
    BY ManyUnlinks DEF StepUnlinkAll
  <1> QED BY <1>1, RemoveStep, RestoreStep

\* Clearing a directory in part keeps the invariant.
LEMMA CutUnlinkAllKeeps ==
  ASSUME FullInv, CutUnlinkAll
  PROVE  FullInv'
PROOF
  <1>0. PICK d : d = Head(task.todo).path
    OBVIOUS
  <1>1. /\ StateInv
        /\ \/ task.kind = "remove" /\ d = task.name
           \/ task.kind = "restore" /\ d = "active"
    BY <1>0, ManyUnlinks DEF CutUnlinkAll, FullInv
  <1>2. PICK G \in AlikeExceptFew(Listing(d)) : UnlinkSet(G)
    BY <1>0 DEF CutUnlinkAll
  <1>3. G \in SUBSET Paths /\ \A x \in G : x[1] = d
    <2>1. G \in SUBSET Listing(d)
      BY <1>2, Few
    <2> QED BY <2>1 DEF Listing
  <1>4. DiskInv' /\ Keeps(G) /\ Fades({})
    BY <1>1, <1>2, <1>3, UnlinkSetCall DEF StateInv
  <1>5. task.kind = "remove" => d \in Names /\ saved[d] # None /\ ~saved[d].done /\ d # "active"
    BY <1>1, NameFacts DEF FullInv, TaskInv, Removing
  <1>6. SparesSaved(G)
    BY <1>1, <1>3, <1>5 DEF SparesSaved
  <1>7. UNCHANGED <<session, saved>> /\ mishaps' \in 0 .. MaxMishaps
    BY <1>1, MishapCount DEF CutUnlinkAll
  <1>8. CASE task' = Closed /\ tree' = {} /\ next_run_number' = 1
    <2>1. next_run_number' \in 1 .. MaxRun + 1
      BY <1>8, DiskAssumption
    <2> QED BY <1>1, <1>4, <1>6, <1>7, <1>8, <2>1, EndRest
  <1>9. CASE task' = Aborted /\ UNCHANGED <<tree, next_run_number>>
    <2>1. CASE task.kind = "restore"
      <3>1. task' = Closed /\ tree' = {} /\ next_run_number' \in 1 .. MaxRun + 1
        BY <1>1, <1>9, <2>1 DEF Aborted, StateInv, ProcTypes
      <3> QED BY <1>1, <1>4, <1>6, <1>7, <3>1, EndRest
    <2>2. CASE task.kind = "remove"
      <3>1. task' = Ready /\ Open
        BY <1>9, <2>2 DEF Aborted, Open
      <3>2. \A x \in G : x[1] # "active"
        BY <1>1, <1>3, <1>5, <2>2
      <3> QED BY <1>1, <1>4, <1>6, <1>7, <1>9, <3>1, <3>2, ReadyRest
    <2> QED BY <1>1, <2>1, <2>2
  <1> QED BY <1>8, <1>9 DEF CutUnlinkAll

\* An unlink that fails and is ignored keeps the invariant.
LEMMA SkipUnlinkKeeps ==
  ASSUME FullInv, SkipUnlink
  PROVE  FullInv'
PROOF
  <1> DEFINE S == {Unlink(p) : p \in UNION {RunFiles("active", r) : r \in Runs \ NumsOf(tree)}}
  <1>1. StateInv /\ task.todo \in Seq(S) /\ task.kind \in {"delete", "close"}
    BY DEF FullInv, TaskInv, Deleting, SkipUnlink
  <1>2. /\ TaskTypes' /\ task'.kind = task.kind /\ task'.todo \in Seq(S)
        /\ UNCHANGED <<tree, session, next_run_number, saved>>
    BY <1>1, TaskRest DEF StateInv, SkipUnlink
  <1>3. Moves
    <2>1. mishaps' \in 0 .. MaxMishaps
      BY <1>1, MishapCount DEF SkipUnlink
    <2> QED BY <1>1, <1>2, <2>1 DEF Moves, Open, StateInv, ProcTypes
  <1>4. StateInv'
    <2>1. DiskInv' /\ Keeps({}) /\ Fades({})
      BY <1>1, SameDisk DEF StateInv, SkipUnlink
    <2> QED BY <1>1, <1>3, <2>1, MoveRest DEF SparesSaved
  <1>5. Deleting'
    BY <1>2 DEF Deleting, NumsOf
  <1>6. TaskInv'
    BY <1>1, <1>2, <1>5 DEF TaskInv
  <1> QED BY <1>4, <1>6 DEF FullInv

\* An operation that returns an error keeps the invariant.
LEMMA AbortKeeps ==
  ASSUME FullInv, Abort
  PROVE  FullInv'
PROOF
  <1>1. StateInv /\ UNCHANGED <<tree, session, next_run_number, saved>>
    BY DEF FullInv, Abort
  <1>2. mishaps' \in 0 .. MaxMishaps
    BY <1>1, MishapCount DEF Abort
  <1>3. PICK n : n = task.name
    OBVIOUS
  <1>4. PICK X : /\ Keeps(X) /\ Fades({}) /\ DiskInv' /\ SparesSaved(X) /\ \A x \in X : x[1] # "active"
    <2>1. CASE task.kind = "save"
      <3>1. n \in Names /\ saved[n] # None /\ ~saved[n].done
        BY <1>3, <2>1 DEF FullInv, TaskInv, Saving
      <3>2. MetadataTmp(n) \in Paths /\ MetadataTmp(n)[1] = n /\ n # "active"
        BY <3>1, NamePaths, NameFacts
      <3>3. Do(Unlink(MetadataTmp(n)))
        BY <1>3, <2>1 DEF Abort
      <3>4. DiskInv' /\ Keeps({MetadataTmp(n)}) /\ Fades({})
        BY <1>1, <3>2, <3>3, UnlinkCall DEF StateInv
      <3>5. SparesSaved({MetadataTmp(n)}) /\ \A x \in {MetadataTmp(n)} : x[1] # "active"
        BY <3>1, <3>2 DEF SparesSaved
      <3> QED BY <3>4, <3>5
    <2>2. CASE task.kind # "save"
      <3>1. DiskInv' /\ Keeps({}) /\ Fades({})
        BY <1>1, <2>2, SameDisk DEF StateInv, Abort
      <3> QED BY <3>1 DEF SparesSaved
    <2> QED BY <2>1, <2>2
  <1>5. CASE task.kind \in {"open", "restore"}
    <2>1. task' = Closed /\ tree' = {} /\ next_run_number' \in 1 .. MaxRun + 1
      BY <1>1, <1>5 DEF Abort, Aborted, StateInv, ProcTypes
    <2> QED BY <1>1, <1>2, <1>4, <2>1, EndRest
  <1>6. CASE task.kind \in {"write", "save", "remove"}
    <2>1. task' = Ready /\ Open
      BY <1>6 DEF Abort, Aborted, Open
    <2> QED BY <1>1, <1>2, <1>4, <2>1, ReadyRest
  <1> QED BY <1>5, <1>6 DEF Abort

\* The death of the process keeps the invariant.
LEMMA CrashKeeps ==
  ASSUME FullInv, Crash
  PROVE  FullInv'
PROOF
  <1>1. StateInv /\ UNCHANGED <<session, saved>> /\ task' = Closed /\ tree' = {}
    BY DEF FullInv, Crash
  <1>2. mishaps' \in 0 .. MaxMishaps
    BY <1>1, MishapCount DEF Crash
  <1>3. DiskInv' /\ Keeps({}) /\ Fades({})
    BY <1>1, SameDisk DEF StateInv, Crash
  <1>4. next_run_number' \in 1 .. MaxRun + 1
    BY DiskAssumption DEF Crash
  <1> QED BY <1>1, <1>2, <1>3, <1>4, EndRest DEF SparesSaved

---------------------------------------------------------------------------
(* The plans of the operations.                                            *)

\* The calls of all runs of a set, when each run has the calls f[r].
LEMMA PlanRange ==
  ASSUME NEW S, NEW R, IsFiniteSet(R), NEW f \in [R -> Seq(S)]
  PROVE  LET s == SetToSeq(R)
             p == FlattenSeq([i \in DOMAIN s |-> f[s[i]]])
         IN  p \in Seq(S) /\ Range(p) = UNION {Range(f[r]) : r \in R}
PROOF
  <1> DEFINE s == SetToSeq(R)
             q == [i \in DOMAIN s |-> f[s[i]]]
  <1>1. s \in Seq(R) /\ Range(s) = R
    BY SetToSeqIs
  <1> HIDE DEF s
  <1>2. DOMAIN s = 1 .. Len(s) /\ Len(s) \in Nat /\ \A i \in 1 .. Len(s) : s[i] \in R
    BY <1>1, LenProperties, ElementOfSeq
  <1>3. q \in Seq(Seq(S))
    <2> DEFINE T == Seq(S)
    <2>1. \A i \in 1 .. Len(s) : f[s[i]] \in T
      BY <1>2
    <2> HIDE DEF T
    <2>2. q \in Seq(T)
      BY <1>2, <2>1
    <2> QED BY <2>2 DEF T
  <1>4. {Range(q[i]) : i \in DOMAIN q} = {Range(f[r]) : r \in R}
    <2>1. \A i \in DOMAIN s : q[i] = f[s[i]] /\ s[i] \in R
      BY <1>2
    <2>2. \A r \in R : \E i \in DOMAIN s : s[i] = r
      BY <1>1 DEF Range
    <2>3. DOMAIN q = DOMAIN s
      OBVIOUS
    <2> HIDE DEF q
    <2> QED BY <2>1, <2>2, <2>3
  <1> HIDE DEF q
  <1>5. FlattenSeq(q) \in Seq(S) /\ Range(FlattenSeq(q)) = UNION {Range(f[r]) : r \in R}
    BY <1>3, <1>4, FlattenRange
  <1> QED BY <1>5 DEF q, s

\* A call for each file of a run.
LEMMA EachComp ==
  ASSUME NEW g
  PROVE  LET s == [i \in DOMAIN Components |-> g[Components[i]]]
         IN  s \in Seq({g[c] : c \in Comps}) /\ Range(s) = {g[c] : c \in Comps}
PROOF
  <1> DEFINE s == [i \in DOMAIN Components |-> g[Components[i]]]
             G == {g[c] : c \in Comps}
  <1>1. DOMAIN Components = 1 .. Len(Components) /\ Len(Components) \in Nat
    BY CompsIs, LenProperties
  <1>2. \A i \in DOMAIN Components : Components[i] \in Comps
    BY DEF Comps, Range
  <1>3. \A c \in Comps : \E i \in DOMAIN Components : Components[i] = c
    BY DEF Comps, Range
  <1>4. Range(s) = G
    <2>1. DOMAIN s = DOMAIN Components /\ \A i \in DOMAIN Components : s[i] = g[Components[i]]
      OBVIOUS
    <2> HIDE DEF s
    <2> QED BY <1>2, <1>3, <2>1 DEF Range
  <1>5. s \in Seq(G)
    <2>1. \A i \in 1 .. Len(Components) : g[Components[i]] \in G
      BY <1>1, <1>2
    <2> HIDE DEF G
    <2> QED BY <1>1, <2>1
  <1> QED BY <1>4, <1>5

\* Sets of run numbers are finite.
LEMMA FiniteRuns ==
  ASSUME NEW R \in SUBSET Runs
  PROVE  IsFiniteSet(R)
PROOF
  <1>1. IsFiniteSet(Runs)
    BY DiskAssumption, FS_Interval DEF Runs
  <1> QED BY <1>1, FS_Subset

\* Deleting runs unlinks files of those runs, and does nothing else.
LEMMA DeletePlan ==
  ASSUME NEW Q \in SUBSET Runs, NEW R \in SUBSET Q
  PROVE  ForRuns(R, DeleteRun) \in Seq({Unlink(p) : p \in UNION {RunFiles("active", r) : r \in Q}})
PROOF
  <1> DEFINE S == {Unlink(p) : p \in UNION {RunFiles("active", r) : r \in Q}}
             f == [r \in R |-> DeleteRun(r)]
  <1>1. IsFiniteSet(R)
    BY FiniteRuns
  <1>2. ASSUME NEW r \in R PROVE DeleteRun(r) \in Seq(S)
    <2> DEFINE g == [c \in Comps |-> Unlink(RunFile("active", r, c))]
               s == [i \in DOMAIN Components |-> g[Components[i]]]
    <2>1. s \in Seq({g[c] : c \in Comps})
      BY EachComp
    <2>2. {g[c] : c \in Comps} \subseteq S
      BY DEF RunFiles, Comps
    <2>3. DeleteRun(r) = s
      BY DEF DeleteRun, Comps, Range
    <2> HIDE DEF s, S, g
    <2> QED BY <2>1, <2>2, <2>3
  <1>3. f \in [R -> Seq(S)]
    BY <1>2
  <1>4. LET s == SetToSeq(R) IN FlattenSeq([i \in DOMAIN s |-> f[s[i]]]) \in Seq(S)
    <2> HIDE DEF S, f
    <2> QED BY <1>1, <1>3, PlanRange
  <1>5. \A i \in DOMAIN SetToSeq(R) : SetToSeq(R)[i] \in R
    BY <1>1, SetToSeqIs, LenProperties, ElementOfSeq
  <1>6. LET s == SetToSeq(R) IN [i \in DOMAIN s |-> f[s[i]]] = [i \in DOMAIN s |-> DeleteRun(s[i])]
    BY <1>5
  <1> QED BY <1>4, <1>6 DEF ForRuns

\* Linking a run links each of its files.
LEMMA LinkRunIs ==
  ASSUME NEW d, NEW e, NEW r
  PROVE  LET S == {Link(RunFile(d, r, c), RunFile(e, r, c)) : c \in Comps}
         IN  LinkRun(d, e, r) \in Seq(S) /\ Range(LinkRun(d, e, r)) = S
PROOF
  <1> DEFINE g == [c \in Comps |-> Link(RunFile(d, r, c), RunFile(e, r, c))]
             s == [i \in DOMAIN Components |-> g[Components[i]]]
  <1>1. s \in Seq({g[c] : c \in Comps}) /\ Range(s) = {g[c] : c \in Comps}
    BY EachComp
  <1>2. {g[c] : c \in Comps} = {Link(RunFile(d, r, c), RunFile(e, r, c)) : c \in Comps}
    OBVIOUS
  <1>3. LinkRun(d, e, r) = s
    BY DEF LinkRun, Comps, Range
  <1> HIDE DEF s, g
  <1> QED BY <1>1, <1>2, <1>3

\* The links of a save, each run's followed by a sync of the directory, and of a
\* restore.
SaveLinks(n, R) ==
  FlattenSeq(LET s == SetToSeq(R) IN [i \in DOMAIN s |-> LinkRun("active", n, s[i]) \o <<SyncDir(n)>>])
RestoreLinks(n, R) ==
  FlattenSeq(LET s == SetToSeq(R) IN [i \in DOMAIN s |-> LinkRun(n, "active", s[i])])

LinksAll(p, n, R) ==
  /\ p \in Seq({SLink(n, r, c) : r \in R, c \in Comps} \union {SyncDir(n)})
  /\ \A r \in R, c \in Comps : SLink(n, r, c) \in Range(p)

\* A save links every file of every run it is of, and syncs between.
LEMMA SLinkPlan ==
  ASSUME NEW n, NEW R \in SUBSET Runs
  PROVE  LinksAll(SaveLinks(n, R), n, R)
PROOF
  <1> DEFINE L == {SLink(n, r, c) : r \in R, c \in Comps}
             S == L \union {SyncDir(n)}
             f == [r \in R |-> LinkRun("active", n, r) \o <<SyncDir(n)>>]
  <1>1. IsFiniteSet(R)
    BY FiniteRuns
  <1>2. ASSUME NEW r \in R
        PROVE  f[r] \in Seq(S) /\ \A c \in Comps : SLink(n, r, c) \in Range(f[r])
    <2> DEFINE K == {SLink(n, r, c) : c \in Comps}
               a == LinkRun("active", n, r)
               b == <<SyncDir(n)>>
    <2>1. a \in Seq(K) /\ Range(a) = K
      BY LinkRunIs DEF SLink
    <2>2. K \subseteq S
      OBVIOUS
    <2>3. b \in Seq(S)
      OBVIOUS
    <2>4. \A c \in Comps : SLink(n, r, c) \in K
      OBVIOUS
    <2>0. f[r] = a \o b
      OBVIOUS
    <2> HIDE DEF K, S, a, b, f
    <2>5. a \in Seq(S)
      BY <2>1, <2>2
    <2>6. a \o b \in Seq(S) /\ Range(a \o b) = K \union Range(b)
      BY <2>1, <2>3, <2>5, ConcatPlaces, ConcatRange
    <2> QED BY <2>0, <2>4, <2>6
  <1>3. f \in [R -> Seq(S)]
    BY <1>2
  <1> DEFINE s == SetToSeq(R)
             p == FlattenSeq([i \in DOMAIN s |-> f[s[i]]])
  <1>4. p \in Seq(S) /\ Range(p) = UNION {Range(f[r]) : r \in R}
    <2> HIDE DEF S, f
    <2> QED BY <1>1, <1>3, PlanRange
  <1>5. \A i \in DOMAIN s : s[i] \in R
    BY <1>1, SetToSeqIs, LenProperties, ElementOfSeq
  <1>6. [i \in DOMAIN s |-> f[s[i]]] = [i \in DOMAIN s |-> LinkRun("active", n, s[i]) \o <<SyncDir(n)>>]
    BY <1>5
  <1>7. SaveLinks(n, R) = p
    BY <1>6 DEF SaveLinks
  <1>8. L \subseteq Range(p)
    <2> HIDE DEF p
    <2> HIDE DEF f, S, L, s
    <2>2. \A r \in R, c \in Comps : SLink(n, r, c) \in Range(f[r])
      BY <1>2
    <2> QED BY <1>4, <2>2 DEF L
  <1> HIDE DEF p, L
  <1> QED BY <1>4, <1>7, <1>8 DEF L, LinksAll

\* A restore links files of the runs it is of.
LEMMA RLinkPlan ==
  ASSUME NEW n, NEW R \in SUBSET Runs
  PROVE  RestoreLinks(n, R) \in Seq({RLink(n, r, c) : r \in R, c \in Comps})
PROOF
  <1> DEFINE S == {RLink(n, r, c) : r \in R, c \in Comps}
             f == [r \in R |-> LinkRun(n, "active", r)]
             s == SetToSeq(R)
             p == FlattenSeq([i \in DOMAIN s |-> f[s[i]]])
  <1>1. IsFiniteSet(R)
    BY FiniteRuns
  <1>2. ASSUME NEW r \in R PROVE LinkRun(n, "active", r) \in Seq(S)
    <2> DEFINE K == {RLink(n, r, c) : c \in Comps}
    <2>1. LinkRun(n, "active", r) \in Seq(K)
      BY LinkRunIs DEF RLink
    <2>2. K \subseteq S
      OBVIOUS
    <2> HIDE DEF K, S
    <2> QED BY <2>1, <2>2
  <1>3. f \in [R -> Seq(S)]
    BY <1>2
  <1>4. p \in Seq(S)
    <2> HIDE DEF S, f
    <2> QED BY <1>1, <1>3, PlanRange
  <1>5. \A i \in DOMAIN s : s[i] \in R
    BY <1>1, SetToSeqIs, LenProperties, ElementOfSeq
  <1>6. [i \in DOMAIN s |-> f[s[i]]] = [i \in DOMAIN s |-> LinkRun(n, "active", s[i])]
    BY <1>5
  <1>7. RestoreLinks(n, R) = p
    BY <1>6 DEF RestoreLinks
  <1> HIDE DEF p, S
  <1> QED BY <1>4, <1>7 DEF S

\* The plan of a restore.
LEMMA RestorePlan ==
  ASSUME NEW n, NEW R \in SUBSET Runs
  PROVE  /\ Restore(n, R) \in Seq({SyncDir("snapshots"), SyncDir("active"), UnlinkAll("active")}
                                    \union {RLink(n, r, c) : r \in R, c \in Comps})
         /\ EndsWith(Restore(n, R), SyncDir("active")) /\ Restore(n, R) # <<>>
         /\ UnlinkAll("active") \in Range(Restore(n, R))
PROOF
  <1> DEFINE L == {RLink(n, r, c) : r \in R, c \in Comps}
             S == {SyncDir("snapshots"), SyncDir("active"), UnlinkAll("active")} \union L
             a == <<SyncDir("snapshots"), UnlinkAll("active")>>
             b == RestoreLinks(n, R)
             c == <<SyncDir("active")>>
  <1>1. a \in Seq(S) /\ UnlinkAll("active") \in Range(a)
    <2>1. a \in Seq(S)
      OBVIOUS
    <2>2. 2 \in DOMAIN a /\ a[2] = UnlinkAll("active")
      OBVIOUS
    <2> HIDE DEF a
    <2> QED BY <2>1, <2>2 DEF Range
  <1>2. c \in Seq(S) /\ c # <<>> /\ EndsWith(c, SyncDir("active"))
    BY DEF EndsWith
  <1>3. b \in Seq(S)
    <2>1. b \in Seq(L)
      BY RLinkPlan
    <2>2. L \subseteq S
      OBVIOUS
    <2> HIDE DEF L, S, b
    <2> QED BY <2>1, <2>2
  <1>4. Restore(n, R) = (a \o b) \o c
    BY DEF Restore, RestoreLinks, ForRuns
  <1> HIDE DEF L, a, b, c
  <1>5. a \o b \in Seq(S) /\ Range(a \o b) = Range(a) \union Range(b)
    <2> HIDE DEF S
    <2> QED BY <1>1, <1>3, ConcatPlaces, ConcatRange
  <1>6. PICK d \in Seq(S) : d = a \o b
    BY <1>5
  <1>7. d \o c \in Seq(S) /\ Range(d \o c) = Range(d) \union Range(c) /\ EndsWith(d \o c, SyncDir("active"))
        /\ Len(d \o c) # 0
    <2> HIDE DEF S
    <2>1. d \o c \in Seq(S) /\ Range(d \o c) = Range(d) \union Range(c) /\ EndsWith(d \o c, SyncDir("active"))
      BY <1>2, ConcatPlaces, ConcatRange, EndsConcat
    <2>2. Len(d \o c) = Len(d) + Len(c) /\ Len(d) \in Nat /\ Len(c) \in Nat
      BY <1>2, ConcatPlaces
    <2>3. Len(c) = 1
      BY DEF c
    <2> QED BY <2>1, <2>2, <2>3
  <1> QED BY <1>1, <1>4, <1>5, <1>6, <1>7 DEF L

\* Five elements and three are eight.
LEMMA JoinTuples ==
  ASSUME NEW a, NEW b, NEW c, NEW d, NEW e, NEW f, NEW g, NEW h
  PROVE  <<a, b, c, d, e>> \o <<f, g, h>> = <<a, b, c, d, e, f, g, h>>
PROOF
  <1>0. PICK S, s, t, u : /\ S = {a, b, c, d, e, f, g, h} /\ s = <<a, b, c, d, e>> /\ t = <<f, g, h>>
                         /\ u = <<a, b, c, d, e, f, g, h>>
    OBVIOUS
  <1>1. s \in Seq(S) /\ t \in Seq(S) /\ u \in Seq(S) /\ Len(s) = 5 /\ Len(t) = 3 /\ Len(u) = 8
    BY <1>0
  <1>2. /\ s[1] = a /\ s[2] = b /\ s[3] = c /\ s[4] = d /\ s[5] = e /\ t[1] = f /\ t[2] = g /\ t[3] = h
        /\ u[1] = a /\ u[2] = b /\ u[3] = c /\ u[4] = d /\ u[5] = e /\ u[6] = f /\ u[7] = g /\ u[8] = h
    BY <1>0
  <1>3. /\ s \o t \in Seq(S) /\ Len(s \o t) = Len(s) + Len(t)
        /\ \A i \in 1 .. Len(s) : (s \o t)[i] = s[i]
        /\ \A i \in 1 .. Len(t) : (s \o t)[Len(s) + i] = t[i]
    <2>1. s \in Seq(S) /\ t \in Seq(S)
      BY <1>1
    <2> QED BY <2>1, ConcatPlaces
  <1> DEFINE v == s \o t
  <1>30. v[1] = a /\ v[2] = b /\ v[3] = c /\ v[4] = d /\ v[5] = e /\ v[6] = f /\ v[7] = g /\ v[8] = h
    <2> HIDE DEF v
    <2>1. \A i \in 1 .. 5 : v[i] = s[i]
      BY <1>1, <1>3 DEF v
    <2>2. \A i \in 1 .. 3 : v[5 + i] = t[i]
      BY <1>1, <1>3 DEF v
    <2>3. v[5 + 1] = t[1] /\ v[5 + 2] = t[2] /\ v[5 + 3] = t[3]
      BY <2>2
    <2> QED BY <1>2, <2>1, <2>3
  <1>4. \A i \in 1 .. 8 : v[i] = u[i]
    <2>1. \A i \in 1 .. 8 : i = 1 \/ i = 2 \/ i = 3 \/ i = 4 \/ i = 5 \/ i = 6 \/ i = 7 \/ i = 8
      OBVIOUS
    <2> HIDE DEF v
    <2> QED BY <1>2, <1>30, <2>1
  <1>5. s \o t = u
    <2>1. v \in Seq(S) /\ u \in Seq(S) /\ Len(v) = Len(u) /\ \A i \in 1 .. Len(v) : v[i] = u[i]
      <3>1. Len(v) = 8
        BY <1>1, <1>3
      <3> HIDE DEF v
      <3> QED BY <1>1, <1>3, <1>4, <3>1 DEF v
    <2> HIDE DEF v
    <2>2. v = u
      BY <2>1, SeqEqual
    <2> QED BY <2>2 DEF v
  <1> QED BY <1>0, <1>5

\* The plan of a save.
LEMMA SavePlan ==
  ASSUME NEW n \in Names, NEW R \in SUBSET Runs, NEW m, m = [runs |-> R]
  PROVE  LET s == Save(n, R)
         IN  /\ SOrder(s, n, R, m) /\ s # <<>>
             /\ SCalls(n, R, m) \subseteq Range(s)
PROOF
  <1> DEFINE L == {SLink(n, r, c) : r \in R, c \in Comps}
             S == SCalls(n, R, m)
             tmp == MetadataTmp(n)
             mc == MetadataChecksum(n)
             a == <<CreateNew(SnapshotDir(n))>>
             b == SaveLinks(n, R)
             e == <<OpenTruncate(tmp), Write(tmp, m), SyncFile(tmp), MRename(n), SyncDir(n),
                    OpenTruncate(mc), Write(mc, m), SyncDir(n)>>
  <1>1. tmp # mc
    BY SPaths
  <1>2. Metadata(n)[1] = n
    BY SPaths
  <1>3. Save(n, R) = (a \o b) \o e
    <2>1. AtomicCommit(tmp, Metadata(n), m) =
            <<OpenTruncate(tmp), Write(tmp, m), SyncFile(tmp), MRename(n), SyncDir(n)>>
      BY <1>2 DEF AtomicCommit, MRename
    <2>2. Save(n, R) = a \o b \o AtomicCommit(tmp, Metadata(n), m)
                         \o <<OpenTruncate(mc), Write(mc, m), SyncDir(n)>>
      BY DEF Save, SaveLinks, ForRuns
    <2>3. PICK x \in Seq(S) : x = a \o b
      <3>1. a \in Seq(S)
        BY DEF SCalls
      <3>2. b \in Seq(S)
        <4>1. b \in Seq(L \union {SyncDir(n)})
          BY SLinkPlan DEF LinksAll
        <4>2. L \union {SyncDir(n)} \subseteq S
          BY DEF SCalls
        <4> HIDE DEF L, S, b
        <4> QED BY <4>1, <4>2
      <3> HIDE DEF S, a, b
      <3> QED BY <3>1, <3>2, ConcatPlaces
    <2>4. PICK f, g : /\ f = <<OpenTruncate(tmp), Write(tmp, m), SyncFile(tmp), MRename(n), SyncDir(n)>>
                      /\ g = <<OpenTruncate(mc), Write(mc, m), SyncDir(n)>>
      OBVIOUS
    <2>5. f \in Seq(S) /\ g \in Seq(S) /\ e \in Seq(S)
      BY <2>4 DEF SCalls
    <2>6. f \o g = e
      BY <2>4, JoinTuples
    <2>7. (x \o f) \o g = x \o (f \o g)
      <3> HIDE DEF S, e
      <3> QED BY <2>5
    <2> HIDE DEF S, tmp, mc, a, b, e
    <2> QED BY <2>1, <2>2, <2>3, <2>4, <2>6, <2>7
  <1>4. PICK x \in Seq(S) : /\ x = a \o b /\ Range(x) \subseteq L \union {SyncDir(n), CreateNew(SnapshotDir(n))}
                            /\ L \union {CreateNew(SnapshotDir(n))} \subseteq Range(x)
    <2> DEFINE T == L \union {SyncDir(n), CreateNew(SnapshotDir(n))}
    <2>1. T \subseteq S
      BY DEF SCalls
    <2>2. a \in Seq(T) /\ Range(a) = {CreateNew(SnapshotDir(n))}
      <3>1. a \in Seq(T)
        OBVIOUS
      <3> QED BY <3>1 DEF Range
    <2>3. b \in Seq(L \union {SyncDir(n)}) /\ L \subseteq Range(b)
      <3>1. b \in Seq(L \union {SyncDir(n)})
        BY SLinkPlan DEF LinksAll
      <3>2. L \subseteq Range(b)
        <4>0. LinksAll(b, n, R)
          BY SLinkPlan
        <4>1. \A r \in R, c \in Comps : SLink(n, r, c) \in Range(b)
          <5> HIDE DEF b
          <5> QED BY <4>0 DEF LinksAll
        <4> HIDE DEF b
        <4> QED BY <4>1
      <3> HIDE DEF L, b
      <3> QED BY <3>1, <3>2
    <2>4. b \in Seq(T)
      <3>1. L \union {SyncDir(n)} \subseteq T
        OBVIOUS
      <3> HIDE DEF L, T, b
      <3> QED BY <2>3, <3>1
    <2> DEFINE c == a \o b
    <2>5. c \in Seq(T) /\ Range(c) = Range(a) \union Range(b)
      <3> HIDE DEF T, a, b
      <3> QED BY <2>2, <2>4, ConcatPlaces, ConcatRange
    <2>6. Range(c) \subseteq T
      <3> HIDE DEF T, c
      <3> QED BY <2>5, LenProperties, ElementOfSeq DEF Range
    <2>7. c \in Seq(S)
      <3> HIDE DEF T, S, c
      <3> QED BY <2>1, <2>5
    <2>8. L \union {CreateNew(SnapshotDir(n))} \subseteq Range(c)
      <3> HIDE DEF L, c
      <3> QED BY <2>2, <2>3, <2>5
    <2>9. c = a \o b
      OBVIOUS
    <2>10. Range(c) \subseteq L \union {SyncDir(n), CreateNew(SnapshotDir(n))}
      BY <2>6
    <2> HIDE DEF c, S, L, T, a, b
    <2> QED BY <2>7, <2>8, <2>9, <2>10
  <1>5. e \in Seq(S)
    BY DEF SCalls
  <1>6. PICK w : /\ w = e /\ DOMAIN w = 1 .. 8 /\ Len(w) = 8 /\ w # <<>>
                 /\ w[1] = OpenTruncate(tmp) /\ w[2] = Write(tmp, m) /\ w[3] = SyncFile(tmp)
                 /\ w[4] = MRename(n) /\ w[5] = SyncDir(n) /\ w[6] = OpenTruncate(mc)
                 /\ w[7] = Write(mc, m) /\ w[8] = SyncDir(n)
    <2>1. /\ DOMAIN e = 1 .. 8 /\ Len(e) = 8 /\ e # <<>>
          /\ e[1] = OpenTruncate(tmp) /\ e[2] = Write(tmp, m) /\ e[3] = SyncFile(tmp)
          /\ e[4] = MRename(n) /\ e[5] = SyncDir(n) /\ e[6] = OpenTruncate(mc)
          /\ e[7] = Write(mc, m) /\ e[8] = SyncDir(n)
      OBVIOUS
    <2> HIDE DEF e
    <2> QED BY <2>1
  <1>7. /\ \A p, q : /\ OpenTruncate(p) # SyncDir(q) /\ OpenTruncate(p) # SyncFile(q)
                     /\ OpenTruncate(p) # Write(q, m) /\ Write(p, m) # SyncFile(q)
                     /\ Write(p, m) # SyncDir(q) /\ SyncFile(p) # SyncDir(q)
                     /\ OpenTruncate(p) # MRename(n) /\ CreateNew(p) # MRename(n)
                     /\ CreateNew(p) # OpenTruncate(q) /\ CreateNew(p) # Write(q, m)
                     /\ Write(p, m) # MRename(n) /\ SyncFile(p) # MRename(n) /\ SyncDir(p) # MRename(n)
                     /\ p # q => OpenTruncate(p) # OpenTruncate(q) /\ Write(p, m) # Write(q, m)
        /\ \A r, c : /\ SLink(n, r, c) # MRename(n)
                     /\ \A p : SLink(n, r, c) # OpenTruncate(p) /\ SLink(n, r, c) # Write(p, m)
    BY SCallsApart
  <1>8. /\ OpenTruncate(tmp) \notin Range(x) /\ OpenTruncate(mc) \notin Range(x)
        /\ Write(tmp, m) \notin Range(x) /\ Write(mc, m) \notin Range(x) /\ MRename(n) \notin Range(x)
    <2>1. \A y \in L \union {SyncDir(n), CreateNew(SnapshotDir(n))} :
            \/ y = SyncDir(n) \/ y = CreateNew(SnapshotDir(n)) \/ \E r, c : y = SLink(n, r, c)
      OBVIOUS
    <2>2. \A y \in L \union {SyncDir(n), CreateNew(SnapshotDir(n))} :
            \A p : y # OpenTruncate(p) /\ y # Write(p, m) /\ y # MRename(n)
      BY <1>7, <2>1
    <2> HIDE DEF tmp, mc, L
    <2> QED BY <1>4, <2>2
  <1> HIDE DEF tmp, mc, a, b, e, L
  <1>9. /\ EndsWith(w, SyncDir(n))
        /\ Never(w, Write(tmp, m), OpenTruncate(tmp)) /\ Never(w, OpenTruncate(tmp), OpenTruncate(tmp))
        /\ Never(w, Write(mc, m), OpenTruncate(mc)) /\ Never(w, OpenTruncate(mc), OpenTruncate(mc))
        /\ Later(w, Write(tmp, m), SyncFile(tmp))
        /\ \A c \in {Write(tmp, m), SyncFile(tmp), MRename(n)} : Never(w, MRename(n), c)
    <2>1. EndsWith(w, SyncDir(n))
      BY <1>6 DEF EndsWith
    <2>2. \A i \in 1 .. 8 : i = 1 \/ i = 2 \/ i = 3 \/ i = 4 \/ i = 5 \/ i = 6 \/ i = 7 \/ i = 8
      OBVIOUS
    <2>3. /\ \A i \in 1 .. 8 : w[i] = OpenTruncate(tmp) => i = 1
          /\ \A i \in 1 .. 8 : w[i] = Write(tmp, m) => i = 2
          /\ \A i \in 1 .. 8 : w[i] = SyncFile(tmp) => i = 3
          /\ \A i \in 1 .. 8 : w[i] = MRename(n) => i = 4
          /\ \A i \in 1 .. 8 : w[i] = OpenTruncate(mc) => i = 6
          /\ \A i \in 1 .. 8 : w[i] = Write(mc, m) => i = 7
      BY <1>1, <1>6, <1>7, <2>2
    <2>4. Later(w, Write(tmp, m), SyncFile(tmp))
      BY <1>6, <2>3 DEF Later
    <2>5. /\ Never(w, Write(tmp, m), OpenTruncate(tmp)) /\ Never(w, OpenTruncate(tmp), OpenTruncate(tmp))
          /\ Never(w, Write(mc, m), OpenTruncate(mc)) /\ Never(w, OpenTruncate(mc), OpenTruncate(mc))
      BY <1>6, <2>3 DEF Never
    <2>6. \A c \in {Write(tmp, m), SyncFile(tmp), MRename(n)} : Never(w, MRename(n), c)
      BY <1>6, <2>3 DEF Never
    <2> QED BY <2>1, <2>4, <2>5, <2>6
  <1>10. w \in Seq(S)
    BY <1>5, <1>6
  <1> HIDE DEF S
  <1> DEFINE s == x \o w
  <1>11. s \in Seq(S) /\ Range(s) = Range(x) \union Range(w) /\ EndsWith(s, SyncDir(n))
    BY <1>6, <1>9, <1>10, ConcatPlaces, ConcatRange, EndsConcat
  <1>12. \A y \in {Write(tmp, m), OpenTruncate(tmp), Write(mc, m), OpenTruncate(mc), MRename(n)} :
           y \notin Range(x)
    BY <1>8
  <1>13. \A y \in {Write(tmp, m), OpenTruncate(tmp), Write(mc, m), OpenTruncate(mc), MRename(n)} : \A z :
           /\ Never(w, y, z) => Never(s, y, z)
           /\ Later(w, y, z) => Later(s, y, z)
    <2> TAKE y \in {Write(tmp, m), OpenTruncate(tmp), Write(mc, m), OpenTruncate(mc), MRename(n)}
    <2> TAKE z
    <2>1. y \notin Range(x)
      BY <1>12
    <2>2. Never(x, y, z) /\ Later(x, y, z)
      BY <2>1, AbsentOrder
    <2> QED BY <1>10, <2>1, <2>2, NeverConcat, LaterConcat
  <1>14. SOrder(s, n, R, m)
    <2>1. Later(s, Write(tmp, m), SyncFile(tmp))
      BY <1>9, <1>13
    <2>2. \A p \in {tmp, mc} : Never(s, Write(p, m), OpenTruncate(p)) /\ Never(s, OpenTruncate(p), OpenTruncate(p))
      BY <1>9, <1>13
    <2>3. \A c \in {Write(tmp, m), SyncFile(tmp), MRename(n)} : Never(s, MRename(n), c)
      BY <1>9, <1>13
    <2> HIDE DEF s
    <2> QED BY <1>11, <2>1, <2>2, <2>3 DEF SOrder, S, tmp, mc
  <1>15. S \subseteq Range(s)
    <2>1. \A i \in 1 .. 8 : w[i] \in Range(w)
      BY <1>6 DEF Range
    <2>2. {OpenTruncate(tmp), Write(tmp, m), SyncFile(tmp), MRename(n), SyncDir(n), OpenTruncate(mc), Write(mc, m)}
            \subseteq Range(w)
      BY <1>6, <2>1
    <2> HIDE DEF s
    <2> QED BY <1>4, <1>11, <2>2 DEF S, SCalls, L, tmp, mc
  <1>16. s # <<>>
    <2>1. CreateNew(SnapshotDir(n)) \in Range(s)
      BY <1>15 DEF S, SCalls
    <2> HIDE DEF s
    <2> QED BY <2>1 DEF Range
  <1>17. Save(n, R) = s
    BY <1>3, <1>4, <1>6
  <1> HIDE DEF s
  <1> QED BY <1>14, <1>15, <1>16, <1>17 DEF S

\* The calls that write the files C of a run, and their order.
FileCalls(t, C) == UNION {{CreateNew(File(t, c)), Write(File(t, c), t), SyncFile(File(t, c))} : c \in C}
InOrder(s, t, C) ==
  /\ s \in Seq(FileCalls(t, C)) /\ FileCalls(t, C) \subseteq Range(s)
  /\ \A c \in C : /\ Never(s, CreateNew(File(t, c)), CreateNew(File(t, c)))
                  /\ Never(s, Write(File(t, c), t), CreateNew(File(t, c)))
                  /\ Later(s, Write(File(t, c), t), SyncFile(File(t, c)))

\* The calls on the files of a run are all different.
LEMMA FileCallsApart ==
  ASSUME NEW t
  PROVE  /\ \A p, q : /\ CreateNew(p) # Write(q, t) /\ CreateNew(p) # SyncFile(q) /\ Write(p, t) # SyncFile(q)
                      /\ p # q => CreateNew(p) # CreateNew(q) /\ Write(p, t) # Write(q, t)
         /\ \A c, d : c # d => File(t, c) # File(t, d)
PROOF
  <1>1. \A c : File(t, c)[3] = c
    BY DEF File, RunFile
  <1>2. \A c, d : c # d => File(t, c) # File(t, d)
    BY <1>1
  <1> QED BY <1>2, CallParts

\* Files written in order, and then others, are all written in order.
LEMMA InOrderConcat ==
  ASSUME NEW t, NEW C, NEW D, C \intersect D = {}, NEW a, NEW b, InOrder(a, t, C), InOrder(b, t, D)
  PROVE  InOrder(a \o b, t, C \union D)
PROOF
  <1> DEFINE S == FileCalls(t, C \union D)
  <1>1. FileCalls(t, C) \subseteq S /\ FileCalls(t, D) \subseteq S /\ S = FileCalls(t, C) \union FileCalls(t, D)
    BY DEF FileCalls
  <1>2. a \in Seq(S) /\ b \in Seq(S)
    <2>1. a \in Seq(FileCalls(t, C)) /\ b \in Seq(FileCalls(t, D))
      BY DEF InOrder
    <2> HIDE DEF S
    <2> QED BY <1>1, <2>1
  <1>3. a \o b \in Seq(S) /\ Range(a \o b) = Range(a) \union Range(b)
    <2> HIDE DEF S
    <2> QED BY <1>2, ConcatPlaces, ConcatRange
  <1>4. Range(a) \subseteq FileCalls(t, C) /\ Range(b) \subseteq FileCalls(t, D)
    <2>1. a \in Seq(FileCalls(t, C)) /\ b \in Seq(FileCalls(t, D))
      BY DEF InOrder
    <2> QED BY <2>1, LenProperties, ElementOfSeq DEF Range
  <1>5. \A c : /\ c \notin C => /\ CreateNew(File(t, c)) \notin FileCalls(t, C)
                                /\ Write(File(t, c), t) \notin FileCalls(t, C)
               /\ c \notin D => /\ CreateNew(File(t, c)) \notin FileCalls(t, D)
                                /\ Write(File(t, c), t) \notin FileCalls(t, D)
    BY FileCallsApart DEF FileCalls
  <1> HIDE DEF S
  <1>6. ASSUME NEW c \in C \union D
        PROVE  /\ Never(a \o b, CreateNew(File(t, c)), CreateNew(File(t, c)))
               /\ Never(a \o b, Write(File(t, c), t), CreateNew(File(t, c)))
               /\ Later(a \o b, Write(File(t, c), t), SyncFile(File(t, c)))
    <2>0. PICK x, y, z : x = CreateNew(File(t, c)) /\ y = Write(File(t, c), t) /\ z = SyncFile(File(t, c))
      OBVIOUS
    <2>1. CASE c \in C
      <3>1. x \notin Range(b) /\ y \notin Range(b)
        BY <1>4, <1>5, <2>0, <2>1
      <3>2. Never(b, x, x) /\ Never(b, y, x) /\ Later(b, y, z)
        BY <1>2, <3>1, AbsentOrder
      <3>3. Never(a, x, x) /\ Never(a, y, x) /\ Later(a, y, z)
        BY <2>0, <2>1 DEF InOrder
      <3>4. Never(a \o b, x, x) /\ Never(a \o b, y, x)
        BY <1>2, <3>1, <3>2, <3>3, NeverConcat
      <3>5. Later(a \o b, y, z)
        BY <1>2, <3>2, <3>3, LaterConcat
      <3> QED BY <2>0, <3>4, <3>5
    <2>2. CASE c \in D
      <3>1. x \notin Range(a) /\ y \notin Range(a)
        BY <1>4, <1>5, <2>0, <2>2
      <3>2. Never(a, x, x) /\ Never(a, y, x) /\ Later(a, y, z)
        BY <1>2, <3>1, AbsentOrder
      <3>3. Never(b, x, x) /\ Never(b, y, x) /\ Later(b, y, z)
        BY <2>0, <2>2 DEF InOrder
      <3>4. Never(a \o b, x, x) /\ Never(a \o b, y, x)
        BY <1>2, <3>1, <3>2, <3>3, NeverConcat
      <3>5. Later(a \o b, y, z)
        BY <1>2, <3>2, <3>3, LaterConcat
      <3> QED BY <2>0, <3>4, <3>5
    <2> QED BY <2>1, <2>2
  <1>7. S \subseteq Range(a \o b)
    BY <1>1, <1>3 DEF InOrder
  <1> QED BY <1>3, <1>6, <1>7 DEF InOrder, S

\* WriteSynced creates a file, writes it, and syncs it.
LEMMA InOrderOne ==
  ASSUME NEW t, NEW c
  PROVE  InOrder(WriteSynced(File(t, c), t), t, {c})
PROOF
  <1>0. PICK x, y, z : x = CreateNew(File(t, c)) /\ y = Write(File(t, c), t) /\ z = SyncFile(File(t, c))
    OBVIOUS
  <1>1. x # y /\ x # z /\ y # z
    BY <1>0, FileCallsApart
  <1>2. PICK s : s = <<x, y, z>>
    OBVIOUS
  <1>3. /\ s \in Seq({x, y, z}) /\ DOMAIN s = 1 .. 3 /\ s[1] = x /\ s[2] = y /\ s[3] = z
    BY <1>2
  <1>4. \A i \in 1 .. 3 : i = 1 \/ i = 2 \/ i = 3
    OBVIOUS
  <1>5. {x, y, z} \subseteq Range(s)
    BY <1>3 DEF Range
  <1>6. (\A i \in 1 .. 3 : s[i] = x => i = 1) /\ (\A i \in 1 .. 3 : s[i] = y => i = 2)
    BY <1>1, <1>3, <1>4
  <1>7. Never(s, x, x) /\ Never(s, y, x) /\ Later(s, y, z)
    BY <1>3, <1>6 DEF Never, Later
  <1>8. FileCalls(t, {c}) = {x, y, z}
    BY <1>0 DEF FileCalls
  <1>9. s = WriteSynced(File(t, c), t)
    BY <1>0, <1>2 DEF WriteSynced
  <1> QED BY <1>0, <1>3, <1>5, <1>7, <1>8, <1>9 DEF InOrder

\* keyops and blobs are created, written and synced in that order.
LEMMA InOrderFirst ==
  ASSUME NEW t
  PROVE  LET k == File(t, "keyops")
             b == File(t, "blobs")
         IN  InOrder(<<CreateNew(k), CreateNew(b), Write(k, t), Write(b, t), SyncFile(k), SyncFile(b)>>,
                     t, {"keyops", "blobs"})
PROOF
  <1>0. PICK k, b : k = File(t, "keyops") /\ b = File(t, "blobs")
    OBVIOUS
  <1>1. k # b
    BY <1>0, FileCallsApart
  <1>2. PICK x, y, z, u, v, w : /\ x = CreateNew(k) /\ y = Write(k, t) /\ z = SyncFile(k)
                                /\ u = CreateNew(b) /\ v = Write(b, t) /\ w = SyncFile(b)
    OBVIOUS
  <1>3. /\ x # y /\ x # z /\ x # u /\ x # v /\ x # w
        /\ y # z /\ y # u /\ y # v /\ y # w /\ u # v /\ u # w /\ v # w /\ z # u /\ z # v
    BY <1>1, <1>2, FileCallsApart
  <1>4. PICK s : s = <<x, u, y, v, z, w>>
    OBVIOUS
  <1>5. /\ s \in Seq({x, y, z, u, v, w}) /\ DOMAIN s = 1 .. 6
        /\ s[1] = x /\ s[2] = u /\ s[3] = y /\ s[4] = v /\ s[5] = z /\ s[6] = w
    BY <1>4
  <1>6. \A i \in 1 .. 6 : i = 1 \/ i = 2 \/ i = 3 \/ i = 4 \/ i = 5 \/ i = 6
    OBVIOUS
  <1>7. {x, y, z, u, v, w} \subseteq Range(s)
    BY <1>5 DEF Range
  <1>8. /\ \A i \in 1 .. 6 : s[i] = x => i = 1
        /\ \A i \in 1 .. 6 : s[i] = u => i = 2
        /\ \A i \in 1 .. 6 : s[i] = y => i = 3
        /\ \A i \in 1 .. 6 : s[i] = v => i = 4
    BY <1>3, <1>5, <1>6
  <1>9. /\ Never(s, x, x) /\ Never(s, y, x) /\ Never(s, u, u) /\ Never(s, v, u)
    BY <1>5, <1>8 DEF Never
  <1>10. Later(s, y, z) /\ Later(s, v, w)
    BY <1>5, <1>8 DEF Later
  <1>11. FileCalls(t, {"keyops", "blobs"}) = {x, y, z, u, v, w}
    BY <1>0, <1>2 DEF FileCalls
  <1>12. \A c \in {"keyops", "blobs"} :
           \/ CreateNew(File(t, c)) = x /\ Write(File(t, c), t) = y /\ SyncFile(File(t, c)) = z
           \/ CreateNew(File(t, c)) = u /\ Write(File(t, c), t) = v /\ SyncFile(File(t, c)) = w
    BY <1>0, <1>2
  <1>13. InOrder(s, t, {"keyops", "blobs"})
    BY <1>5, <1>7, <1>9, <1>10, <1>11, <1>12 DEF InOrder
  <1> QED BY <1>0, <1>2, <1>4, <1>13

\* The filter and the index are created, written and synced in that order.
LEMMA InOrderAux ==
  ASSUME NEW t
  PROVE  InOrder(FlattenSeq([i \in DOMAIN Aux |-> WriteSynced(File(t, Aux[i]), t)]), t, Range(Aux))
PROOF
  <1> DEFINE q == [i \in DOMAIN Aux |-> WriteSynced(File(t, Aux[i]), t)]
             T == Seq({Call(o, p, x) : o \in {"create_new", "write", "sync"}, p \in {File(t, c) : c \in Range(Aux)}, x \in {None, t}})
  <1>1. DOMAIN Aux = 1 .. Len(Aux) /\ Len(Aux) \in Nat
    BY DiskAssumption, LenProperties
  <1>2. DOMAIN q = 1 .. Len(Aux) /\ \A i \in 1 .. Len(Aux) : q[i] = WriteSynced(File(t, Aux[i]), t)
    BY <1>1
  <1>3. Len(q) = Len(Aux)
    BY <1>1, <1>2
  <1>4. CASE Len(Aux) = 0
    <2>1. q = <<>>
      BY <1>1, <1>4
    <2>2. FlattenSeq(q) = <<>>
      BY <2>1 DEF FlattenSeq
    <2>3. Range(Aux) = {}
      BY <1>1, <1>4 DEF Range
    <2>4. InOrder(<<>>, t, {})
      BY DEF InOrder, FileCalls
    <2> HIDE DEF q
    <2> QED BY <2>2, <2>3, <2>4 DEF q
  <1>5. CASE Len(Aux) # 0
    <2>1. PICK N \in Nat : Len(Aux) = N + 1
      <3>1. Len(Aux) - 1 \in Nat /\ Len(Aux) = (Len(Aux) - 1) + 1
        BY <1>1, <1>5
      <3> QED BY <3>1
    <2>2. \A i \in 1 .. N + 1 : q[i] \in T
      <3> SUFFICES ASSUME NEW i \in 1 .. N + 1 PROVE q[i] \in T
        OBVIOUS
      <3>1. Aux[i] \in Range(Aux)
        BY <1>1, <2>1 DEF Range
      <3>2. PICK p : p = File(t, Aux[i])
        OBVIOUS
      <3>3. q[i] = <<Call("create_new", p, None), Call("write", p, t), Call("sync", p, None)>>
        BY <1>2, <2>1, <3>2 DEF WriteSynced, CreateNew, Write, SyncFile
      <3> HIDE DEF q
      <3> QED BY <3>1, <3>2, <3>3
    <2>3. \A x, y \in T : x \o y \in T
      BY ConcatPlaces
    <2> HIDE DEF T, q
    <2>4. PICK w : Builds(w, q, N, T)
      BY <1>3, <2>1, <2>2, <2>3, FlattenSteps
    <2> DEFINE upto(n) == {Aux[i] : i \in 1 .. n}
               P(n) == n <= N => InOrder(w[n + 1], t, upto(n + 1))
               D == {n \in Nat : P(n)}
    <2>5. 0 \in D
      <3>1. upto(1) = {Aux[1]}
        <4>1. 1 .. 1 = {1}
          OBVIOUS
        <4> QED BY <4>1
      <3>2. w[1] = WriteSynced(File(t, Aux[1]), t)
        BY <1>2, <2>1, <2>4 DEF Builds
      <3> HIDE DEF upto
      <3> QED BY <3>1, <3>2, InOrderOne
    <2>6. ASSUME NEW n \in Nat, n \in D PROVE n + 1 \in D
      <3>0. n + 1 \in Nat /\ (P(n + 1) => n + 1 \in D)
        <4> HIDE DEF P
        <4> QED OBVIOUS
      <3>10. SUFFICES P(n + 1)
        <4> HIDE DEF D, P
        <4> QED BY <3>0
      <3>1. SUFFICES ASSUME n + 1 <= N PROVE InOrder(w[(n + 1) + 1], t, upto((n + 1) + 1))
        <4> HIDE DEF D, upto
        <4> QED BY DEF P
      <3>2. PICK m \in 1 .. N : m = n + 1
        BY <3>1
      <3>3. InOrder(w[m], t, upto(m))
        <4> HIDE DEF upto
        <4> QED BY <2>6, <3>1, <3>2
      <3>4. upto(m + 1) = upto(m) \union {Aux[m + 1]}
        <4>1. 1 .. m + 1 = (1 .. m) \union {m + 1}
          OBVIOUS
        <4> QED BY <4>1
      <3>5. upto(m) \intersect {Aux[m + 1]} = {}
        <4>1. m + 1 \in DOMAIN Aux /\ \A i \in 1 .. m : i \in DOMAIN Aux /\ i # m + 1
          BY <1>1, <2>1
        <4>2. \A i \in 1 .. m : Aux[i] # Aux[m + 1]
          BY <4>1, DiskAssumption DEF IsInjective
        <4> QED BY <4>2
      <3>6. w[m + 1] = w[m] \o q[m + 1] /\ q[m + 1] = WriteSynced(File(t, Aux[m + 1]), t)
        <4>1. m + 1 \in 1 .. Len(Aux)
          BY <2>1
        <4> QED BY <1>2, <2>4, <4>1 DEF Builds
      <3>7. PICK a, c, A, C : a = w[m] /\ c = Aux[m + 1] /\ A = upto(m) /\ C = {c}
        OBVIOUS
      <3>8. InOrder(WriteSynced(File(t, c), t), t, C)
        BY <3>7, InOrderOne
      <3> HIDE DEF upto
      <3>9. InOrder(a \o WriteSynced(File(t, c), t), t, A \union C)
        BY <3>3, <3>5, <3>7, <3>8, InOrderConcat
      <3>11. InOrder(w[m + 1], t, upto(m + 1))
        BY <3>4, <3>6, <3>7, <3>9
      <3> QED BY <3>2, <3>11
    <2>7. Nat \subseteq D
      <3> HIDE DEF D
      <3> QED BY <2>5, <2>6, AllNumbers
    <2>8. InOrder(w[N + 1], t, upto(N + 1))
      <3> HIDE DEF upto
      <3> QED BY <2>1, <2>7
    <2>9. upto(N + 1) = Range(Aux)
      BY <1>1, <2>1 DEF Range
    <2>10. FlattenSeq(q) = w[N + 1]
      BY <2>4 DEF Builds
    <2> HIDE DEF upto
    <2> QED BY <2>8, <2>9, <2>10 DEF q
  <1> QED BY <1>4, <1>5

\* Five elements and one are six.
LEMMA AppendTuple ==
  ASSUME NEW a, NEW b, NEW c, NEW d, NEW e, NEW f
  PROVE  <<a, b, c, d, e>> \o <<f>> = <<a, b, c, d, e, f>>
PROOF
  <1>0. PICK S, s, t, u : /\ S = {a, b, c, d, e, f} /\ s = <<a, b, c, d, e>> /\ t = <<f>>
                         /\ u = <<a, b, c, d, e, f>>
    OBVIOUS
  <1>1. s \in Seq(S) /\ t \in Seq(S) /\ u \in Seq(S) /\ Len(s) = 5 /\ Len(t) = 1 /\ Len(u) = 6
    BY <1>0
  <1>2. /\ s[1] = a /\ s[2] = b /\ s[3] = c /\ s[4] = d /\ s[5] = e /\ t[1] = f
        /\ u[1] = a /\ u[2] = b /\ u[3] = c /\ u[4] = d /\ u[5] = e /\ u[6] = f
    BY <1>0
  <1>3. /\ s \o t \in Seq(S) /\ Len(s \o t) = Len(s) + Len(t)
        /\ \A i \in 1 .. Len(s) : (s \o t)[i] = s[i]
        /\ \A i \in 1 .. Len(t) : (s \o t)[Len(s) + i] = t[i]
    <2>1. s \in Seq(S) /\ t \in Seq(S)
      BY <1>1
    <2> QED BY <2>1, ConcatPlaces
  <1>4. PICK v : v = s \o t
    OBVIOUS
  <1>5. v \in Seq(S) /\ Len(v) = 6 /\ (\A i \in 1 .. 5 : v[i] = s[i]) /\ \A i \in 1 .. 1 : v[5 + i] = t[i]
    BY <1>1, <1>3, <1>4
  <1>6. v[1] = a /\ v[2] = b /\ v[3] = c /\ v[4] = d /\ v[5] = e /\ v[5 + 1] = f
    BY <1>2, <1>5
  <1>7. \A i \in 1 .. 6 : v[i] = u[i]
    <2>1. \A i \in 1 .. 6 : i = 1 \/ i = 2 \/ i = 3 \/ i = 4 \/ i = 5 \/ i = 6
      OBVIOUS
    <2> QED BY <1>2, <1>6, <2>1
  <1>8. v = u
    BY <1>1, <1>5, <1>7, SeqEqual
  <1> QED BY <1>0, <1>4, <1>8

\* The plan of a run.
LEMMA WritePlan ==
  ASSUME NEW t \in Tags
  PROVE  LET s == WriteRun(t)
         IN  WOrder(s, t) /\ s # <<>> /\ WCalls(t) \subseteq Range(s)
PROOF
  <1> DEFINE k == File(t, "keyops")
             b == File(t, "blobs")
             cs == File(t, "checksums")
             tmp == WTmp(t)
             S == WCalls(t)
             f == <<CreateNew(k), CreateNew(b), Write(k, t), Write(b, t), SyncFile(k), SyncFile(b)>>
             g == FlattenSeq([i \in DOMAIN Aux |-> WriteSynced(File(t, Aux[i]), t)])
             e == <<OpenTruncate(tmp), Write(tmp, t), SyncFile(tmp), WRename(t), SyncDir("active"),
                    SyncDir("active")>>
  <1>1. InOrder(f \o g, t, Plain)
    <2>1. InOrder(f, t, {"keyops", "blobs"})
      BY InOrderFirst
    <2>2. InOrder(g, t, Range(Aux))
      BY InOrderAux
    <2>3. {"keyops", "blobs"} \intersect Range(Aux) = {} /\ Plain = {"keyops", "blobs"} \union Range(Aux)
      BY CompsIs
    <2> HIDE DEF f, g
    <2> QED BY <2>1, <2>2, <2>3, InOrderConcat
  <1>2. PICK x : x = f \o g
    OBVIOUS
  <1>3. FileCalls(t, Plain) \subseteq S /\ \A c \in Plain : File(t, c) \in WFiles(t)
    BY DEF FileCalls, WCalls, WFiles
  <1>4. x \in Seq(S) /\ Range(x) \subseteq FileCalls(t, Plain) /\ FileCalls(t, Plain) \subseteq Range(x)
    <2>1. x \in Seq(FileCalls(t, Plain)) /\ FileCalls(t, Plain) \subseteq Range(x)
      BY <1>1, <1>2 DEF InOrder
    <2>2. Range(x) \subseteq FileCalls(t, Plain)
      BY <2>1, LenProperties, ElementOfSeq DEF Range
    <2> HIDE DEF S
    <2> QED BY <1>3, <2>1, <2>2
  <1>5. e \in Seq(S)
    BY DEF WCalls
  <1>6. WriteRun(t) = x \o e
    <2>1. WriteRun(t) = x \o AtomicCommit(tmp, cs, t) \o <<SyncDir("active")>>
      BY <1>2 DEF WriteRun, File, WTmp
    <2>2. AtomicCommit(tmp, cs, t) = <<OpenTruncate(tmp), Write(tmp, t), SyncFile(tmp), WRename(t), SyncDir("active")>>
      <3>1. cs[1] = "active"
        BY WPaths
      <3> QED BY <3>1 DEF AtomicCommit, WRename
    <2>3. PICK y, z : /\ y = <<OpenTruncate(tmp), Write(tmp, t), SyncFile(tmp), WRename(t), SyncDir("active")>>
                      /\ z = <<SyncDir("active")>>
      OBVIOUS
    <2>4. y \in Seq(S) /\ z \in Seq(S)
      BY <2>3 DEF WCalls
    <2>5. y \o z = e
      BY <2>3, AppendTuple
    <2>6. (x \o y) \o z = x \o (y \o z)
      <3> HIDE DEF S
      <3> QED BY <1>4, <2>4, ConcatAssociative
    <2> HIDE DEF S, tmp, cs, e
    <2> QED BY <2>1, <2>2, <2>3, <2>5, <2>6
  <1>7. PICK w : /\ w = e /\ DOMAIN w = 1 .. 6 /\ Len(w) = 6 /\ w # <<>>
                 /\ w[1] = OpenTruncate(tmp) /\ w[2] = Write(tmp, t) /\ w[3] = SyncFile(tmp)
                 /\ w[4] = WRename(t) /\ w[5] = SyncDir("active") /\ w[6] = SyncDir("active")
    <2>1. /\ DOMAIN e = 1 .. 6 /\ Len(e) = 6 /\ e # <<>>
          /\ e[1] = OpenTruncate(tmp) /\ e[2] = Write(tmp, t) /\ e[3] = SyncFile(tmp)
          /\ e[4] = WRename(t) /\ e[5] = SyncDir("active") /\ e[6] = SyncDir("active")
      OBVIOUS
    <2> HIDE DEF e
    <2> QED BY <2>1
  <1>8. \A p, q : /\ OpenTruncate(p) # SyncDir(q) /\ OpenTruncate(p) # SyncFile(q)
                  /\ OpenTruncate(p) # Write(q, t) /\ Write(p, t) # SyncFile(q)
                  /\ Write(p, t) # SyncDir(q) /\ SyncFile(p) # SyncDir(q)
                  /\ OpenTruncate(p) # WRename(t) /\ CreateNew(p) # WRename(t)
                  /\ CreateNew(p) # OpenTruncate(q) /\ CreateNew(p) # Write(q, t)
                  /\ CreateNew(p) # SyncFile(q) /\ CreateNew(p) # SyncDir(q)
                  /\ Write(p, t) # WRename(t) /\ SyncFile(p) # WRename(t) /\ SyncDir(p) # WRename(t)
                  /\ p # q => /\ OpenTruncate(p) # OpenTruncate(q) /\ Write(p, t) # Write(q, t)
                              /\ SyncFile(p) # SyncFile(q)
    BY CallParts DEF WRename
  <1>9. \A p \in WFiles(t) : p # tmp
    BY WPaths
  <1>10. /\ OpenTruncate(tmp) \notin Range(x) /\ Write(tmp, t) \notin Range(x) /\ WRename(t) \notin Range(x)
    <2>1. \A y \in FileCalls(t, Plain) : \E p \in WFiles(t) : y = CreateNew(p) \/ y = Write(p, t) \/ y = SyncFile(p)
      BY <1>3 DEF FileCalls
    <2>2. \A y \in FileCalls(t, Plain) : y # OpenTruncate(tmp) /\ y # Write(tmp, t) /\ y # WRename(t)
      <3> HIDE DEF tmp
      <3> QED BY <1>8, <1>9, <2>1
    <2> HIDE DEF tmp
    <2> QED BY <1>4, <2>2
  <1>11. \A p \in WFiles(t) : CreateNew(p) \notin Range(w) /\ Write(p, t) \notin Range(w)
    <2>1. \A i \in 1 .. 6 : i = 1 \/ i = 2 \/ i = 3 \/ i = 4 \/ i = 5 \/ i = 6
      OBVIOUS
    <2>2. \A y \in Range(w) : \/ y = OpenTruncate(tmp) \/ y = Write(tmp, t) \/ y = SyncFile(tmp)
                             \/ y = WRename(t) \/ y = SyncDir("active")
      <3> HIDE DEF tmp
      <3> QED BY <1>7, <2>1 DEF Range
    <2> HIDE DEF tmp
    <2> QED BY <1>8, <1>9, <2>2
  <1>12. WRename(t) \in Range(w) /\ {OpenTruncate(tmp), Write(tmp, t), SyncFile(tmp), WRename(t), SyncDir("active")} \subseteq Range(w)
    <2>1. \A i \in 1 .. 6 : w[i] \in Range(w)
      BY <1>7 DEF Range
    <2> HIDE DEF tmp, e
    <2> QED BY <1>7, <2>1
  <1> HIDE DEF tmp, e, f, g
  <1>13. /\ EndsWith(w, SyncDir("active")) /\ Never(w, Write(tmp, t), OpenTruncate(tmp))
         /\ Later(w, OpenTruncate(tmp), Write(tmp, t)) /\ Later(w, Write(tmp, t), SyncFile(tmp))
         /\ Later(w, Write(tmp, t), WRename(t))
         /\ \A c : c # SyncDir("active") => Never(w, WRename(t), c)
    <2>1. EndsWith(w, SyncDir("active"))
      BY <1>7 DEF EndsWith
    <2>2. \A i \in 1 .. 6 : i = 1 \/ i = 2 \/ i = 3 \/ i = 4 \/ i = 5 \/ i = 6
      OBVIOUS
    <2>3. /\ \A i \in 1 .. 6 : w[i] = OpenTruncate(tmp) => i = 1
          /\ \A i \in 1 .. 6 : w[i] = Write(tmp, t) => i = 2
          /\ \A i \in 1 .. 6 : w[i] = WRename(t) => i = 4
      BY <1>7, <1>8, <2>2
    <2>4. Later(w, OpenTruncate(tmp), Write(tmp, t)) /\ Later(w, Write(tmp, t), SyncFile(tmp))
          /\ Later(w, Write(tmp, t), WRename(t))
      BY <1>7, <2>3 DEF Later
    <2>5. Never(w, Write(tmp, t), OpenTruncate(tmp))
      BY <1>7, <2>3 DEF Never
    <2>6. ASSUME NEW c, c # SyncDir("active") PROVE Never(w, WRename(t), c)
      <3>1. \A i, j \in 1 .. 6 : i < j /\ i = 4 => j = 5 \/ j = 6
        OBVIOUS
      <3> QED BY <1>7, <2>3, <2>6, <3>1 DEF Never
    <2> QED BY <2>1, <2>4, <2>5, <2>6
  <1>14. w \in Seq(S)
    BY <1>5, <1>7
  <1> HIDE DEF S
  <1>15. PICK s : s = x \o w
    OBVIOUS
  <1>16. s \in Seq(S) /\ Range(s) = Range(x) \union Range(w) /\ EndsWith(s, SyncDir("active"))
    <2>1. x \o w \in Seq(S) /\ Range(x \o w) = Range(x) \union Range(w)
      BY <1>4, <1>14, ConcatPlaces, ConcatRange
    <2>2. EndsWith(x \o w, SyncDir("active"))
      BY <1>4, <1>7, <1>13, <1>14, EndsConcat
    <2> QED BY <1>15, <2>1, <2>2
  <1>17. \A y, z : y \notin Range(x) => /\ Never(w, y, z) => Never(s, y, z)
                                        /\ Later(w, y, z) => Later(s, y, z)
    <2> SUFFICES ASSUME NEW y, NEW z, y \notin Range(x)
                 PROVE (Never(w, y, z) => Never(s, y, z)) /\ (Later(w, y, z) => Later(s, y, z))
      OBVIOUS
    <2>1. Never(x, y, z) /\ Later(x, y, z)
      BY <1>4, AbsentOrder
    <2> QED BY <1>4, <1>14, <1>15, <2>1, NeverConcat, LaterConcat
  <1>18. \A y, z : y \notin Range(w) => /\ Never(x, y, z) /\ z \notin Range(w) => Never(s, y, z)
                                        /\ Later(x, y, z) \/ z \in Range(w) => Later(s, y, z)
    <2> SUFFICES ASSUME NEW y, NEW z, y \notin Range(w)
                 PROVE  /\ Never(x, y, z) /\ z \notin Range(w) => Never(s, y, z)
                        /\ Later(x, y, z) \/ z \in Range(w) => Later(s, y, z)
      OBVIOUS
    <2>1. Never(w, y, z) /\ Later(w, y, z)
      BY <1>14, AbsentOrder
    <2> QED BY <1>4, <1>14, <1>15, <2>1, NeverConcat, LaterConcat
  <1>19. \A p \in WFiles(t) : /\ Never(s, CreateNew(p), CreateNew(p)) /\ Never(s, Write(p, t), CreateNew(p))
                            /\ Later(s, Write(p, t), SyncFile(p)) /\ Later(s, Write(p, t), WRename(t))
    <2> SUFFICES ASSUME NEW p \in WFiles(t)
                 PROVE  /\ Never(s, CreateNew(p), CreateNew(p)) /\ Never(s, Write(p, t), CreateNew(p))
                        /\ Later(s, Write(p, t), SyncFile(p)) /\ Later(s, Write(p, t), WRename(t))
      OBVIOUS
    <2>1. /\ Never(x, CreateNew(p), CreateNew(p)) /\ Never(x, Write(p, t), CreateNew(p))
          /\ Later(x, Write(p, t), SyncFile(p))
      <3>1. PICK d \in Plain : p = File(t, d)
        BY DEF WFiles
      <3> QED BY <1>1, <1>2, <3>1 DEF InOrder
    <2>2. CreateNew(p) \notin Range(w) /\ Write(p, t) \notin Range(w)
      BY <1>11
    <2>3. Never(s, CreateNew(p), CreateNew(p)) /\ Never(s, Write(p, t), CreateNew(p))
      BY <1>18, <2>1, <2>2
    <2>4. Later(s, Write(p, t), SyncFile(p)) /\ Later(s, Write(p, t), WRename(t))
      BY <1>12, <1>18, <2>1, <2>2
    <2> QED BY <2>3, <2>4
  <1>20. File(t, "keyops") \in WFiles(t)
    BY WPaths
  <1>21. WOrder(s, t)
    <2>1. /\ Never(s, Write(tmp, t), OpenTruncate(tmp))
          /\ Later(s, OpenTruncate(tmp), Write(tmp, t)) /\ Later(s, Write(tmp, t), SyncFile(tmp))
          /\ Later(s, Write(tmp, t), WRename(t))
          /\ \A c : c # SyncDir("active") => Never(s, WRename(t), c)
      <3>1. Never(s, Write(tmp, t), OpenTruncate(tmp)) /\ Later(s, Write(tmp, t), SyncFile(tmp))
            /\ Later(s, Write(tmp, t), WRename(t))
        BY <1>10, <1>13, <1>17
      <3>2. Later(s, OpenTruncate(tmp), Write(tmp, t))
        BY <1>10, <1>13, <1>17
      <3>3. ASSUME NEW c, c # SyncDir("active") PROVE Never(s, WRename(t), c)
        BY <1>10, <1>13, <1>17, <3>3
      <3> QED BY <3>1, <3>2, <3>3
    <2> QED BY <1>16, <1>19, <1>20, <2>1 DEF WOrder, S, tmp
  <1>22. S \subseteq Range(s)
    <2>1. S \subseteq FileCalls(t, Plain) \union {OpenTruncate(tmp), Write(tmp, t), SyncFile(tmp), WRename(t), SyncDir("active")}
      BY DEF S, WCalls, WFiles, FileCalls, tmp
    <2> QED BY <1>4, <1>12, <1>16, <2>1
  <1>23. s # <<>>
    <2>1. WRename(t) \in Range(s)
      BY <1>12, <1>16
    <2> QED BY <2>1 DEF Range
  <1> QED BY <1>6, <1>7, <1>15, <1>21, <1>22, <1>23 DEF S

---------------------------------------------------------------------------
(* Where operations start.                                                 *)

\* A new task.
TaskIs(k, s, r, D, n) ==
  /\ task'.kind = k /\ task'.todo = s /\ task'.run = r /\ task'.drop = D /\ task'.name = n
  /\ task' = [kind |-> k, todo |-> s, run |-> r, drop |-> D, name |-> n]

\* The parameters an operation starts with.
LEMMA NewTask ==
  ASSUME NEW k, NEW s, NEW r, NEW D, NEW n
  PROVE  /\ task' = [Ready EXCEPT !.kind = k, !.todo = s, !.run = r, !.drop = D] => TaskIs(k, s, r, D, None)
         /\ task' = [Ready EXCEPT !.kind = k, !.todo = s, !.name = n] => TaskIs(k, s, None, {}, n)
         /\ task' = [Ready EXCEPT !.kind = k, !.todo = s] => TaskIs(k, s, None, {}, None)
PROOF
  <1>1. Ready = [kind |-> "ready", todo |-> <<>>, run |-> None, drop |-> {}, name |-> None]
    <2>1. Closed = [kind |-> "closed", todo |-> <<>>, run |-> None, drop |-> {}, name |-> None]
      BY DEF Closed
    <2>2. Ready = [Closed EXCEPT !.kind = "ready"]
      BY DEF Ready
    <2>3. PICK e : e = <<>>
      OBVIOUS
    <2> QED BY <2>1, <2>2, <2>3
  <1>2. ASSUME task' = [Ready EXCEPT !.kind = k, !.todo = s, !.run = r, !.drop = D]
        PROVE  TaskIs(k, s, r, D, None)
    <2>1. task' = [kind |-> k, todo |-> s, run |-> r, drop |-> D, name |-> None]
      BY <1>1, <1>2
    <2> QED BY <2>1 DEF TaskIs
  <1>3. ASSUME task' = [Ready EXCEPT !.kind = k, !.todo = s, !.name = n]
        PROVE  TaskIs(k, s, None, {}, n)
    <2>1. task' = [kind |-> k, todo |-> s, run |-> None, drop |-> {}, name |-> n]
      BY <1>1, <1>3
    <2> QED BY <2>1 DEF TaskIs
  <1>4. ASSUME task' = [Ready EXCEPT !.kind = k, !.todo = s]
        PROVE  TaskIs(k, s, None, {}, None)
    <2>1. task' = [kind |-> k, todo |-> s, run |-> None, drop |-> {}, name |-> None]
      BY <1>1, <1>4
    <2> QED BY <2>1 DEF TaskIs
  <1> QED BY <1>2, <1>3, <1>4

\* An operation starts with parameters of their types.
LEMMA NewTaskTypes ==
  ASSUME NEW k, NEW s, NEW r, NEW D, NEW n, TaskIs(k, s, r, D, n),
         k \in Kinds, r \in Tags \union {None}, D \subseteq Tags, n \in Names \union {None}
  PROVE  TaskTypes'
PROOF
  <1>1. task'.kind = k /\ task'.todo = s /\ task'.run = r /\ task'.drop = D /\ task'.name = n
    BY DEF TaskIs
  <1>2. task' = [kind |-> task'.kind, todo |-> task'.todo, run |-> task'.run, drop |-> task'.drop,
                 name |-> task'.name]
    BY <1>1 DEF TaskIs
  <1> QED BY <1>1, <1>2 DEF TaskTypes

\* The start of a flush or a compaction keeps the invariant.
LEMMA StartWriteKeeps ==
  ASSUME FullInv, NEW D \in SUBSET tree, StartWrite(D)
  PROVE  FullInv'
PROOF
  <1>0. PICK t : t = [num |-> next_run_number, born |-> session]
    OBVIOUS
  <1>1. /\ StateInv /\ Open /\ next_run_number \in Nat /\ next_run_number <= MaxRun
        /\ next_run_number' = next_run_number + 1 /\ next_run_number' \in 1 .. MaxRun + 1
        /\ UNCHANGED <<tree, session, saved, mishaps>> /\ next_run_number \in Runs
        /\ \A r \in Runs : r \in Nat
    BY DiskAssumption DEF FullInv, StateInv, ProcTypes, StartWrite, Open, Runs
  <1>2. t \in Tags /\ t.num = next_run_number /\ t.born = session
    BY <1>0, <1>1 DEF Tags, StateInv, ProcTypes
  <1>3. WOrder(WriteRun(t), t) /\ WriteRun(t) # <<>> /\ WCalls(t) \subseteq Range(WriteRun(t))
    BY <1>2, WritePlan
  <1>4. TaskIs("write", WriteRun(t), t, D, None)
    <2>1. task' = [Ready EXCEPT !.kind = "write", !.todo = WriteRun(t), !.run = t, !.drop = D]
      BY <1>0 DEF StartWrite
    <2> QED BY <2>1, NewTask
  <1>5. task'.kind = "write" /\ task'.todo = WriteRun(t) /\ task'.run = t /\ task'.drop = D /\ Open'
    BY <1>4 DEF TaskIs, Open
  <1>6. DiskInv' /\ Keeps({}) /\ Fades({})
    BY <1>1, SameDisk DEF StateInv, StartWrite
  <1>7. entries' = entries /\ disk_entries' = disk_entries /\ data' = data /\ disk_data' = disk_data
    BY DEF StartWrite, DiskUnchanged
  <1>8. D \subseteq Tags
    BY <1>1 DEF StateInv, ProcTypes
  <1>9. TaskTypes'
    BY <1>2, <1>4, <1>8, NewTaskTypes DEF Kinds
  <1>10. ProcTypes'
    BY <1>1, <1>5 DEF ProcTypes, StateInv
  <1>11. \A x \in tree : x.num \in Nat /\ x.num < next_run_number
    BY <1>1 DEF StateInv, NumbersAhead, ProcTypes, Tags
  <1>12. NumbersAhead'
    <2>1. \A x \in tree : x.num < next_run_number + 1
      BY <1>1, <1>11
    <2>2. \A r \in Runs : r >= next_run_number + 1 => r >= next_run_number
      BY <1>1
    <2> QED BY <1>1, <1>7, <2>1, <2>2 DEF StateInv, NumbersAhead
  <1>13. \A i \in Inodes : data[i] \in Tags => data[i].num \in Nat /\ data[i].born \in Nat
    <2>1. \A s \in Sessions : s \in Nat
      BY DiskAssumption DEF Sessions
    <2> QED BY <1>1, <2>1 DEF Tags
  <1>14. Births'
    <2>1. \A i \in Inodes : data[i] \in Tags /\ data[i].num < next_run_number => data[i].num < next_run_number + 1
      BY <1>1, <1>13
    <2> QED BY <1>1, <1>7, <2>1 DEF StateInv, Births
  <1>15. \A i \in Inodes : data[i] # t
    <2>1. session \in Nat
      BY <1>1 DEF StateInv, ProcTypes, Sessions
    <2> QED BY <1>1, <1>2, <2>1 DEF StateInv, Births
  <1>16. TreeHeld'
    BY <1>1, <1>6, TreeHeldKept DEF StateInv, ProcTypes
  <1>17. SavedInv'
    BY <1>1, <1>6, SavedKept DEF StateInv, SparesSaved
  <1>18. Written(t)'
    <2>1. WCalls(t) \subseteq Rem'
      BY <1>3, <1>5 DEF Rem
    <2>2. entries[File(t, "keyops")] = None
      BY <1>1, <1>2 DEF StateInv, NumbersAhead, File
    <2>3. \A p \in WFiles(t) : Write(p, t) \in Rem' /\ CreateNew(p) \in Rem'
      BY <2>1 DEF WCalls
    <2>4. {WRename(t), Write(WTmp(t), t), OpenTruncate(WTmp(t))} \subseteq Rem'
      BY <2>1 DEF WCalls
    <2>5. \A p \in CsPaths : ~Has(p, t)'
      <3> SUFFICES ASSUME NEW p \in CsPaths, Has(p, t)' PROVE FALSE
        OBVIOUS
      <3>1. entries[p] \in Inodes /\ data[entries[p]] = t
        BY <1>1, <1>7, CsPath DEF Has, StateInv, DiskInv, DiskTypes
      <3> QED BY <1>15, <3>1
    <2>6. \A i \in Inodes : data'[i] # t
      BY <1>7, <1>15
    <2> QED BY <1>3, <1>5, <1>7, <2>2, <2>3, <2>4, <2>5, <2>6 DEF Written
  <1>19. Writing(t)'
    <2>1. t.num = next_run_number' - 1 /\ t.num \notin NumsOf(tree')
      BY <1>1, <1>2, <1>11 DEF NumsOf
    <2>2. WOrder(task.todo, t)'
      BY <1>3, <1>5 DEF WOrder
    <2> QED BY <1>1, <1>2, <1>5, <1>18, <2>1, <2>2 DEF Writing
  <1>20. TaskInv'
    BY <1>5, <1>19 DEF TaskInv
  <1> QED BY <1>6, <1>9, <1>10, <1>12, <1>14, <1>16, <1>17, <1>20 DEF FullInv, StateInv

\* A task that is started and changes nothing else.
LEMMA StartRest ==
  ASSUME StateInv, DiskUnchanged, UNCHANGED <<tree, session, next_run_number, saved, mishaps>>,
         TaskTypes', Open' => Open,
         task'.kind \in {"closed", "close", "open", "restore"} => tree = {},
         task'.kind \in {"open", "restore"} => session < MaxSession
  PROVE  StateInv'
PROOF
  <1>1. Moves
    BY DEF Moves, StateInv, ProcTypes
  <1>2. DiskInv' /\ Keeps({}) /\ Fades({})
    BY SameDisk DEF StateInv
  <1> QED BY <1>1, <1>2, MoveRest DEF SparesSaved

\* What is known of a snapshot when the disk stays as it is.
LEMMA SameSaved ==
  ASSUME DiskUnchanged, NEW n, saved'[n] = saved[n]
  PROVE  (Unused(n) => Unused(n)') /\ (Kept(n) => Kept(n)')
PROOF
  <1>1. entries' = entries /\ disk_entries' = disk_entries /\ data' = data /\ disk_data' = disk_data
    BY DEF DiskUnchanged
  <1> QED BY <1>1 DEF Unused, Kept, Synced, Settled, Held, Has

\* The start of LsmTree::open keeps the invariant.
LEMMA StartOpenKeeps ==
  ASSUME FullInv, StartOpen
  PROVE  FullInv'
PROOF
  <1>0. PICK s : s = <<SyncDir("active"), SyncDir("snapshots")>>
    OBVIOUS
  <1>1. TaskIs("open", s, None, {}, None)
    BY <1>0, NewTask DEF StartOpen
  <1>2. task'.kind = "open" /\ task'.todo = s
    BY <1>1 DEF TaskIs
  <1>3. TaskTypes'
    BY <1>1, NewTaskTypes DEF Kinds
  <1>4. StateInv'
    <2>1. StateInv /\ tree = {} /\ session < MaxSession
      BY DEF FullInv, StateInv, ProcTypes, StartOpen
    <2> QED BY <1>2, <1>3, <2>1, StartRest DEF StartOpen, Open
  <1>5. s \in Seq({SyncDir("active"), SyncDir("snapshots")}) /\ SyncDir("active") \in Range(s)
    <2>1. DOMAIN s = 1 .. 2 /\ s[1] = SyncDir("active") /\ 1 \in 1 .. 2
      BY <1>0
    <2> QED BY <1>0, <2>1 DEF Range
  <1>6. TaskInv'
    BY <1>2, <1>5 DEF TaskInv, Opening, Rem
  <1> QED BY <1>4, <1>6 DEF FullInv

\* The start of open_snapshot keeps the invariant.
LEMMA StartRestoreKeeps ==
  ASSUME FullInv, NEW n \in Names, StartRestore(n)
  PROVE  FullInv'
PROOF
  <1>0. PICK R, s : R = NamedRuns(n) /\ s = Restore(n, R)
    OBVIOUS
  <1>1. TaskIs("restore", s, None, {}, n)
    BY <1>0, NewTask DEF StartRestore
  <1>2. task'.kind = "restore" /\ task'.todo = s /\ task'.name = n
    BY <1>1 DEF TaskIs
  <1>3. TaskTypes'
    BY <1>1, NewTaskTypes DEF Kinds
  <1>4. StateInv /\ tree = {} /\ session < MaxSession /\ Contents(Metadata(n)) # Torn
    BY DEF FullInv, StateInv, ProcTypes, StartRestore, Loads
  <1>5. StateInv'
    BY <1>2, <1>3, <1>4, StartRest DEF StartRestore, Open
  <1>6. R \in SUBSET Runs /\ Contents(Metadata(n))' # Torn /\ NamedRuns(n)' = R
    <2>1. Keeps({})
      BY <1>4, SameDisk DEF StateInv, StartRestore
    <2> QED BY <1>0, <1>4, <2>1, MetadataKept DEF StateInv
  <1>7. /\ s \in Seq({SyncDir("snapshots"), SyncDir("active"), UnlinkAll("active")}
                         \union {RLink(n, r, c) : r \in R, c \in Comps})
        /\ EndsWith(s, SyncDir("active")) /\ s # <<>> /\ UnlinkAll("active") \in Range(s)
    BY <1>0, <1>6, RestorePlan
  <1>8. Restoring(n)'
    BY <1>2, <1>6, <1>7 DEF Restoring, Rem
  <1>9. TaskInv'
    BY <1>2, <1>8 DEF TaskInv
  <1> QED BY <1>5, <1>9 DEF FullInv

\* A save or a deletion is started, or a save is done: the disk and the run
\* numbers stay as they are.
LEMMA SavedRest ==
  ASSUME StateInv, Open, Open', TaskTypes', DiskUnchanged,
         UNCHANGED <<tree, session, next_run_number, mishaps>>, SavedInv'
  PROVE  StateInv'
PROOF
  <1>1. DiskInv' /\ Keeps({}) /\ Fades({})
    BY SameDisk DEF StateInv
  <1>2. ProcTypes'
    BY DEF StateInv, ProcTypes, Open
  <1>3. entries' = entries /\ data' = data
    BY DEF DiskUnchanged
  <1>4. NumbersAhead'
    BY <1>3 DEF StateInv, NumbersAhead
  <1>5. Births'
    BY <1>3 DEF StateInv, Births
  <1>6. TreeHeld'
    BY <1>1, TreeHeldKept DEF StateInv, ProcTypes
  <1> QED BY <1>1, <1>2, <1>4, <1>5, <1>6 DEF StateInv

\* The start of save_snapshot keeps the invariant.
LEMMA StartSaveKeeps ==
  ASSUME FullInv, NEW n \in Names, StartSave(n)
  PROVE  FullInv'
PROOF
  <1>0. PICK R, m, s : R = NumsOf(tree) /\ m = [runs |-> R] /\ s = Save(n, R)
    OBVIOUS
  <1>1. /\ StateInv /\ saved[n] = None /\ saved \in [Names -> Saves \union {None}] /\ tree \subseteq Tags
        /\ Open /\ DiskUnchanged /\ UNCHANGED <<tree, session, next_run_number, mishaps>>
    BY DEF FullInv, StateInv, SavedInv, ProcTypes, StartSave, Open
  <1>2. R \in SUBSET Runs
    BY <1>0, <1>1 DEF NumsOf, Tags
  <1>3. SOrder(s, n, R, m) /\ s # <<>> /\ SCalls(n, R, m) \subseteq Range(s)
    BY <1>0, <1>2, SavePlan
  <1>4. TaskIs("save", s, None, {}, n)
    BY <1>0, NewTask DEF StartSave, NumsOf
  <1>5. task'.kind = "save" /\ task'.todo = s /\ task'.name = n /\ Open'
    BY <1>4 DEF TaskIs, Open
  <1>6. TaskTypes'
    BY <1>4, NewTaskTypes DEF Kinds
  <1>7. PICK y : y = [runs |-> tree, done |-> FALSE, power |-> FALSE]
    OBVIOUS
  <1>8. y \in Saves /\ y # None /\ y.runs = tree /\ ~y.done
    <2>1. FALSE \in BOOLEAN /\ tree \in SUBSET Tags
      BY <1>1
    <2>2. y \in Saves
      BY <1>7, <2>1 DEF Saves
    <2> QED BY <1>7, <2>2, MarkFacts
  <1>9. saved' = [saved EXCEPT ![n] = y]
    BY <1>7 DEF StartSave
  <1>10. saved'[n] = y /\ \A k \in Names \ {n} : saved'[k] = saved[k]
    BY <1>1, <1>9
  <1>11. SavedInv'
    <2>1. saved' \in [Names -> Saves \union {None}]
      BY <1>1, <1>8, <1>9
    <2>2. ASSUME NEW k \in Names, saved'[k] = None PROVE Unused(k)'
      <3>1. k # n
        BY <1>8, <1>10, <2>2
      <3> QED BY <1>1, <1>10, <2>2, <3>1, SameSaved DEF StateInv, SavedInv
    <2>3. ASSUME NEW k \in Names, saved'[k] # None, saved'[k].done PROVE Kept(k)'
      <3>1. k # n
        BY <1>8, <1>10, <2>3
      <3> QED BY <1>1, <1>10, <2>3, <3>1, SameSaved DEF StateInv, SavedInv
    <2> QED BY <2>1, <2>2, <2>3 DEF SavedInv
  <1>12. StateInv'
    BY <1>1, <1>5, <1>6, <1>11, SavedRest
  <1>13. SCalls(n, R, m) \subseteq Rem'
    BY <1>3, <1>5 DEF Rem
  <1>14. Linked(n, R, m)'
    <2>1. CreateNew(SnapshotDir(n)) \in Rem' /\ MRename(n) \in Rem'
          /\ \A r \in R, c \in Comps : SLink(n, r, c) \in Rem'
      BY <1>13 DEF SCalls
    <2> QED BY <1>3, <1>5, <2>1 DEF Linked
  <1>15. Described(n, m)'
    <2> DEFINE tmp == MetadataTmp(n)
               mc == MetadataChecksum(n)
    <2>1. {OpenTruncate(tmp), Write(tmp, m), SyncFile(tmp), OpenTruncate(mc), Write(mc, m)} \subseteq Rem'
      BY <1>13 DEF SCalls
    <2>2. entries'[tmp] = None /\ entries'[mc] = None
      <3>1. Unused(n) /\ tmp \in Paths /\ mc \in Paths /\ tmp[1] = n /\ mc[1] = n
        BY <1>1, NamePaths DEF StateInv, SavedInv
      <3> QED BY <1>1, <3>1 DEF Unused, DiskUnchanged
    <2> HIDE DEF tmp, mc
    <2> QED BY <2>1, <2>2 DEF Described, tmp, mc
  <1>16. NumsOf(tree') = R
    BY <1>0, <1>1
  <1>17. Saving(n)'
    BY <1>0, <1>1, <1>3, <1>5, <1>8, <1>10, <1>14, <1>15, <1>16 DEF Saving, Done
  <1>18. TaskInv'
    BY <1>5, <1>17 DEF TaskInv
  <1> QED BY <1>12, <1>18 DEF FullInv

\* One snapshot is marked as saved, or as deleted.
LEMMA MarkDone ==
  ASSUME SavedInv, DiskUnchanged, NEW n \in Names, saved[n] # None, NEW b \in BOOLEAN,
         saved' = [saved EXCEPT ![n].done = b], b => Kept(n)'
  PROVE  SavedInv' /\ saved'[n] # None /\ saved'[n].done = b /\ saved'[n].runs = saved[n].runs
         /\ saved'[n].power = saved[n].power
PROOF
  <1>1. saved \in [Names -> Saves \union {None}] /\ saved[n] \in Saves
    BY DEF SavedInv
  <1>2. /\ saved'[n] = [saved[n] EXCEPT !.done = b]
        /\ \A k \in Names \ {n} : saved'[k] = saved[k]
    BY <1>1
  <1>3. /\ saved'[n] \in Saves /\ saved'[n].done = b /\ saved'[n].runs = saved[n].runs
        /\ saved'[n].power = saved[n].power
    BY <1>1, <1>2 DEF Saves
  <1>4. saved'[n] # None
    BY <1>3, MarkFacts
  <1>5. saved' \in [Names -> Saves \union {None}]
    BY <1>1, <1>2, <1>3
  <1>6. ASSUME NEW k \in Names, saved'[k] = None PROVE Unused(k)'
    BY <1>2, <1>4, <1>6, SameSaved DEF SavedInv
  <1>7. ASSUME NEW k \in Names, saved'[k] # None, saved'[k].done PROVE Kept(k)'
    <2>1. CASE k = n
      BY <1>3, <1>7, <2>1
    <2>2. CASE k # n
      BY <1>2, <1>7, <2>2, SameSaved DEF SavedInv
    <2> QED BY <2>1, <2>2
  <1> QED BY <1>3, <1>4, <1>5, <1>6, <1>7 DEF SavedInv

\* The start of delete_snapshot keeps the invariant.
LEMMA StartRemoveKeeps ==
  ASSUME FullInv, NEW n \in Names, StartRemove(n)
  PROVE  FullInv'
PROOF
  <1>0. PICK s : s = Delete(n)
    OBVIOUS
  <1>1. /\ StateInv /\ Open /\ DiskUnchanged /\ UNCHANGED <<tree, session, next_run_number, mishaps>>
    BY DEF FullInv, StartRemove, Open
  <1>2. saved[n] # None
    <2>1. entries[SnapshotDir(n)] # None /\ SnapshotDir(n) \in Paths
      BY NamePaths DEF StartRemove, Loads, Listed
    <2> QED BY <1>1, <2>1 DEF StateInv, SavedInv, Unused
  <1>3. TaskIs("remove", s, None, {}, n)
    BY <1>0, NewTask DEF StartRemove
  <1>4. task'.kind = "remove" /\ task'.todo = s /\ task'.name = n /\ Open'
    BY <1>3 DEF TaskIs, Open
  <1>5. TaskTypes'
    BY <1>3, NewTaskTypes DEF Kinds
  <1>6. SavedInv' /\ saved'[n] # None /\ ~saved'[n].done
    <2>1. saved' = [saved EXCEPT ![n].done = FALSE]
      BY DEF StartRemove
    <2> QED BY <1>1, <1>2, <2>1, MarkDone DEF StateInv
  <1>7. StateInv'
    BY <1>1, <1>4, <1>5, <1>6, SavedRest
  <1>8. Removing(n)'
    BY <1>0, <1>4, <1>6 DEF Removing, Delete
  <1>9. TaskInv'
    BY <1>4, <1>8 DEF TaskInv
  <1> QED BY <1>7, <1>9 DEF FullInv

\* The end of save_snapshot keeps the invariant: the snapshot loads and validates.
LEMMA FinishSaveKeeps ==
  ASSUME FullInv, FinishSave
  PROVE  FullInv'
PROOF
  <1>0. PICK n, R, m : n = task.name /\ R = NumsOf(tree) /\ m = [runs |-> R]
    OBVIOUS
  <1>1. /\ StateInv /\ Open /\ DiskUnchanged /\ UNCHANGED <<tree, session, next_run_number, mishaps>>
        /\ task.todo = <<>> /\ task.kind = "save" /\ tree \subseteq Tags
    BY DEF FullInv, FinishSave, Open, StateInv, ProcTypes
  <1>2. n \in Names /\ saved[n] # None /\ saved[n].runs = tree /\ Done(n, R, m)
    BY <1>0, <1>1 DEF FullInv, TaskInv, Saving
  <1>3. Rem = {}
    BY <1>1 DEF Rem, Range
  <1>4. /\ Synced(n) /\ entries[SnapshotDir(n)] # None /\ Has(Metadata(n), m) /\ Has(MetadataChecksum(n), m)
        /\ \A r \in R, c \in Comps : entries[RunFile(n, r, c)] = entries[RunFile("active", r, c)]
    BY <1>1, <1>2, <1>3 DEF Done, Linked, Described
  <1>5. task' \in {Ready, Closed} /\ task' = Ready
    BY DEF FinishSave
  <1>6. TaskTypes' /\ TaskInv' /\ Open'
    BY <1>5, IdleTask DEF Open, Ready, Closed
  <1>7. saved' = [saved EXCEPT ![n].done = TRUE]
    BY <1>0 DEF FinishSave
  <1>8. saved'[n].runs = tree
    <2>1. saved \in [Names -> Saves \union {None}] /\ saved[n] \in Saves
      BY <1>1, <1>2 DEF StateInv, SavedInv
    <2>2. saved'[n] = [saved[n] EXCEPT !.done = TRUE]
      BY <1>2, <1>7, <2>1
    <2> QED BY <1>2, <2>1, <2>2 DEF Saves
  <1>9. entries' = entries /\ disk_entries' = disk_entries /\ data' = data /\ disk_data' = disk_data
    BY <1>1 DEF DiskUnchanged
  <1>10. Kept(n)'
    <2>1. /\ Metadata(n) \in Paths /\ Metadata(n) \in WholePaths /\ Metadata(n)[1] = n
          /\ MetadataChecksum(n) \in Paths /\ MetadataChecksum(n)[1] = n
      BY <1>2, NamePaths, WholeFacts
    <2>2. Settled(Metadata(n), m)
      <3>1. entries[Metadata(n)] \in NamedBy(Metadata(n))
        BY <1>4 DEF Has, NamedBy
      <3>2. disk_data[entries[Metadata(n)]] = data[entries[Metadata(n)]]
        BY <1>1, <2>1, <3>1 DEF StateInv, DiskInv, Whole
      <3> QED BY <1>4, <2>1, <3>2 DEF Settled, Held, Has, Synced
    <2>3. Held(MetadataChecksum(n), m)
      BY <1>4, <2>1 DEF Held, Synced
    <2>4. ASSUME NEW t \in tree, NEW p \in RunFiles(n, t.num) PROVE Settled(p, t)
      <3>1. PICK c \in Comps : p = RunFile(n, t.num, c)
        BY DEF RunFiles, Comps
      <3>2. t.num \in R /\ t.num \in Runs
        BY <1>0, <1>1 DEF NumsOf, Tags
      <3>3. p \in Paths /\ p[1] = n
        BY <1>2, <3>1, <3>2, RunFilePath, NameFacts
      <3>4. RunFile("active", t.num, c) \in RunFiles("active", t.num)
        BY DEF RunFiles, Comps
      <3>5. Settled(RunFile("active", t.num, c), t)
        BY <1>1, <3>4 DEF StateInv, TreeHeld
      <3>6. entries[p] = entries[RunFile("active", t.num, c)] /\ disk_entries[p] = entries[p]
        BY <1>4, <3>1, <3>2, <3>3 DEF Synced
      <3> QED BY <3>5, <3>6 DEF Settled, Held, Has
    <2>5. m = [runs |-> NumsOf(saved'[n].runs)]
      BY <1>0, <1>8
    <2>6. Synced(n)'
      BY <1>4, <1>9 DEF Synced
    <2>7. Settled(Metadata(n), m)' /\ Held(MetadataChecksum(n), m)'
          /\ \A t \in tree : \A p \in RunFiles(n, t.num) : Settled(p, t)'
      BY <1>9, <2>2, <2>3, <2>4 DEF Settled, Held, Has
    <2> QED BY <1>4, <1>8, <1>9, <2>5, <2>6, <2>7 DEF Kept
  <1>11. SavedInv'
    BY <1>1, <1>2, <1>7, <1>10, MarkDone DEF StateInv
  <1>12. StateInv'
    BY <1>1, <1>6, <1>11, SavedRest
  <1> QED BY <1>6, <1>12 DEF FullInv

\* The end of a removal keeps the invariant.
LEMMA FinishDeleteKeeps ==
  ASSUME FullInv, FinishDelete
  PROVE  FullInv'
PROOF
  <1>1. /\ StateInv /\ DiskUnchanged /\ UNCHANGED <<tree, session, next_run_number, saved, mishaps>>
        /\ task' \in {Ready, Closed}
    BY DEF FullInv, FinishDelete
  <1>2. TaskTypes' /\ TaskInv' /\ (task' = Closed => ~Open')
        /\ task'.kind = IF task' = Closed THEN "closed" ELSE "ready"
    BY <1>1, IdleTask
  <1>3. Ready # Closed
    BY DEF Ready, Closed
  <1>4. (task' = Closed => tree = {}) /\ (task' = Ready => Open)
    BY <1>1, <1>3 DEF FinishDelete, Open, StateInv, ProcTypes
  <1>5. StateInv'
    BY <1>1, <1>2, <1>4, StartRest
  <1> QED BY <1>2, <1>5 DEF FullInv

\* Dropping the tree keeps the invariant.
LEMMA StartCloseKeeps ==
  ASSUME FullInv, StartClose
  PROVE  FullInv'
PROOF
  <1>0. PICK R, s : R = NumsOf(tree) /\ s = ForRuns(R, DeleteRun)
    OBVIOUS
  <1>1. /\ StateInv /\ DiskUnchanged /\ UNCHANGED <<session, saved, mishaps>> /\ Open
        /\ tree' = {} /\ next_run_number' = 1 /\ R \in SUBSET Runs
    BY <1>0 DEF FullInv, StartClose, StateInv, ProcTypes, NumsOf, Tags, Open
  <1>2. TaskIs("close", s, None, {}, None)
    BY <1>0, NewTask DEF StartClose, NumsOf
  <1>3. task'.kind = "close" /\ task'.todo = s /\ ~Open'
    BY <1>2 DEF TaskIs, Open
  <1>4. TaskTypes'
    BY <1>2, NewTaskTypes DEF Kinds
  <1>5. Deleting'
    <2>1. NumsOf(tree') = {} /\ Runs \ {} = Runs
      BY <1>1 DEF NumsOf
    <2>2. s \in Seq({Unlink(p) : p \in UNION {RunFiles("active", r) : r \in Runs}})
      BY <1>0, <1>1, DeletePlan
    <2> QED BY <1>3, <2>1, <2>2 DEF Deleting
  <1>6. TaskInv'
    BY <1>3, <1>5 DEF TaskInv
  <1>7. DiskInv' /\ Keeps({}) /\ Fades({})
    BY <1>1, SameDisk DEF StateInv
  <1>8. ProcTypes'
    BY <1>1, <1>3, DiskAssumption DEF StateInv, ProcTypes
  <1>9. NumbersAhead' /\ TreeHeld'
    BY <1>1, <1>3 DEF NumbersAhead, TreeHeld
  <1>10. Births'
    BY <1>1, <1>3 DEF StateInv, Births, DiskUnchanged
  <1>11. SavedInv'
    BY <1>1, <1>7, SavedKept DEF StateInv, SparesSaved
  <1> QED BY <1>4, <1>6, <1>7, <1>8, <1>9, <1>10, <1>11 DEF FullInv, StateInv

\* The number after those of R is in bounds and above each of them.
LEMMA NextNumber ==
  ASSUME NEW R \in SUBSET Runs
  PROVE  NumberAfter(R) \in 1 .. MaxRun + 1 /\ \A r \in R : r < NumberAfter(R)
PROOF
  <1> DEFINE S == {0} \union R
             G == {m \in 0 .. MaxRun : \A r \in S : r <= m}
  <1>1. MaxRun \in Nat /\ S \subseteq 0 .. MaxRun
    BY DiskAssumption DEF Runs
  <1>2. MaxRun \in G /\ G \subseteq Nat
    BY <1>1
  <1> HIDE DEF S
  <1>3. PICK m \in G : \A x \in G : <<x, m>> \notin OpToRel(<, Nat)
    <2> HIDE DEF G
    <2> QED BY <1>2, NatLessThanWellFounded, WFMin
  <1>4. ASSUME m \notin S PROVE FALSE
    <2>1. 0 \in S
      BY DEF S
    <2>2. m \in 0 .. MaxRun /\ (\A r \in S : r <= m) /\ m # 0
      BY <1>3, <1>4, <2>1
    <2>3. m - 1 \in G
      <3>1. m - 1 \in 0 .. MaxRun
        BY <1>1, <2>2
      <3>2. ASSUME NEW r \in S PROVE r <= m - 1
        <4>1. r \in 0 .. MaxRun /\ r <= m /\ r # m
          BY <1>1, <1>4, <2>2
        <4> QED BY <1>1, <2>2, <4>1
      <3> QED BY <3>1, <3>2
    <2>4. <<m - 1, m>> \in OpToRel(<, Nat)
      BY <1>1, <1>2, <2>2, <2>3 DEF OpToRel
    <2> QED BY <1>3, <2>3, <2>4
  <1>5. m \in S /\ \A y \in S : m >= y
    <2>1. m \in 0 .. MaxRun /\ \A r \in S : r <= m
      BY <1>3
    <2> QED BY <1>1, <1>4, <2>1
  <1>6. Max(S) \in S /\ \A y \in S : Max(S) >= y
    BY <1>5 DEF Max
  <1>7. Max(S) \in 0 .. MaxRun
    BY <1>1, <1>6
  <1>8. PICK k \in 0 .. MaxRun : k = Max(S)
    BY <1>7
  <1>9. NumberAfter(R) = k + 1
    BY <1>8 DEF NumberAfter, S
  <1>10. \A r \in R : r \in 0 .. MaxRun /\ k >= r
    BY <1>1, <1>6, <1>8 DEF S
  <1> QED BY <1>1, <1>9, <1>10

\* A run that opens is whole and synced when its names are.
LEMMA OpensSettled ==
  ASSUME StateInv, Synced("active"), NEW r \in Runs, Opens("active", r)
  PROVE  LET t == OpenedRun("active", r)
         IN  /\ t \in Tags /\ t.num = r
             /\ \A p \in RunFiles("active", r) : Settled(p, t)
PROOF
  <1> DEFINE cs == Cs("active", r)
  <1>0. PICK t : t = Contents(cs)
    OBVIOUS
  <1>1. cs \in CsPaths /\ cs \in Paths /\ cs[2] = r
    BY CsPath, NameFacts
  <1>2. t # Torn /\ t = OpenedRun("active", r) /\ \A p \in RunFiles("active", r) : Contents(p) = t
    BY <1>0 DEF Opens, OpenedRun, Cs
  <1> HIDE DEF cs
  <1>3. entries[cs] # None /\ data[entries[cs]] = t
    BY <1>0, <1>2 DEF Contents
  <1>4. t \in Tags /\ t.num = r
    <2>1. t \in ClassOf(cs)
      BY <1>1, <1>3 DEF StateInv, DiskInv, Classes, NamedBy
    <2> QED BY <1>1, <1>2, <2>1 DEF ClassOf
  <1>5. ASSUME NEW p \in RunFiles("active", r) PROVE Settled(p, t)
    <2>1. p \in Paths /\ p[1] = "active"
      BY RunFilePath, NameFacts DEF RunFiles, Comps
    <2>2. entries[p] # None /\ data[entries[p]] = t
      BY <1>2 DEF Contents
    <2>3. entries[p] \in Inodes /\ disk_entries[p] = entries[p]
      BY <2>1, <2>2 DEF StateInv, DiskInv, DiskTypes, Synced
    <2>4. disk_data[entries[p]] = t
      BY <1>1, <1>3, <2>2, <2>3 DEF StateInv, DiskInv, Committed
    <2> QED BY <2>2, <2>3, <2>4 DEF Settled, Held, Has
  <1> QED BY <1>2, <1>4, <1>5

\* A session starts with the runs R.
LEMMA SessionStarts ==
  ASSUME StateInv, Synced("active"), session < MaxSession, NEW N \in SUBSET Runs, NEW R \in SUBSET N,
         \A r \in R : Opens("active", r),
         \A r \in Runs \ N : entries[RunFile("active", r, "keyops")] = None,
         tree' = {OpenedRun("active", r) : r \in R},
         next_run_number' = NumberAfter(N), session' = session + 1, task' = Ready,
         DiskUnchanged, UNCHANGED <<saved, mishaps>>
  PROVE  FullInv'
PROOF
  <1>1. /\ \A r \in R : LET t == OpenedRun("active", r)
                        IN  t \in Tags /\ t.num = r /\ \A p \in RunFiles("active", r) : Settled(p, t)
    BY OpensSettled
  <1>2. \A t \in tree' : t \in Tags /\ t.num \in R /\ \A p \in RunFiles("active", t.num) : Settled(p, t)
    BY <1>1
  <1>3. NumberAfter(N) \in 1 .. MaxRun + 1 /\ \A r \in N : r < NumberAfter(N)
    BY NextNumber
  <1>4. task' \in {Ready, Closed}
    OBVIOUS
  <1>5. TaskTypes' /\ TaskInv' /\ task'.kind = "ready"
    BY <1>4, IdleTask DEF Ready, Closed
  <1>6. session \in Sessions /\ session' \in Sessions /\ session \in Nat /\ session' = session + 1
        /\ \A s \in Sessions : s \in Nat
    BY DiskAssumption DEF StateInv, ProcTypes, Sessions
  <1>7. ProcTypes'
    <2>1. tree' \subseteq Tags
      BY <1>2
    <2> QED BY <1>3, <1>5, <1>6, <2>1 DEF ProcTypes, StateInv
  <1>8. DiskInv' /\ Keeps({}) /\ Fades({})
    BY SameDisk DEF StateInv
  <1>9. entries' = entries /\ disk_entries' = disk_entries /\ data' = data /\ disk_data' = disk_data
    BY DEF DiskUnchanged
  <1>10. NumbersAhead'
    <2>1. \A t \in tree' : t.num < next_run_number'
      BY <1>2, <1>3
    <2>2. ASSUME NEW r \in Runs, r >= next_run_number' PROVE entries'[RunFile("active", r, "keyops")] = None
      <3>1. r \notin N
        <4>1. r \in Nat /\ next_run_number' \in Nat
          BY <1>3 DEF Runs
        <4>2. r \in N => r < next_run_number'
          BY <1>3
        <4> QED BY <2>2, <4>1, <4>2
      <3> QED BY <1>9, <3>1
    <2> QED BY <2>1, <2>2 DEF NumbersAhead
  <1>11. Births'
    <2> SUFFICES ASSUME NEW i \in Inodes, data[i] \in Tags PROVE data[i].born < session'
      BY <1>9 DEF Births
    <2>1. data[i].born \in Nat /\ (data[i].born < session \/ data[i].born = session)
      BY <1>6 DEF StateInv, Births, Tags
    <2> QED BY <1>6, <2>1
  <1>12. TreeHeld'
    <2>1. \A t \in tree' : \A p \in RunFiles("active", t.num) : Settled(p, t)'
      BY <1>2, <1>9 DEF Settled, Held, Has
    <2> QED BY <2>1 DEF TreeHeld
  <1>13. SavedInv'
    BY <1>8, SavedKept DEF StateInv, SparesSaved
  <1> QED BY <1>5, <1>7, <1>8, <1>10, <1>11, <1>12, <1>13 DEF FullInv, StateInv

\* The end of LsmTree::open keeps the invariant: what opens is synced and whole.
LEMMA FinishOpenKeeps ==
  ASSUME FullInv, FinishOpen
  PROVE  FullInv'
PROOF
  <1>1. StateInv /\ task.kind = "open" /\ task.todo = <<>> /\ session < MaxSession
    BY DEF FullInv, FinishOpen, StateInv, ProcTypes
  <1>2. Synced("active")
    <2>1. Rem = {}
      BY <1>1 DEF Rem, Range
    <2> QED BY <1>1, <2>1 DEF FullInv, TaskInv, Opening
  <1>3. PICK N, R : N = FoundNumbers /\ R = {x \in N : Opens("active", x)}
    OBVIOUS
  <1>4. N \in SUBSET Runs /\ R \in SUBSET N /\ (\A r \in R : Opens("active", r))
        /\ \A r \in Runs \ N : entries[RunFile("active", r, "keyops")] = None
    BY <1>3 DEF FoundNumbers
  <1>5. /\ tree' = {OpenedRun("active", r) : r \in R}
        /\ next_run_number' = NumberAfter(N) /\ session' = session + 1 /\ task' = Ready
        /\ DiskUnchanged /\ UNCHANGED <<saved, mishaps>>
    BY <1>3 DEF FinishOpen
  <1> QED BY <1>1, <1>2, <1>4, <1>5, SessionStarts

\* The end of open_snapshot keeps the invariant.
LEMMA FinishRestoreKeeps ==
  ASSUME FullInv, FinishRestore
  PROVE  FullInv'
PROOF
  <1>0. PICK n, R, good : n = task.name /\ R = NamedRuns(n) /\ good = {r \in R : Opens("active", r)}
    OBVIOUS
  <1>1. StateInv /\ task.kind = "restore" /\ task.todo = <<>> /\ session < MaxSession /\ tree = {}
        /\ DiskUnchanged /\ UNCHANGED <<saved, mishaps>>
    BY DEF FullInv, FinishRestore, StateInv, ProcTypes
  <1>2. n \in Names /\ Contents(Metadata(n)) # Torn /\ Synced("active")
        /\ \A p \in Paths : p[1] = "active" /\ entries[p] # None => \E r \in R : p \in RunFiles("active", r)
    <2>1. Rem = {}
      BY <1>1 DEF Rem, Range
    <2> QED BY <1>0, <1>1, <2>1 DEF FullInv, TaskInv, Restoring
  <1>3. R \in SUBSET Runs
    <2>1. Keeps({})
      BY <1>1, SameDisk DEF StateInv
    <2> QED BY <1>0, <1>1, <1>2, <2>1, MetadataKept DEF StateInv
  <1>4. CASE good = R
    <2>1. \A r \in R : Opens("active", r)
      BY <1>0, <1>4
    <2>2. ASSUME NEW r \in Runs \ R PROVE entries[RunFile("active", r, "keyops")] = None
      <3> DEFINE p == RunFile("active", r, "keyops")
      <3>1. p \in Paths /\ p[1] = "active" /\ p[2] = r
        BY RunFilePath, CsPath, NameFacts
      <3>2. ASSUME NEW x \in R, p \in RunFiles("active", x) PROVE FALSE
        <4>1. p[2] = x
          BY <1>3, <3>2, RunFilePath, NameFacts DEF RunFiles, Comps
        <4> QED BY <3>1, <4>1
      <3> QED BY <1>2, <3>1, <3>2
    <2>3. /\ tree' = {OpenedRun("active", r) : r \in R}
          /\ next_run_number' = NumberAfter(R) /\ session' = session + 1 /\ task' = Ready
      BY <1>0, <1>4 DEF FinishRestore
    <2> QED BY <1>1, <1>2, <1>3, <2>1, <2>2, <2>3, SessionStarts
  <1>5. CASE good # R
    <2>1. PICK S \in SUBSET good : task' = [Ready EXCEPT !.kind = "close", !.todo = ForRuns(S, DeleteRun)]
      BY <1>0, <1>5 DEF FinishRestore
    <2>2. UNCHANGED <<tree, session, next_run_number>>
      BY <1>0, <1>5 DEF FinishRestore
    <2>3. PICK s : s = ForRuns(S, DeleteRun)
      OBVIOUS
    <2>4. TaskIs("close", s, None, {}, None)
      BY <2>1, <2>3, NewTask
    <2>5. task'.kind = "close" /\ task'.todo = s /\ ~Open'
      BY <2>4 DEF TaskIs, Open
    <2>6. TaskTypes'
      BY <2>4, NewTaskTypes DEF Kinds
    <2>7. StateInv'
      BY <1>1, <2>2, <2>5, <2>6, StartRest
    <2>8. Deleting'
      <3>1. NumsOf(tree') = {} /\ Runs \ {} = Runs
        BY <1>1, <2>2 DEF NumsOf
      <3>2. S \in SUBSET Runs
        BY <1>0, <1>3
      <3>3. s \in Seq({Unlink(p) : p \in UNION {RunFiles("active", r) : r \in Runs}})
        BY <2>3, <3>2, DeletePlan
      <3> QED BY <2>5, <3>1, <3>3 DEF Deleting
    <2>9. TaskInv'
      BY <2>5, <2>8 DEF TaskInv
    <2> QED BY <2>7, <2>9 DEF FullInv
  <1> QED BY <1>4, <1>5

\* The end of a flush or a compaction keeps the invariant: the new run is durable.
LEMMA FinishWriteKeeps ==
  ASSUME FullInv, FinishWrite
  PROVE  FullInv'
PROOF
  <1>0. PICK t, D, s : t = task.run /\ D = task.drop /\ s = ForRuns(NumsOf(D), DeleteRun)
    OBVIOUS
  <1>1. /\ StateInv /\ task.kind = "write" /\ task.todo = <<>> /\ DiskUnchanged /\ Open
        /\ UNCHANGED <<session, next_run_number, saved, mishaps>>
        /\ tree' = (tree \ D) \union {t} /\ tree \subseteq Tags
    BY <1>0 DEF FullInv, FinishWrite, StateInv, ProcTypes, Open
  <1>2. /\ t \in Tags /\ t.num = next_run_number - 1 /\ t.num \notin NumsOf(tree) /\ D \subseteq tree
        /\ Written(t)
    BY <1>0, <1>1 DEF FullInv, TaskInv, Writing
  <1>3. Rem = {}
    BY <1>1 DEF Rem, Range
  <1>4. /\ \A p \in WFiles(t) : Has(p, t)
        /\ Has(File(t, "checksums"), t) /\ Synced("active")
        /\ \A i \in Inodes : data[i] = t => disk_data[i] = t
    BY <1>1, <1>2, <1>3 DEF Written
  <1>5. ASSUME NEW p \in RunFiles("active", t.num) PROVE Settled(p, t)
    <2>1. PICK c \in Comps : p = File(t, c)
      BY DEF RunFiles, Comps, File
    <2>2. Has(p, t)
      <3>1. CASE c = "checksums"
        BY <1>4, <2>1, <3>1
      <3>2. CASE c # "checksums"
        BY <1>4, <2>1, <3>2 DEF WFiles, Plain
      <3> QED BY <3>1, <3>2
    <2>3. p \in Paths /\ p[1] = "active"
      BY <1>2, RunFilePath, NameFacts DEF RunFiles, Comps, Tags
    <2>4. entries[p] \in Inodes
      BY <1>1, <2>2, <2>3 DEF Has, StateInv, DiskInv, DiskTypes
    <2> QED BY <1>4, <2>2, <2>3, <2>4 DEF Settled, Held, Has, Synced
  <1>6. TaskIs("delete", s, None, {}, None)
    <2>1. task' = [Ready EXCEPT !.kind = "delete", !.todo = s]
      BY <1>0 DEF FinishWrite, NumsOf
    <2> QED BY <2>1, NewTask
  <1>7. task'.kind = "delete" /\ task'.todo = s /\ Open'
    BY <1>6 DEF TaskIs, Open
  <1>8. TaskTypes'
    BY <1>6, NewTaskTypes DEF Kinds
  <1>9. DiskInv' /\ Keeps({}) /\ Fades({})
    BY <1>1, SameDisk DEF StateInv
  <1>10. entries' = entries /\ disk_entries' = disk_entries /\ data' = data /\ disk_data' = disk_data
    BY <1>1 DEF DiskUnchanged
  <1>11. ProcTypes'
    BY <1>1, <1>2, <1>7 DEF StateInv, ProcTypes
  <1>12. NumbersAhead'
    <2>1. next_run_number \in Nat
      BY <1>1 DEF StateInv, ProcTypes
    <2>2. t.num < next_run_number
      BY <1>2, <2>1
    <2> QED BY <1>1, <1>10, <2>2 DEF StateInv, NumbersAhead
  <1>13. Births'
    BY <1>1, <1>10 DEF StateInv, Births
  <1>14. TreeHeld'
    <2>1. \A x \in tree' : \A p \in RunFiles("active", x.num) : Settled(p, x)
      BY <1>1, <1>5 DEF StateInv, TreeHeld
    <2> QED BY <1>10, <2>1 DEF TreeHeld, Settled, Held, Has
  <1>15. SavedInv'
    BY <1>1, <1>9, SavedKept DEF StateInv, SparesSaved
  <1>16. Deleting'
    <2>1. ASSUME NEW x \in D, NEW y \in tree', x.num = y.num PROVE FALSE
      <3>1. CASE y = t
        BY <1>2, <2>1, <3>1 DEF NumsOf
      <3>2. CASE y # t
        <4>1. x \in tree /\ y \in tree /\ x # y
          BY <1>1, <1>2, <2>1, <3>2
        <4>2. RunFile("active", x.num, "keyops") \in RunFiles("active", x.num)
          BY CsPath DEF RunFiles, Comps
        <4>3. Settled(RunFile("active", x.num, "keyops"), x) /\ Settled(RunFile("active", x.num, "keyops"), y)
          BY <1>1, <2>1, <4>1, <4>2 DEF StateInv, TreeHeld
        <4> QED BY <4>1, <4>3 DEF Settled, Held, Has
      <3> QED BY <3>1, <3>2
    <2>2. NumsOf(D) \in SUBSET (Runs \ NumsOf(tree'))
      BY <1>1, <1>2, <2>1 DEF NumsOf, Tags
    <2>3. PICK Q \in SUBSET Runs : Q = Runs \ NumsOf(tree')
      OBVIOUS
    <2>4. s \in Seq({Unlink(p) : p \in UNION {RunFiles("active", r) : r \in Q}})
      BY <1>0, <2>2, <2>3, DeletePlan
    <2> QED BY <1>7, <2>3, <2>4 DEF Deleting
  <1>17. TaskInv'
    BY <1>7, <1>16 DEF TaskInv
  <1> QED BY <1>8, <1>9, <1>11, <1>12, <1>13, <1>14, <1>15, <1>17 DEF FullInv, StateInv

\* What a power loss leaves on the disk.
LosesTo(L, M) ==
  /\ entries' = [p \in Paths |-> IF p \in L THEN disk_entries[p] ELSE entries[p]]
  /\ disk_entries' = entries'
  /\ \A i \in Inodes : data'[i] = disk_data'[i] /\ data'[i] \in {data[i], Torn}
  /\ \A p \in Paths : entries'[p] # None /\ entries'[p] \notin M => data'[entries'[p]] = data[entries'[p]]

\* What the loss of power leaves, in terms of the entries and the inodes lost.
LEMMA LossIs ==
  ASSUME DiskInv, PowerLoss
  PROVE  \E L, M : /\ RenamesWhole(L) /\ LosesTo(L, M) /\ DiskTypes'
                   /\ L \subseteq {p \in Paths : entries[p] # disk_entries[p]}
                   /\ M \subseteq {i \in Inodes : data[i] # disk_data[i]}
PROOF
  <1> DEFINE Es == {p \in Paths : entries[p] # disk_entries[p]}
             Ds == {i \in Inodes : data[i] # disk_data[i]}
  <1>1. PICK L \in AlikeExceptFew(Es), M \in AlikeExceptFew(Ds) :
          /\ RenamesWhole(L)
          /\ LET e == [p \in Paths |-> IF p \in L THEN disk_entries[p] ELSE entries[p]]
                 d == [i \in Inodes |-> IF i \in M THEN Torn ELSE data[i]]
             IN  Disk(e, e, d, d)
    BY DEF PowerLoss
  <1>2. L \subseteq Es /\ M \subseteq Ds
    BY <1>1, Few
  <1> DEFINE e == [p \in Paths |-> IF p \in L THEN disk_entries[p] ELSE entries[p]]
             d == [i \in Inodes |-> IF i \in M THEN Torn ELSE data[i]]
  <1>3. e \in [Paths -> Inodes \union {None}] /\ d \in [Inodes -> Holdings]
    BY MarkFacts DEF DiskInv, DiskTypes
  <1>4. Disk(e, e, d, d)
    BY <1>1
  <1>5. /\ \A i \in M : i \in Inodes => d[i] = Torn
        /\ \A i \in Inodes : i \notin M => d[i] = data[i]
    OBVIOUS
  <1> HIDE DEF e, d
  <1>6. /\ entries' = e /\ disk_entries' = e /\ DiskTypes'
        /\ \A p \in Paths :
             e[p] # None => e[p] \in Inodes /\ data'[e[p]] = d[e[p]] /\ disk_data'[e[p]] = d[e[p]]
        /\ \A i \in Inodes : \/ data'[i] = d[i] /\ disk_data'[i] = d[i]
                             \/ data'[i] = Torn /\ disk_data'[i] = Torn
    BY <1>3, <1>4, DiskIs
  <1>7. LosesTo(L, M)
    <2>1. entries' = [p \in Paths |-> IF p \in L THEN disk_entries[p] ELSE entries[p]]
      BY <1>6 DEF e
    <2>2. \A i \in Inodes : data'[i] = disk_data'[i] /\ data'[i] \in {data[i], Torn}
      BY <1>5, <1>6
    <2>3. \A p \in Paths : entries'[p] # None /\ entries'[p] \notin M => data'[entries'[p]] = data[entries'[p]]
      BY <1>5, <1>6
    <2> QED BY <1>6, <2>1, <2>2, <2>3 DEF LosesTo
  <1> QED BY <1>1, <1>2, <1>6, <1>7

\* The loss of power keeps the invariant.
LEMMA PowerLossKeeps ==
  ASSUME FullInv, PowerLoss
  PROVE  FullInv'
PROOF
  <1>1. /\ StateInv /\ UNCHANGED session /\ task' = Closed /\ tree' = {} /\ next_run_number' = 1
        /\ saved' = [n \in Names |-> IF saved[n] = None THEN None ELSE [saved[n] EXCEPT !.power = TRUE]]
    BY DEF FullInv, PowerLoss
  <1>2. mishaps' \in 0 .. MaxMishaps
    BY <1>1, MishapCount DEF PowerLoss
  <1>3. PICK L, M : /\ RenamesWhole(L) /\ LosesTo(L, M) /\ DiskTypes'
                    /\ L \subseteq {p \in Paths : entries[p] # disk_entries[p]}
                    /\ M \subseteq {i \in Inodes : data[i] # disk_data[i]}
    BY <1>1, LossIs DEF StateInv
  <1>4. /\ disk_entries' = entries'
        /\ \A p \in Paths : entries'[p] = IF p \in L THEN disk_entries[p] ELSE entries[p]
        /\ \A i \in Inodes : data'[i] = disk_data'[i] /\ data'[i] \in {data[i], Torn}
        /\ \A p \in Paths : entries'[p] # None /\ entries'[p] \notin M => data'[entries'[p]] = data[entries'[p]]
        /\ \A p \in Paths : entries[p] = disk_entries[p] => entries'[p] = entries[p]
        /\ \A i \in M : data[i] # disk_data[i]
    BY <1>3 DEF LosesTo
  <1>5. ASSUME NEW p \in Paths, NEW i \in NamedBy(p)' PROVE i \in NamedBy(p) /\ i = entries'[p] /\ i \in Inodes
    BY <1>3, <1>4 DEF NamedBy, DiskTypes
  <1>6. Classes'
    BY <1>1, <1>4, <1>5 DEF StateInv, DiskInv, Classes, ClassOf
  <1>7. Whole'
    <2> SUFFICES ASSUME NEW p \in WholePaths, NEW i \in NamedBy(p)'
                 PROVE  data'[i] = disk_data'[i] /\ data'[i] # Torn
      BY DEF Whole
    <2>1. p \in Paths /\ i \in NamedBy(p) /\ i = entries'[p] /\ i \in Inodes /\ i # None
      BY <1>5, WholeFacts, MarkFacts
    <2>2. data[i] = disk_data[i] /\ data[i] # Torn
      BY <1>1, <2>1 DEF StateInv, DiskInv, Whole
    <2> QED BY <1>4, <2>1, <2>2
  <1>8. Committed'
    BY <1>4 DEF Committed
  <1>9. TmpApart'
    <2> SUFFICES ASSUME NEW r \in Runs, entries'[ChecksumsTmp(r)] # None
                 PROVE  Private(ChecksumsTmp(r))'
      BY <1>4 DEF TmpApart, Private
    <2> DEFINE tmp == ChecksumsTmp(r)
               cs == Cs("active", r)
    <2>1. tmp \in Paths /\ cs \in Paths
      BY TmpPath, CsPath, NameFacts
    <2>2. /\ entries[tmp] # None => Private(tmp)
          /\ disk_entries[tmp] # None =>
               \A q \in Paths \ {tmp} : /\ disk_entries[q] # disk_entries[tmp]
                                        /\ entries[q] = disk_entries[tmp] => q = cs
      BY <1>1 DEF StateInv, DiskInv, TmpApart
    <2>3. disk_entries[tmp] # None /\ disk_entries[tmp] = entries[cs] => (tmp \in L <=> cs \in L)
      <3> DEFINE m == <<tmp, cs>>
      <3>1. m \in Renames /\ m[1] = tmp /\ m[2] = cs
        BY DEF Renames, Cs
      <3> HIDE DEF m, tmp, cs
      <3> QED BY <1>3, <3>1 DEF RenamesWhole
    <2> HIDE DEF tmp, cs
    <2>4. ASSUME NEW q \in Paths \ {tmp}, entries'[q] = entries'[tmp], entries'[tmp] # None PROVE FALSE
      <3>1. CASE tmp \notin L
        BY <1>4, <2>1, <2>2, <2>4, <3>1 DEF Private
      <3>2. CASE tmp \in L
        BY <1>4, <2>1, <2>2, <2>3, <2>4, <3>2
      <3> QED BY <3>1, <3>2
    <2>5. \A q \in Paths \ {tmp} : entries'[q] # entries'[tmp] /\ disk_entries'[q] # entries'[tmp]
      BY <1>4, <2>4 DEF tmp
    <2> QED BY <2>5 DEF Private, tmp
  <1>10. TaskTypes' /\ TaskInv' /\ ~Open' /\ task'.kind = "closed"
    BY <1>1, IdleTask
  <1>11. ProcTypes' /\ NumbersAhead' /\ TreeHeld'
    BY <1>1, <1>2, <1>10, DiskAssumption DEF StateInv, ProcTypes, NumbersAhead, TreeHeld
  <1>12. Births'
    BY <1>1, <1>4, <1>10, MarkFacts DEF StateInv, Births
  <1>13. ASSUME NEW p \in Paths, NEW x, Settled(p, x) PROVE Settled(p, x)'
    <2>1. entries'[p] = entries[p] /\ entries[p] # None /\ entries[p] \in Inodes
      BY <1>1, <1>4, <1>13 DEF Settled, Held, Has, StateInv, DiskInv, DiskTypes
    <2>2. data'[entries[p]] = x
      BY <1>4, <1>13, <2>1 DEF Settled, Held, Has
    <2> QED BY <1>4, <2>1, <2>2 DEF Settled, Held, Has
  <1>14. saved' \in [Names -> Saves \union {None}]
         /\ \A n \in Names : /\ saved[n] = None <=> saved'[n] = None
                             /\ saved[n] # None => /\ saved'[n].runs = saved[n].runs
                                                   /\ saved'[n].done = saved[n].done
                                                   /\ saved'[n].power
    <2>1. \A n \in Names : saved[n] \in Saves \union {None}
      BY <1>1 DEF StateInv, SavedInv
    <2>2. ASSUME NEW n \in Names, saved[n] # None
          PROVE  /\ saved'[n] \in Saves /\ saved'[n] # None /\ saved'[n].runs = saved[n].runs
                 /\ saved'[n].done = saved[n].done /\ saved'[n].power
      <3>1. saved'[n] = [saved[n] EXCEPT !.power = TRUE] /\ saved[n] \in Saves
        BY <1>1, <2>1, <2>2
      <3>2. saved'[n] \in Saves
        BY <3>1 DEF Saves
      <3> QED BY <3>1, <3>2, MarkFacts DEF Saves
    <2>3. \A n \in Names : saved[n] = None => saved'[n] = None
      BY <1>1
    <2>4. \A n \in Names : saved'[n] \in Saves \union {None}
      BY <2>2, <2>3
    <2>5. saved' \in [Names -> Saves \union {None}]
      BY <1>1, <2>4
    <2> QED BY <2>2, <2>3, <2>5
  <1>15. ASSUME NEW n \in Names, saved'[n] = None PROVE Unused(n)'
    <2>1. Unused(n)
      BY <1>1, <1>14, <1>15 DEF StateInv, SavedInv
    <2> QED BY <1>4, <2>1 DEF Unused
  <1>16. ASSUME NEW n \in Names, saved'[n] # None, saved'[n].done PROVE Kept(n)'
    <2>1. Kept(n) /\ saved[n] # None /\ saved[n] \in Saves
      BY <1>1, <1>14, <1>16 DEF StateInv, SavedInv
    <2>2. PICK m : m = [runs |-> NumsOf(saved[n].runs)]
      OBVIOUS
    <2>3. Metadata(n) \in Paths /\ MetadataChecksum(n) \in Paths
      BY NamePaths
    <2>4. Settled(Metadata(n), m)'
      BY <1>13, <2>1, <2>2, <2>3 DEF Kept
    <2>5. ASSUME NEW t \in saved[n].runs, NEW p \in RunFiles(n, t.num) PROVE Settled(p, t)'
      <3>1. p \in Paths
        BY <2>1, RunFilePath, NameFacts DEF RunFiles, Comps, Tags, Saves
      <3> QED BY <1>13, <2>1, <3>1 DEF Kept
    <2>6. Held(MetadataChecksum(n), m)' \/ Held(MetadataChecksum(n), Torn)'
      <3> DEFINE q == MetadataChecksum(n)
      <3>1. (Held(q, m) \/ Held(q, Torn)) /\ q \in Paths
        BY <2>1, <2>2, <2>3 DEF Kept
      <3> HIDE DEF q
      <3>2. entries'[q] = entries[q] /\ entries[q] # None /\ entries[q] \in Inodes
        BY <1>1, <1>4, <3>1 DEF Held, Has, StateInv, DiskInv, DiskTypes
      <3>3. data'[entries[q]] \in {data[entries[q]], Torn}
        BY <1>4, <3>2
      <3>4. Held(q, m)' \/ Held(q, Torn)'
        BY <1>4, <3>1, <3>2, <3>3 DEF Held, Has
      <3> QED BY <3>4 DEF q
    <2>7. Synced(n)'
      BY <1>4 DEF Synced
    <2>8. saved'[n].runs = saved[n].runs /\ saved'[n].power
      BY <1>14, <2>1
    <2> QED BY <2>2, <2>4, <2>5, <2>6, <2>7, <2>8 DEF Kept
  <1>17. SavedInv'
    BY <1>14, <1>15, <1>16 DEF SavedInv
  <1>18. DiskInv'
    BY <1>3, <1>6, <1>7, <1>8, <1>9 DEF DiskInv
  <1> QED BY <1>10, <1>11, <1>12, <1>17, <1>18 DEF FullInv, StateInv

\* The invariant holds at the start.
LEMMA FullInit == Init => FullInv
PROOF
  <1> SUFFICES ASSUME Init PROVE FullInv
    OBVIOUS
  <1>1. /\ \A p \in Paths : entries[p] = None /\ disk_entries[p] = None
        /\ \A i \in Inodes : data[i] = Torn /\ disk_data[i] = Torn
        /\ tree = {} /\ session = 1 /\ task = Ready /\ next_run_number = 1 /\ mishaps = 0
        /\ saved = [n \in Names |-> None]
    BY DEF Init
  <1>2. DiskTypes
    BY MarkFacts DEF Init, DiskTypes
  <1>3. DiskInv
    <2>1. \A p \in Paths : NamedBy(p) = {}
      BY <1>1 DEF NamedBy
    <2>2. Classes /\ Whole
      BY <2>1, WholeFacts DEF Classes, Whole
    <2>3. TmpApart
      BY <1>1, TmpPath DEF TmpApart
    <2>4. Committed
      BY <1>1 DEF Committed
    <2> QED BY <1>2, <2>2, <2>3, <2>4 DEF DiskInv
  <1>4. /\ Ready.kind = "ready" /\ Ready.todo = <<>> /\ Ready.run = None /\ Ready.drop = {} /\ Ready.name = None
        /\ Ready = [kind |-> Ready.kind, todo |-> Ready.todo, run |-> Ready.run, drop |-> Ready.drop,
                    name |-> Ready.name]
    <2>1. Closed = [kind |-> "closed", todo |-> <<>>, run |-> None, drop |-> {}, name |-> None]
      BY DEF Closed
    <2>2. Ready = [Closed EXCEPT !.kind = "ready"]
      BY DEF Ready
    <2>3. PICK e : e = <<>>
      OBVIOUS
    <2> QED BY <2>1, <2>2, <2>3
  <1>5. TaskTypes
    BY <1>1, <1>4 DEF TaskTypes, Kinds
  <1>6. TaskInv
    BY <1>1, <1>4 DEF TaskInv
  <1>7. ProcTypes
    BY <1>1, <1>4, DiskAssumption DEF ProcTypes, Sessions
  <1>8. NumbersAhead
    <2>1. \A r \in Runs : RunFile("active", r, "keyops") \in Paths
      BY RunFilePath, CsPath, NameFacts
    <2> QED BY <1>1, <2>1 DEF NumbersAhead
  <1>9. Births /\ TreeHeld
    BY <1>1, MarkFacts DEF Births, TreeHeld
  <1>10. SavedInv
    <2>1. \A n \in Names : saved[n] = None
      BY <1>1
    <2>2. \A n \in Names : Unused(n)
      BY <1>1 DEF Unused
    <2>3. saved \in [Names -> Saves \union {None}]
      BY <1>1
    <2> QED BY <2>1, <2>2, <2>3 DEF SavedInv
  <1> QED BY <1>3, <1>5, <1>6, <1>7, <1>8, <1>9, <1>10 DEF FullInv, StateInv

\* Every step keeps the invariant.
LEMMA FullNext == FullInv /\ [Next]_dvars => FullInv'
PROOF
  <1> SUFFICES ASSUME FullInv, [Next]_dvars PROVE FullInv'
    OBVIOUS
  <1>1. CASE UNCHANGED dvars
    <2>1. /\ DiskUnchanged /\ UNCHANGED <<tree, session, next_run_number, saved, mishaps>> /\ task' = task
          /\ StateInv
      BY <1>1 DEF dvars, DiskUnchanged, FullInv
    <2>2. StateInv'
      <3>1. TaskTypes' /\ (Open' => Open)
        BY <2>1 DEF StateInv, TaskTypes, Open
      <3> QED BY <2>1, <3>1, StartRest DEF StateInv, ProcTypes
    <2>3. entries' = entries /\ disk_entries' = disk_entries /\ data' = data /\ disk_data' = disk_data
      BY <2>1 DEF DiskUnchanged
    <2>4. Rem' = Rem
      BY <2>1 DEF Rem
    <2>5. ASSUME NEW t, Writing(t) PROVE Writing(t)'
      BY <2>1, <2>3, <2>4, <2>5 DEF Writing, Written, Has, Private, Synced, WOrder
    <2>6. ASSUME NEW n, Saving(n) PROVE Saving(n)'
      BY <2>1, <2>3, <2>4, <2>6 DEF Saving, Done, Linked, Described, Has, Private, Synced, SOrder
    <2>7. Deleting => Deleting'
      BY <2>1 DEF Deleting
    <2>8. \A n : Removing(n) => Removing(n)'
      BY <2>1 DEF Removing
    <2>9. Opening => Opening'
      BY <2>1, <2>3, <2>4 DEF Opening, Synced
    <2>10. ASSUME NEW n, Restoring(n) PROVE Restoring(n)'
      BY <2>1, <2>3, <2>4, <2>10 DEF Restoring, NamedRuns, Contents, Synced
    <2>11. TaskInv'
      BY <2>1, <2>5, <2>6, <2>7, <2>8, <2>9, <2>10 DEF FullInv, TaskInv
    <2> QED BY <2>2, <2>11 DEF FullInv
  <1>2. CASE \E D \in SUBSET tree : StartWrite(D)
    BY <1>2, StartWriteKeeps
  <1>3. CASE \E n \in Names : StartSave(n) \/ StartRemove(n) \/ StartRestore(n)
    BY <1>3, StartSaveKeeps, StartRemoveKeeps, StartRestoreKeeps
  <1>4. CASE StartClose \/ StartOpen
    BY <1>4, StartCloseKeeps, StartOpenKeeps
  <1>5. CASE Step \/ StepUnlinkAll \/ CutUnlinkAll \/ SkipUnlink \/ Abort
    BY <1>5, AnyStep, AnyStepUnlinkAll, CutUnlinkAllKeeps, SkipUnlinkKeeps, AbortKeeps
  <1>6. CASE FinishWrite \/ FinishSave \/ FinishDelete \/ FinishOpen \/ FinishRestore
    BY <1>6, FinishWriteKeeps, FinishSaveKeeps, FinishDeleteKeeps, FinishOpenKeeps, FinishRestoreKeeps
  <1>7. CASE Crash \/ PowerLoss
    BY <1>7, CrashKeeps, PowerLossKeeps
  <1> QED BY <1>1, <1>2, <1>3, <1>4, <1>5, <1>6, <1>7 DEF Next

\* What is on disk, and how far the operation in progress has come, fit together
\* always: the inductive invariant of the file operations.
THEOREM FullInvariant == Spec => []FullInv
PROOF
  <1> QED BY FullInit, FullNext, PTL DEF Spec

---------------------------------------------------------------------------
(* What follows of it.                                                     *)

\* The invariant implies the types.
LEMMA FullTypes == FullInv => TypeOK
PROOF BY DEF FullInv, StateInv, DiskInv, DiskTypes, ProcTypes, TaskTypes, SavedInv, TypeOK

\* The state of the disk and of the process has its types always; an operation
\* that fails or is cut off leaves none half-changed (lib.rs, sstable.rs, snapshot.rs).
THEOREM TypesCorrect == Spec => []TypeOK
PROOF BY FullInvariant, FullTypes, PTL

\* The invariant implies that the tree's runs are durable.
LEMMA FullDurable == FullInv => HeldRunsDurable
PROOF BY DEF FullInv, StateInv, TreeHeld, Settled, Held, Has, HeldRunsDurable

\* A run the tree holds is on disk, whole and synced: the five files are synced,
\* and active/ after them, before finish returns a handle (sstable.rs:111-246).
THEOREM RunsDurable == Spec => []HeldRunsDurable
PROOF BY FullInvariant, FullDurable, PTL

\* The invariant implies that run numbers are fresh.
LEMMA FullFresh == FullInv => NumbersFresh
PROOF
  <1> SUFFICES ASSUME FullInv, task.kind = "write", task.todo # <<>>,
                      Head(task.todo) = CreateNew(RunFile("active", task.run.num, "keyops"))
               PROVE  ~Refused(CreateNew(RunFile("active", task.run.num, "keyops")))
    BY DEF NumbersFresh
  <1>0. PICK t, p : t = task.run /\ p = RunFile("active", t.num, "keyops")
    OBVIOUS
  <1>1. Writing(t)
    BY <1>0 DEF FullInv, TaskInv
  <1>2. Head(task.todo) \in Rem
    BY <1>1, TailOrder DEF Writing, WOrder, Rem
  <1>3. entries[p] = None
    BY <1>0, <1>1, <1>2 DEF Writing, Written, File
  <1>4. CreateNew(p).path = p /\ CreateNew(p).op = "create_new"
    BY CallParts
  <1> QED BY <1>0, <1>3, <1>4 DEF Refused

\* A run never gets the number of a .keyops file that is there already: open counts
\* from the file names, torn runs too (lib.rs:526-556), so create_new is not refused
\* (checksum_handle.rs:33-34).
THEOREM FreshNumbers == Spec => []NumbersFresh
PROOF BY FullInvariant, FullFresh, PTL

\* The invariant implies that atomic files are whole.
LEMMA FullWhole == FullInv => AtomicFilesWhole
PROOF
  <1> SUFFICES ASSUME FullInv PROVE AtomicFilesWhole
    OBVIOUS
  <1>1. ASSUME NEW p \in WholePaths, entries[p] # None PROVE Contents(p) # Torn
    BY <1>1 DEF FullInv, StateInv, DiskInv, Whole, NamedBy, Contents
  <1>2. \A n \in Names : Metadata(n) \in WholePaths
    BY WholeFacts
  <1>3. \A r \in Runs : RunFile("active", r, "checksums") \in WholePaths
    BY CsPath, WholeFacts, NameFacts DEF Cs
  <1> QED BY <1>1, <1>2, <1>3 DEF AtomicFilesWhole

\* The file of an atomic write is whole under its name, at every instant and after
\* a crash or a power loss at any of them: the temporary file is synced before the
\* rename (atomic_file.rs:10-11, checksum.rs:175-178).
THEOREM AtomicWritesWhole == Spec => []AtomicFilesWhole
PROOF BY FullInvariant, FullWhole, PTL

\* What can be read of a snapshot that is kept.
LEMMA KeptReads ==
  ASSUME FullInv, NEW n \in Names, saved[n] # None, saved[n].done
  PROVE  LET m == [runs |-> NumsOf(saved[n].runs)] IN
           /\ Contents(Metadata(n)) = m /\ m # Torn /\ NamedRuns(n) = NumsOf(saved[n].runs)
           /\ Contents(MetadataChecksum(n)) = m \/ (saved[n].power /\ Contents(MetadataChecksum(n)) = Torn)
           /\ ~saved[n].power => n \in Listed
           /\ \A t \in saved[n].runs : Opens(n, t.num) /\ OpenedRun(n, t.num) = t
PROOF
  <1>0. PICK m : m = [runs |-> NumsOf(saved[n].runs)]
    OBVIOUS
  <1>1. Kept(n) /\ saved[n].runs \subseteq Tags
    BY DEF FullInv, StateInv, SavedInv, Saves
  <1>2. Contents(Metadata(n)) = m
    BY <1>0, <1>1 DEF Kept, Settled, Held, Has, Contents
  <1>3. m # Torn
    <2>1. NumsOf(saved[n].runs) \subseteq Runs
      BY <1>1 DEF NumsOf, Tags
    <2> QED BY <1>0, <2>1, MarkFacts
  <1>4. NamedRuns(n) = NumsOf(saved[n].runs)
    BY <1>0, <1>2 DEF NamedRuns
  <1>5. Contents(MetadataChecksum(n)) = m \/ (saved[n].power /\ Contents(MetadataChecksum(n)) = Torn)
    BY <1>0, <1>1 DEF Kept, Held, Has, Contents
  <1>6. ~saved[n].power => n \in Listed
    BY <1>1 DEF Kept, Listed
  <1>7. ASSUME NEW t \in saved[n].runs PROVE Opens(n, t.num) /\ OpenedRun(n, t.num) = t
    <2>1. \A p \in RunFiles(n, t.num) : Contents(p) = t
      BY <1>1 DEF Kept, Settled, Held, Has, Contents
    <2>2. RunFile(n, t.num, "checksums") \in RunFiles(n, t.num)
      BY CsPath DEF RunFiles, Comps
    <2>3. t # Torn
      BY <1>1, MarkFacts
    <2> QED BY <2>1, <2>2, <2>3 DEF Opens, OpenedRun
  <1> QED BY <1>0, <1>2, <1>3, <1>4, <1>5, <1>6, <1>7

\* The invariant implies that saved snapshots load and validate.
LEMMA FullSurvives == FullInv => SavedSurvivesCrash
PROOF
  <1> SUFFICES ASSUME FullInv, NEW n \in Names, saved[n] # None, saved[n].done, ~saved[n].power
               PROVE  Loads(n) /\ Validates(n)
    BY DEF SavedSurvivesCrash
  <1>1. PICK m : m = [runs |-> NumsOf(saved[n].runs)]
    OBVIOUS
  <1>2. /\ Contents(Metadata(n)) = m /\ m # Torn /\ NamedRuns(n) = NumsOf(saved[n].runs)
        /\ Contents(MetadataChecksum(n)) = m /\ n \in Listed
        /\ \A t \in saved[n].runs : Opens(n, t.num)
    BY <1>1, KeptReads
  <1> QED BY <1>2 DEF Loads, Validates, NumsOf

\* A snapshot whose save has returned loads and validates until it is deleted,
\* unless the power goes: create_new never writes a file it links
\* (snapshot.rs:66-142, checksum_handle.rs:28-40).
THEOREM SavedSurvives == Spec => []SavedSurvivesCrash
PROOF BY FullInvariant, FullSurvives, PTL

\* The invariant implies what a power loss can cost.
LEMMA FullCosts == FullInv => PowerLossCosts
PROOF
  <1> SUFFICES ASSUME FullInv, NEW n \in Listed, saved[n] # None, saved[n].done
               PROVE  /\ Contents(Metadata(n)) = [runs |-> {t.num : t \in saved[n].runs}]
                      /\ OpenedRuns(n, NamedRuns(n)) = saved[n].runs
                      /\ Contents(MetadataChecksum(n)) \in {Torn, Contents(Metadata(n))}
    BY DEF PowerLossCosts
  <1>0. PICK m : m = [runs |-> NumsOf(saved[n].runs)]
    OBVIOUS
  <1>1. n \in Names
    BY DEF Listed
  <1>2. /\ Contents(Metadata(n)) = m /\ NamedRuns(n) = NumsOf(saved[n].runs)
        /\ Contents(MetadataChecksum(n)) \in {Torn, m}
        /\ \A t \in saved[n].runs : Opens(n, t.num) /\ OpenedRun(n, t.num) = t
    BY <1>0, <1>1, KeptReads
  <1>3. OpenedRuns(n, NamedRuns(n)) = saved[n].runs
    <2>1. {x \in NumsOf(saved[n].runs) : Opens(n, x)} = NumsOf(saved[n].runs)
      BY <1>2 DEF NumsOf
    <2>2. {OpenedRun(n, r) : r \in NumsOf(saved[n].runs)} = saved[n].runs
      BY <1>2 DEF NumsOf
    <2> QED BY <1>2, <2>1, <2>2 DEF OpenedRuns
  <1> QED BY <1>0, <1>2, <1>3 DEF NumsOf

\* A power loss costs a saved snapshot at most its metadata.checksum or its name in
\* snapshots/, the two that save_snapshot does not sync (snapshot.rs:129-136).
THEOREM PowerLossBounded == Spec => []PowerLossCosts
PROOF BY FullInvariant, FullCosts, PTL
=============================================================================
