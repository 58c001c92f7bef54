-------------------------- MODULE MerkleTreeProofs --------------------------
(* The incremental Merkle tree, for every height, every number of trees and *)
(* leaves and every set of keys: what insert keeps is the reference tree,   *)
(* proofs verify and bind, diff finds what differs.                         *)
EXTENDS MerkleTree, SequenceTheorems, WellFoundedInduction, TLAPS

---------------------------------------------------------------------------
(* Induction over a set of numbers.                                        *)

\* A set that has 0 and the successor of each number it has, has every number.
LEMMA AllNumbers ==
  ASSUME NEW S, 0 \in S, \A n \in Nat : n \in S => n + 1 \in S
  PROVE  Nat \subseteq S
PROOF
  <1> DEFINE T == Nat \ S
  <1>1. SUFFICES ASSUME T # {} PROVE FALSE
    OBVIOUS
  <1>2. PICK y \in T : \A z \in T : <<z, y>> \notin OpToRel(<, Nat)
    BY <1>1, NatLessThanWellFounded, WFMin
  <1>3. y \in Nat /\ y \notin S /\ y # 0
    BY <1>2
  <1>4. y - 1 \in Nat /\ y - 1 < y /\ (y - 1) + 1 = y
    BY <1>3
  <1>5. ASSUME y - 1 \notin S PROVE FALSE
    <2>1. <<y - 1, y>> \in OpToRel(<, Nat)
      BY <1>3, <1>4 DEF OpToRel
    <2> QED BY <1>2, <1>4, <1>5, <2>1
  <1> QED BY <1>3, <1>4, <1>5

---------------------------------------------------------------------------
(* Widths and ancestors.                                                   *)

\* The widths of the levels 0 .. n, as a function.
Widths(n) ==
  {w \in [0 .. n -> Nat \ {0}] : w[0] = 1 /\ \A l \in 1 .. n : w[l] = 2 * w[l - 1]}

LEMMA WidthsExist == \A n \in Nat : Widths(n) # {}
PROOF
  <1> DEFINE S == {n \in Nat : Widths(n) # {}}
  <1>1. 0 \in S
    <2>1. [l \in 0 .. 0 |-> 1] \in Widths(0)
      BY DEF Widths
    <2> QED BY <2>1
  <1>2. ASSUME NEW n \in Nat, n \in S PROVE n + 1 \in S
    <2>1. PICK w : w \in Widths(n)
      BY <1>2
    <2> DEFINE u == [l \in 0 .. n + 1 |-> IF l = n + 1 THEN 2 * w[n] ELSE w[l]]
    <2>2. w \in [0 .. n -> Nat \ {0}] /\ w[0] = 1 /\ \A l \in 1 .. n : w[l] = 2 * w[l - 1]
      BY <2>1 DEF Widths
    <2>3. w[n] \in Nat \ {0}
      BY <2>2
    <2>4. u \in [0 .. n + 1 -> Nat \ {0}]
      BY <2>2, <2>3
    <2>5. u[0] = 1
      BY <2>2
    <2>6. ASSUME NEW l \in 1 .. n + 1 PROVE u[l] = 2 * u[l - 1]
      BY <2>2
    <2>7. u \in Widths(n + 1)
      BY <2>4, <2>5, <2>6 DEF Widths
    <2> QED BY <2>7
  <1>3. Nat \subseteq S
    <2> HIDE DEF S
    <2> QED BY <1>1, <1>2, AllNumbers
  <1> QED BY <1>3

\* They agree on the levels that they have in common.
LEMMA WidthsAgree ==
  ASSUME NEW n \in Nat, NEW m \in Nat, NEW w \in Widths(n), NEW u \in Widths(m)
  PROVE  \A l \in Nat : l <= n /\ l <= m => w[l] = u[l]
PROOF
  <1> DEFINE S == {l \in Nat : l <= n /\ l <= m => w[l] = u[l]}
  <1>1. 0 \in S
    BY DEF Widths
  <1>2. ASSUME NEW l \in Nat, l \in S PROVE l + 1 \in S
    <2>1. SUFFICES ASSUME l + 1 <= n, l + 1 <= m PROVE w[l + 1] = u[l + 1]
      OBVIOUS
    <2>2. w[l] = u[l]
      BY <1>2, <2>1
    <2>3. w[l + 1] = 2 * w[l] /\ u[l + 1] = 2 * u[l]
      <3>1. l + 1 \in 1 .. n /\ l + 1 \in 1 .. m /\ (l + 1) - 1 = l
        BY <2>1
      <3> QED BY <3>1 DEF Widths
    <2> QED BY <2>2, <2>3
  <1>3. Nat \subseteq S
    <2> HIDE DEF S
    <2> QED BY <1>1, <1>2, AllNumbers
  <1> QED BY <1>3

\* Width doubles from level to level.
LEMMA WidthDoubles ==
  /\ Width[0] = 1
  /\ \A l \in Nat : Width[l] \in Nat \ {0} /\ Width[l + 1] = 2 * Width[l]
PROOF
  <1> DEFINE Of(n) == CHOOSE w : w \in Widths(n)
             W == [l \in Nat |-> Of(l)[l]]
  <1>1. \A n \in Nat : Of(n) \in Widths(n)
    BY WidthsExist
  <1> HIDE DEF Of
  <1>2. \A n \in Nat : Of(n)[n] \in Nat \ {0}
    BY <1>1 DEF Widths
  <1>3. Of(0)[0] = 1
    BY <1>1 DEF Widths
  <1>4. ASSUME NEW n \in Nat PROVE Of(n + 1)[n + 1] = 2 * Of(n)[n]
    <2>1. Of(n) \in Widths(n) /\ Of(n + 1) \in Widths(n + 1)
      BY <1>1
    <2>2. Of(n + 1)[n] = Of(n)[n]
      BY <2>1, WidthsAgree
    <2>3. n + 1 \in 1 .. n + 1 /\ (n + 1) - 1 = n
      OBVIOUS
    <2>4. Of(n + 1)[n + 1] = 2 * Of(n + 1)[n]
      BY <2>1, <2>3 DEF Widths
    <2> QED BY <2>2, <2>4
  <1>5. W = [l \in Nat |-> IF l = 0 THEN 1 ELSE 2 * W[l - 1]]
    <2>1. ASSUME NEW l \in Nat PROVE W[l] = IF l = 0 THEN 1 ELSE 2 * W[l - 1]
      <3>1. CASE l = 0
        BY <1>3, <3>1
      <3>2. CASE l # 0
        <4>1. l - 1 \in Nat /\ (l - 1) + 1 = l
          BY <3>2
        <4>2. Of(l)[l] = 2 * Of(l - 1)[l - 1]
          BY <1>4, <4>1
        <4> QED BY <3>2, <4>1, <4>2
      <3> QED BY <3>1, <3>2
    <2> QED BY <2>1
  <1>6. Width = [l \in Nat |-> IF l = 0 THEN 1 ELSE 2 * Width[l - 1]]
    <2> HIDE DEF W
    <2> QED BY <1>5 DEF Width
  <1> DEFINE S == {l \in Nat : Width[l] \in Nat \ {0}}
  <1>7. 0 \in S
    BY <1>6
  <1>8. ASSUME NEW l \in Nat, l \in S PROVE l + 1 \in S
    BY <1>6, <1>8
  <1>9. Nat \subseteq S
    <2> HIDE DEF S
    <2> QED BY <1>7, <1>8, AllNumbers
  <1> QED BY <1>6, <1>9

\* Arithmetic of division, apart from the recursion of Width.
LEMMA Division ==
  ASSUME NEW i \in Nat, NEW w \in Nat \ {0}
  PROVE  /\ i \div w \in Nat
         /\ \A j \in Nat : i \div w = j <=> j * w <= i /\ i < (j + 1) * w
         /\ (i \div w) \div 2 = i \div (2 * w)
PROOF
  <1>1. i \div w \in Nat
    OBVIOUS
  <1>2. \A j \in Nat : i \div w = j <=> j * w <= i /\ i < (j + 1) * w
    OBVIOUS
  <1>3. (i \div w) \div 2 = i \div (2 * w)
    OBVIOUS
  <1> QED BY <1>1, <1>2, <1>3

\* Halving an index.
LEMMA Halves ==
  ASSUME NEW a \in Nat
  PROVE  /\ a \div 2 \in Nat
         /\ Flip(a) \in Nat /\ Flip(a) # a
         /\ a % 2 = 0 => a = 2 * (a \div 2) /\ Flip(a) = 2 * (a \div 2) + 1
         /\ a % 2 # 0 => a = 2 * (a \div 2) + 1 /\ Flip(a) = 2 * (a \div 2)
PROOF
  <1>1. a \div 2 \in Nat
    OBVIOUS
  <1>2. a % 2 = 0 => a = 2 * (a \div 2)
    OBVIOUS
  <1>3. a % 2 # 0 => a = 2 * (a \div 2) + 1
    OBVIOUS
  <1> QED BY <1>1, <1>2, <1>3 DEF Flip

\* The way from a leaf upwards.
LEMMA Ancestors ==
  ASSUME NEW i \in Nat
  PROVE  /\ Ancestor(i, 0) = i
         /\ \A l \in Nat : /\ Ancestor(i, l) \in Nat
                           /\ Ancestor(i, l + 1) = Ancestor(i, l) \div 2
PROOF
  <1>1. Ancestor(i, 0) = i
    BY WidthDoubles DEF Ancestor
  <1>2. ASSUME NEW l \in Nat
        PROVE  /\ Ancestor(i, l) \in Nat
               /\ Ancestor(i, l + 1) = Ancestor(i, l) \div 2
    <2>1. Width[l] \in Nat \ {0} /\ Width[l + 1] = 2 * Width[l]
      BY WidthDoubles
    <2>2. i \div Width[l] \in Nat /\ (i \div Width[l]) \div 2 = i \div (2 * Width[l])
      BY <2>1, Division
    <2> QED BY <2>1, <2>2 DEF Ancestor
  <1> QED BY <1>1, <1>2

\* The node <<l, j>> stands over one of the first n leaves.
Over(n, l, j) == j * Width[l] < n

LEMMA OverLeaves ==
  ASSUME NEW n \in Nat, NEW l \in Nat, NEW j \in Nat
  PROVE  /\ Over(n, l, j) <=> \E i \in 0 .. n - 1 : Ancestor(i, l) = j
         /\ Over(n, 0, j) <=> j < n
         /\ Over(n, l + 1, j) <=> Over(n, l, 2 * j)
         /\ Over(n, l, 2 * j + 1) => Over(n, l, 2 * j)
         /\ Over(n, l, j) => j < n
PROOF
  <1>1. Width[l] \in Nat \ {0} /\ Width[l + 1] = 2 * Width[l] /\ Width[0] = 1
    BY WidthDoubles
  <1>2. ASSUME NEW i \in 0 .. n - 1, Ancestor(i, l) = j PROVE Over(n, l, j)
    <2>1. j * Width[l] <= i
      <3>1. i \in Nat /\ i \div Width[l] = j
        BY <1>2 DEF Ancestor
      <3> QED BY <1>1, <3>1, Division
    <2>2. j * Width[l] \in Nat
      BY <1>1
    <2> QED BY <2>1, <2>2 DEF Over
  <1>3. ASSUME Over(n, l, j) PROVE \E i \in 0 .. n - 1 : Ancestor(i, l) = j
    <2>1. PICK w \in Nat \ {0} : w = Width[l]
      BY <1>1
    <2>2. PICK i \in Nat : i = j * w
      BY <2>1
    <2>3. i < (j + 1) * w
      BY <2>1, <2>2
    <2>4. i \div w = j
      <3>1. j * w <= i
        BY <2>2
      <3> QED BY <2>3, <3>1, Division
    <2>5. i \in 0 .. n - 1
      BY <1>3, <2>1, <2>2 DEF Over
    <2> QED BY <2>1, <2>4, <2>5 DEF Ancestor
  <1>4. Over(n, 0, j) <=> j < n
    BY <1>1 DEF Over
  <1>5. Over(n, l + 1, j) <=> Over(n, l, 2 * j)
    <2>1. j * (2 * Width[l]) = (2 * j) * Width[l]
      BY <1>1
    <2> QED BY <1>1, <2>1 DEF Over
  <1>6. Over(n, l, 2 * j + 1) => Over(n, l, 2 * j)
    <2>1. (2 * j + 1) * Width[l] = (2 * j) * Width[l] + Width[l]
      BY <1>1
    <2>2. (2 * j) * Width[l] \in Nat
      BY <1>1
    <2> QED BY <1>1, <2>1, <2>2 DEF Over
  <1>7. Over(n, l, j) => j < n
    <2>1. j <= j * Width[l]
      BY <1>1
    <2>2. j * Width[l] \in Nat
      BY <1>1
    <2> QED BY <2>1, <2>2 DEF Over
  <1> QED BY <1>2, <1>3, <1>4, <1>5, <1>6, <1>7

LEMMA OverIndex ==
  ASSUME NEW n \in Nat, NEW l \in Nat, NEW j \in Nat, Over(n, l, j)
  PROVE  j < n
PROOF
  BY OverLeaves

LEMMA OverAncestor ==
  ASSUME NEW n \in Nat, NEW i \in 0 .. n - 1
  PROVE  \A l \in Nat : Over(n, l, Ancestor(i, l))
PROOF
  <1>1. TAKE l \in Nat
  <1>2. PICK j \in Nat : j = Ancestor(i, l)
    BY Ancestors
  <1> QED BY <1>2, OverLeaves

\* Ancestors are in the order of the leaves.
LEMMA AncestorsAscend ==
  ASSUME NEW l \in Nat, NEW i \in Nat, NEW j \in Nat, i <= j
  PROVE  Ancestor(i, l) <= Ancestor(j, l)
PROOF
  <1>1. PICK w \in Nat \ {0} : w = Width[l]
    BY WidthDoubles
  <1>2. PICK a \in Nat : a = i \div w
    BY Division
  <1>3. PICK b \in Nat : b = j \div w
    BY Division
  <1>4. a * w <= i /\ j < (b + 1) * w
    BY <1>2, <1>3, Division
  <1>5. a * w < (b + 1) * w
    BY <1>4
  <1>6. a < b + 1
    BY <1>5
  <1> QED BY <1>1, <1>2, <1>3, <1>6 DEF Ancestor

\* Up to its capacity a tree has one top node.
LEMMA OneSubtree ==
  ASSUME NEW h \in Nat, NEW i \in Nat, i < Width[h]
  PROVE  Ancestor(i, h) = 0
PROOF
  <1>1. Width[h] \in Nat \ {0}
    BY WidthDoubles
  <1> QED BY <1>1, Division DEF Ancestor

---------------------------------------------------------------------------
(* Hashes.                                                                 *)

LEMMA NodeHashes ==
  ASSUME NEW a, NEW b
  PROVE  /\ HashNode(a, b) # Empty
         /\ \A c, d : HashNode(a, b) = HashNode(c, d) => a = c /\ b = d
         /\ \A k, v : HashNode(a, b) # HashLeaf(k, v)
PROOF
  <1>1. HashNode(a, b)[1] = "node" /\ Empty[1] = "empty"
    BY DEF HashNode, Empty
  <1>2. \A k, v : HashLeaf(k, v)[1] = "leaf"
    BY DEF HashLeaf
  <1>3. \A c, d : HashNode(a, b) = HashNode(c, d) => a = c /\ b = d
    BY DEF HashNode
  <1>4. \A k, v : HashNode(a, b) # HashLeaf(k, v)
    BY <1>1, <1>2
  <1> QED BY <1>1, <1>3, <1>4

LEMMA LeafIsHeld == \A k, v : HashLeaf(k, v) # Empty
PROOF
  <1>1. \A k, v : HashLeaf(k, v)[1] = "leaf"
    BY DEF HashLeaf
  <1>2. Empty[1] = "empty"
    BY DEF Empty
  <1> QED BY <1>1, <1>2

\* The byte between them tells a key and a value apart, as no key holds it.
LEMMA LeafBinds ==
  ASSUME NEW k \in Keys, NEW v \in Values, NEW p \in Keys, NEW w \in Values,
         HashLeaf(k, v) = HashLeaf(p, w)
  PROVE  k = p /\ v = w
PROOF
  <1> DEFINE B == Byte \union {Separator}
             a == k \o <<Separator>> \o v
             b == p \o <<Separator>> \o w
  <1>1. a = b
    <2>1. HashLeaf(k, v)[2] = a /\ HashLeaf(p, w)[2] = b
      BY DEF HashLeaf
    <2> QED BY <2>1
  <1>2. k \in Seq(B) /\ v \in Seq(B) /\ p \in Seq(B) /\ w \in Seq(B)
    BY MerkleAssumption
  <1>3. <<Separator>> \in Seq(B) /\ Len(<<Separator>>) = 1 /\ <<Separator>>[1] = Separator
    OBVIOUS
  <1>4. ASSUME NEW x \in Seq(B), NEW y \in Seq(B)
        PROVE  LET c == x \o <<Separator>> \o y
               IN  /\ Len(c) = Len(x) + 1 + Len(y)
                   /\ \A i \in 1 .. Len(x) : c[i] = x[i]
                   /\ c[Len(x) + 1] = Separator
                   /\ \A i \in 1 .. Len(y) : c[Len(x) + 1 + i] = y[i]
    <2> DEFINE s == x \o <<Separator>>
    <2>1. s \in Seq(B) /\ Len(s) = Len(x) + 1 /\ s[Len(x) + 1] = Separator
          /\ \A i \in 1 .. Len(x) : s[i] = x[i]
      BY <1>3
    <2> HIDE DEF s
    <2>2. /\ Len(s \o y) = Len(s) + Len(y)
          /\ \A i \in 1 .. Len(s) : (s \o y)[i] = s[i]
          /\ \A i \in 1 .. Len(y) : (s \o y)[Len(s) + i] = y[i]
      BY <2>1
    <2>3. Len(x) \in Nat /\ Len(y) \in Nat
      OBVIOUS
    <2>4. /\ Len(s \o y) = Len(x) + 1 + Len(y)
          /\ \A i \in 1 .. Len(x) : (s \o y)[i] = x[i]
          /\ (s \o y)[Len(x) + 1] = Separator
          /\ \A i \in 1 .. Len(y) : (s \o y)[Len(x) + 1 + i] = y[i]
      BY <2>1, <2>2, <2>3
    <2> QED BY <2>4 DEF s
  <1>5. /\ Len(a) = Len(k) + 1 + Len(v)
        /\ \A i \in 1 .. Len(k) : a[i] = k[i]
        /\ a[Len(k) + 1] = Separator
        /\ \A i \in 1 .. Len(v) : a[Len(k) + 1 + i] = v[i]
    BY <1>2, <1>4
  <1>6. /\ Len(b) = Len(p) + 1 + Len(w)
        /\ \A i \in 1 .. Len(p) : b[i] = p[i]
        /\ b[Len(p) + 1] = Separator
        /\ \A i \in 1 .. Len(w) : b[Len(p) + 1 + i] = w[i]
    BY <1>2, <1>4
  <1> HIDE DEF a, b
  <1>7. \A i \in 1 .. Len(k) : k[i] # Separator
    BY <1>2, MerkleAssumption
  <1>8. \A i \in 1 .. Len(p) : p[i] # Separator
    BY <1>2, MerkleAssumption
  <1>9. Len(k) \in Nat /\ Len(p) \in Nat /\ Len(v) \in Nat /\ Len(w) \in Nat
    BY <1>2
  <1>10. ~(Len(k) < Len(p))
    <2>1. SUFFICES ASSUME Len(k) < Len(p) PROVE FALSE
      OBVIOUS
    <2>2. Len(k) + 1 \in 1 .. Len(p)
      BY <2>1, <1>9
    <2> QED BY <2>2, <1>1, <1>5, <1>6, <1>8
  <1>11. ~(Len(p) < Len(k))
    <2>1. SUFFICES ASSUME Len(p) < Len(k) PROVE FALSE
      OBVIOUS
    <2>2. Len(p) + 1 \in 1 .. Len(k)
      BY <2>1, <1>9
    <2> QED BY <2>2, <1>1, <1>5, <1>6, <1>7
  <1>12. Len(k) = Len(p) /\ Len(v) = Len(w)
    BY <1>1, <1>5, <1>6, <1>9, <1>10, <1>11
  <1>13. k = p
    <2>1. \A i \in 1 .. Len(k) : k[i] = p[i]
      BY <1>1, <1>5, <1>6, <1>12
    <2> QED BY <2>1, <1>2, <1>12
  <1>14. v = w
    <2>1. \A i \in 1 .. Len(v) : v[i] = w[i]
      BY <1>1, <1>5, <1>6, <1>12
    <2> QED BY <2>1, <1>2, <1>12
  <1> QED BY <1>13, <1>14

---------------------------------------------------------------------------
(* The loops up the tree.                                                  *)

\* A hash of a path from the one below it: the sibling is to the left or not.
Joined(left, sibling, below) ==
  IF left THEN HashNode(sibling, below) ELSE HashNode(below, sibling)

LEMMA JoinedApart ==
  ASSUME NEW left, NEW sibling, NEW a, NEW b
  PROVE  Joined(left, sibling, a) = Joined(left, sibling, b) => a = b
PROOF
  BY NodeHashes DEF Joined

\* The recursion of both loops.
Path(f, n, leaf, left, siblings) ==
  f = [l \in 0 .. n |->
        IF l = 0 THEN leaf ELSE Joined(left[l], siblings[l], f[l - 1])]

\* It has a solution.
LEMMA PathExists ==
  ASSUME NEW leaf, NEW left, NEW siblings
  PROVE  \A n \in Nat : \E f : Path(f, n, leaf, left, siblings)
PROOF
  <1> DEFINE S == {n \in Nat : \E f : Path(f, n, leaf, left, siblings)}
  <1>1. 0 \in S
    <2>1. Path([l \in 0 .. 0 |-> leaf], 0, leaf, left, siblings)
      BY DEF Path
    <2> QED BY <2>1
  <1>2. ASSUME NEW n \in Nat, n \in S PROVE n + 1 \in S
    <2>1. PICK f : Path(f, n, leaf, left, siblings)
      BY <1>2
    <2> DEFINE g == [l \in 0 .. n + 1 |->
                      IF l = n + 1 THEN Joined(left[n + 1], siblings[n + 1], f[n]) ELSE f[l]]
    <2>2. ASSUME NEW l \in 0 .. n + 1
          PROVE  g[l] = IF l = 0 THEN leaf ELSE Joined(left[l], siblings[l], g[l - 1])
      <3>1. CASE l = 0
        BY <2>1, <3>1 DEF Path
      <3>2. CASE l = n + 1
        BY <3>2
      <3>3. CASE l # 0 /\ l # n + 1
        <4>1. l \in 0 .. n /\ l - 1 \in 0 .. n + 1 /\ l - 1 # n + 1
          BY <3>3
        <4>2. g[l] = f[l] /\ g[l - 1] = f[l - 1]
          BY <3>3, <4>1
        <4>3. f[l] = Joined(left[l], siblings[l], f[l - 1])
          BY <2>1, <3>3, <4>1 DEF Path
        <4> QED BY <3>3, <4>2, <4>3
      <3> QED BY <3>1, <3>2, <3>3
    <2>3. g = [l \in 0 .. n + 1 |-> g[l]]
      OBVIOUS
    <2> HIDE DEF g
    <2>4. Path(g, n + 1, leaf, left, siblings)
      BY <2>2, <2>3 DEF Path
    <2> QED BY <2>4
  <1>3. Nat \subseteq S
    <2> HIDE DEF S
    <2> QED BY <1>1, <1>2, AllNumbers
  <1> QED BY <1>3

\* The hashes that insert computes, level by level.
LEMMA PathClimbs ==
  ASSUME NEW t, NEW i \in Nat, NEW leaf, t.height \in Nat
  PROVE  LET up == PathHashes(t, i, leaf)
         IN  /\ up[0] = leaf
             /\ \A l \in 1 .. t.height :
                  LET index == Ancestor(i, l - 1)
                  IN  up[l] = Joined(index % 2 # 0, NodeHash(t, l - 1, Flip(index)), up[l - 1])
PROOF
  <1> DEFINE h == t.height
             Index(l) == Ancestor(i, l - 1)
             Sibling(l) == NodeHash(t, l - 1, Flip(Index(l)))
             Body(f) == [l \in 0 .. h |->
                          IF l = 0 THEN leaf
                          ELSE IF Index(l) % 2 = 0 THEN HashNode(f[l - 1], Sibling(l))
                                                   ELSE HashNode(Sibling(l), f[l - 1])]
             left == [l \in 1 .. h |-> Index(l) % 2 # 0]
             siblings == [l \in 1 .. h |-> Sibling(l)]
  <1>1. PICK f : Path(f, h, leaf, left, siblings)
    BY PathExists
  <1>2. f = Body(f)
    <2>1. ASSUME NEW l \in 0 .. h PROVE f[l] = Body(f)[l]
      <3>1. CASE l = 0
        BY <1>1, <3>1 DEF Path
      <3>2. CASE l # 0
        <4>1. l \in 1 .. h
          BY <3>2
        <4> HIDE DEF Sibling, Index
        <4>2. f[l] = Joined(Index(l) % 2 # 0, Sibling(l), f[l - 1])
          BY <1>1, <4>1 DEF Path
        <4> QED BY <3>2, <4>2 DEF Joined
      <3> QED BY <3>1, <3>2
    <2>2. f = [l \in 0 .. h |-> f[l]]
      BY <1>1 DEF Path
    <2> HIDE DEF Sibling, Index
    <2> QED BY <2>1, <2>2
  <1> DEFINE up == CHOOSE g : g = Body(g)
  <1>3. up = Body(up)
    <2> HIDE DEF Body
    <2> QED BY <1>2
  <1>4. PathHashes(t, i, leaf) = up
    BY DEF PathHashes
  <1> HIDE DEF up
  <1>5. up[0] = leaf
    BY <1>3
  <1>6. ASSUME NEW l \in 1 .. h
        PROVE  up[l] = Joined(Index(l) % 2 # 0, Sibling(l), up[l - 1])
    <2> HIDE DEF Sibling, Index
    <2>1. l \in 0 .. h /\ l # 0
      OBVIOUS
    <2> QED BY <1>3, <2>1 DEF Joined
  <1> QED BY <1>4, <1>5, <1>6

\* What verify_proof computes, sibling by sibling.
Climbing(f, leaf, siblings) ==
  /\ f[0] = leaf
  /\ \A n \in 1 .. Len(siblings) :
       f[n] = Joined(siblings[n].side = "Left", siblings[n].hash, f[n - 1])

LEMMA ClimbedIs ==
  ASSUME NEW leaf, NEW siblings, Len(siblings) \in Nat
  PROVE  \E f : Climbing(f, leaf, siblings) /\ Climbed(leaf, siblings) = f[Len(siblings)]
PROOF
  <1> DEFINE h == Len(siblings)
             Body(f) == [n \in 0 .. h |->
                          IF n = 0 THEN leaf
                          ELSE IF siblings[n].side = "Left"
                                 THEN HashNode(siblings[n].hash, f[n - 1])
                                 ELSE HashNode(f[n - 1], siblings[n].hash)]
             left == [n \in 1 .. h |-> siblings[n].side = "Left"]
             hashes == [n \in 1 .. h |-> siblings[n].hash]
  <1>1. PICK f : Path(f, h, leaf, left, hashes)
    BY PathExists
  <1>2. f = Body(f)
    <2>1. ASSUME NEW n \in 0 .. h PROVE f[n] = Body(f)[n]
      <3>1. CASE n = 0
        BY <1>1, <3>1 DEF Path
      <3>2. CASE n # 0
        <4>1. n \in 1 .. h
          BY <3>2
        <4>2. f[n] = Joined(left[n], hashes[n], f[n - 1])
          BY <1>1, <3>2, <4>1 DEF Path
        <4>3. left[n] = (siblings[n].side = "Left") /\ hashes[n] = siblings[n].hash
          BY <4>1
        <4>4. f[n] = IF siblings[n].side = "Left" THEN HashNode(siblings[n].hash, f[n - 1])
                                                  ELSE HashNode(f[n - 1], siblings[n].hash)
          <5> HIDE DEF left, hashes
          <5> QED BY <4>2, <4>3 DEF Joined
        <4> QED BY <3>2, <4>4
      <3> QED BY <3>1, <3>2
    <2>2. f = [n \in 0 .. h |-> f[n]]
      BY <1>1 DEF Path
    <2> QED BY <2>1, <2>2
  <1> DEFINE current == CHOOSE g : g = Body(g)
  <1>3. current = Body(current)
    <2> HIDE DEF Body
    <2> QED BY <1>2
  <1>4. Climbed(leaf, siblings) = current[Len(siblings)]
    BY DEF Climbed
  <1> HIDE DEF current
  <1>5. current[0] = leaf
    BY <1>3
  <1>6. ASSUME NEW n \in 1 .. h
        PROVE  current[n] = Joined(siblings[n].side = "Left", siblings[n].hash, current[n - 1])
    <2>1. n \in 0 .. h /\ n # 0
      OBVIOUS
    <2> QED BY <1>3, <2>1 DEF Joined
  <1>7. Climbing(current, leaf, siblings)
    BY <1>5, <1>6 DEF Climbing
  <1> QED BY <1>4, <1>7

---------------------------------------------------------------------------
(* The invariant of one tree.                                              *)

Fields == {"height", "nodes", "root", "leaf_count", "key_to_index", "leaf_data"}

\* The nodes are those over a leaf; every key has its leaf and its value.
WellFormed(t) ==
  /\ DOMAIN t = Fields
  /\ t.height \in Heights
  /\ t.leaf_count \in Nat
  /\ DOMAIN t.nodes =
       {<<l, Ancestor(i, l)>> : l \in 0 .. t.height, i \in 0 .. t.leaf_count - 1}
  /\ DOMAIN t.leaf_data = DOMAIN t.key_to_index
  /\ \A k \in DOMAIN t.leaf_data :
       /\ k \in Keys /\ t.leaf_data[k] \in Values
       /\ t.key_to_index[k] \in 0 .. t.leaf_count - 1

\* A node above the leaves is the hash of its two children.
NodesJoin(t) ==
  \A l \in Nat, j \in Nat :
    l < t.height /\ Over(t.leaf_count, l + 1, j) =>
      NodeHash(t, l + 1, j) = HashNode(NodeHash(t, l, 2 * j), NodeHash(t, l, 2 * j + 1))

\* A leaf is the hash of a key that has been inserted there, or again later.
LeavesHeld(t) ==
  \A i \in 0 .. t.leaf_count - 1 :
    \E k \in DOMAIN t.key_to_index : \E v \in Values :
      NodeHash(t, 0, i) = HashLeaf(k, v) /\ i <= t.key_to_index[k]

\* The last leaf of a key is of the key's value.
KeysHeld(t) ==
  \A k \in DOMAIN t.key_to_index :
    NodeHash(t, 0, t.key_to_index[k]) = HashLeaf(k, t.leaf_data[k])

RootHeld(t) ==
  t.root = IF t.leaf_count = 0 THEN Empty ELSE NodeHash(t, t.height, Newest(t))

Hashed(t) == NodesJoin(t) /\ LeavesHeld(t) /\ KeysHeld(t) /\ RootHeld(t)

Good(t) == WellFormed(t) /\ Hashed(t)

LEMMA TreeNumbers ==
  ASSUME NEW t, WellFormed(t)
  PROVE  t.height \in Nat /\ t.leaf_count \in Nat
PROOF
  BY MerkleAssumption DEF WellFormed

\* The nodes there are.
LEMMA NodesOver ==
  ASSUME NEW t, WellFormed(t)
  PROVE  \A l \in 0 .. t.height, j \in Nat :
           <<l, j>> \in DOMAIN t.nodes <=> Over(t.leaf_count, l, j)
PROOF
  <1>1. TAKE l \in 0 .. t.height, j \in Nat
  <1>2. l \in Nat /\ t.leaf_count \in Nat
    BY TreeNumbers
  <1>3. Over(t.leaf_count, l, j) <=> \E i \in 0 .. t.leaf_count - 1 : Ancestor(i, l) = j
    BY <1>2, OverLeaves
  <1>4. <<l, j>> \in DOMAIN t.nodes
          <=> \E i \in 0 .. t.leaf_count - 1 : Ancestor(i, l) = j
    BY DEF WellFormed
  <1> QED BY <1>3, <1>4

\* A node is empty exactly when there is no leaf under it.
LEMMA EmptyNodes ==
  ASSUME NEW t, Good(t)
  PROVE  \A l \in 0 .. t.height, j \in Nat :
           NodeHash(t, l, j) = Empty <=> ~Over(t.leaf_count, l, j)
PROOF
  <1>1. TAKE l \in 0 .. t.height, j \in Nat
  <1>2. t.height \in Nat /\ t.leaf_count \in Nat /\ l \in Nat
    BY TreeNumbers DEF Good
  <1>3. CASE ~Over(t.leaf_count, l, j)
    BY <1>3, NodesOver DEF Good, NodeHash
  <1>4. CASE Over(t.leaf_count, l, j) /\ l = 0
    <2>1. j < t.leaf_count
      BY <1>2, <1>4, OverLeaves
    <2>2. PICK k, v : NodeHash(t, 0, j) = HashLeaf(k, v)
      BY <1>2, <2>1 DEF Good, Hashed, LeavesHeld
    <2> QED BY <1>4, <2>2, LeafIsHeld
  <1>5. CASE Over(t.leaf_count, l, j) /\ l # 0
    <2>1. l - 1 \in Nat /\ l - 1 < t.height /\ (l - 1) + 1 = l
      BY <1>2, <1>5
    <2>2. NodeHash(t, l, j)
            = HashNode(NodeHash(t, l - 1, 2 * j), NodeHash(t, l - 1, 2 * j + 1))
      BY <1>5, <2>1 DEF Good, Hashed, NodesJoin
    <2> QED BY <1>5, <2>2, NodeHashes
  <1> QED BY <1>3, <1>4, <1>5

---------------------------------------------------------------------------
(* Insert keeps it.                                                        *)

\* The nodes on the way from the new leaf to the top, and their hashes.
NewPath(t) == {<<l, Ancestor(t.leaf_count, l)>> : l \in 0 .. t.height}
NewHashes(t, k, v) == PathHashes(t, t.leaf_count, HashLeaf(k, v))

\* u has the fields of t after an insert.
AfterInsert(t, k, v, u) ==
  /\ DOMAIN u = Fields
  /\ u.height = t.height
  /\ u.leaf_count = t.leaf_count + 1
  /\ u.root = NewHashes(t, k, v)[t.height]
  /\ u.key_to_index = With(t.key_to_index, k, t.leaf_count)
  /\ u.leaf_data = With(t.leaf_data, k, v)
  /\ u.nodes = [p \in DOMAIN t.nodes \union NewPath(t) |->
                  IF p \in NewPath(t) THEN NewHashes(t, k, v)[p[1]] ELSE t.nodes[p]]

LEMMA InsertedFields ==
  ASSUME NEW t, WellFormed(t), NEW k, NEW v
  PROVE  AfterInsert(t, k, v, Inserted(t, k, v))
PROOF
  <1> DEFINE nodes == [p \in DOMAIN t.nodes \union NewPath(t) |->
                        IF p \in NewPath(t) THEN NewHashes(t, k, v)[p[1]] ELSE t.nodes[p]]
             u == [t EXCEPT !.nodes = nodes,
                            !.root = NewHashes(t, k, v)[t.height],
                            !.leaf_count = t.leaf_count + 1,
                            !.key_to_index = With(@, k, t.leaf_count),
                            !.leaf_data = With(@, k, v)]
  <1>1. Inserted(t, k, v) = u
    BY DEF Inserted, NewPath, NewHashes
  <1>2. DOMAIN t = Fields
    BY DEF WellFormed
  <1> HIDE DEF nodes
  <1>3. /\ DOMAIN u = Fields
        /\ u.height = t.height
        /\ u.leaf_count = t.leaf_count + 1
        /\ u.root = NewHashes(t, k, v)[t.height]
        /\ u.key_to_index = With(t.key_to_index, k, t.leaf_count)
        /\ u.leaf_data = With(t.leaf_data, k, v)
        /\ u.nodes = nodes
    BY <1>2 DEF Fields
  <1> HIDE DEF u
  <1>4. AfterInsert(t, k, v, u)
    BY <1>3 DEF nodes, AfterInsert
  <1> QED BY <1>1, <1>4

\* Its nodes are those of t, and the new hashes on the new path.
PathReplaced(t, k, v, u) ==
  \A l \in 0 .. t.height, j \in Nat :
    NodeHash(u, l, j)
      = IF j = Ancestor(t.leaf_count, l) THEN NewHashes(t, k, v)[l] ELSE NodeHash(t, l, j)

LEMMA InsertedHashes ==
  ASSUME NEW t, NEW k, NEW v, NEW u, AfterInsert(t, k, v, u)
  PROVE  PathReplaced(t, k, v, u)
PROOF
  <1>1. u.nodes = [p \in DOMAIN t.nodes \union NewPath(t) |->
                     IF p \in NewPath(t) THEN NewHashes(t, k, v)[p[1]] ELSE t.nodes[p]]
    BY DEF AfterInsert
  <1>2. ASSUME NEW l \in 0 .. t.height, NEW j \in Nat
        PROVE  NodeHash(u, l, j)
                 = IF j = Ancestor(t.leaf_count, l) THEN NewHashes(t, k, v)[l]
                                                    ELSE NodeHash(t, l, j)
    <2>1. <<l, j>> \in NewPath(t) <=> j = Ancestor(t.leaf_count, l)
      BY DEF NewPath
    <2>2. CASE <<l, j>> \in NewPath(t)
      BY <1>1, <2>1, <2>2 DEF NodeHash
    <2>3. CASE <<l, j>> \notin NewPath(t)
      BY <1>1, <2>1, <2>3 DEF NodeHash
    <2> QED BY <2>2, <2>3
  <1> QED BY <1>2 DEF PathReplaced

\* One more leaf adds its ancestors to the nodes.
LEMMA OverOneMore ==
  ASSUME NEW n \in Nat, NEW l \in Nat, NEW j \in Nat
  PROVE  Over(n + 1, l, j) <=> Over(n, l, j) \/ j = Ancestor(n, l)
PROOF
  <1>1. Over(n, l, j) <=> \E i \in 0 .. n - 1 : Ancestor(i, l) = j
    BY OverLeaves
  <1>2. Over(n + 1, l, j) <=> \E i \in 0 .. (n + 1) - 1 : Ancestor(i, l) = j
    BY OverLeaves
  <1>3. 0 .. (n + 1) - 1 = (0 .. n - 1) \union {n}
    OBVIOUS
  <1> QED BY <1>1, <1>2, <1>3

LEMMA InsertWellFormed ==
  ASSUME NEW t, WellFormed(t), NEW k \in Keys, NEW v \in Values
  PROVE  WellFormed(Inserted(t, k, v))
PROOF
  <1> DEFINE u == Inserted(t, k, v)
             n == t.leaf_count
  <1>1. n \in Nat /\ t.height \in Nat
    BY TreeNumbers
  <1>2. /\ DOMAIN u = Fields
        /\ u.height = t.height
        /\ u.leaf_count = n + 1
        /\ u.key_to_index = With(t.key_to_index, k, n)
        /\ u.leaf_data = With(t.leaf_data, k, v)
        /\ DOMAIN u.nodes = DOMAIN t.nodes \union NewPath(t)
    <2>1. AfterInsert(t, k, v, u)
      BY InsertedFields
    <2> HIDE DEF u
    <2> QED BY <2>1 DEF AfterInsert
  <1> HIDE DEF u
  <1>3. DOMAIN u.nodes = {<<l, Ancestor(i, l)>> : l \in 0 .. t.height, i \in 0 .. (n + 1) - 1}
    <2>1. 0 .. (n + 1) - 1 = (0 .. n - 1) \union {n}
      BY <1>1
    <2>2. DOMAIN t.nodes = {<<l, Ancestor(i, l)>> : l \in 0 .. t.height, i \in 0 .. n - 1}
      BY DEF WellFormed
    <2> QED BY <1>2, <2>1, <2>2 DEF NewPath
  <1>4. DOMAIN u.leaf_data = DOMAIN t.leaf_data \union {k}
        /\ DOMAIN u.key_to_index = DOMAIN t.key_to_index \union {k}
    BY <1>2 DEF With
  <1>5. ASSUME NEW x \in DOMAIN u.leaf_data
        PROVE  /\ x \in Keys /\ u.leaf_data[x] \in Values
               /\ u.key_to_index[x] \in 0 .. (n + 1) - 1
    <2>1. CASE x = k
      <3>1. u.leaf_data[x] = v /\ u.key_to_index[x] = n
        BY <1>2, <2>1 DEF With
      <3> QED BY <1>1, <2>1, <3>1
    <2>2. CASE x # k
      <3>1. x \in DOMAIN t.leaf_data /\ x \in DOMAIN t.key_to_index
        BY <1>4, <2>2 DEF WellFormed
      <3>2. u.leaf_data[x] = t.leaf_data[x] /\ u.key_to_index[x] = t.key_to_index[x]
        BY <1>2, <2>2, <3>1 DEF With
      <3>3. x \in Keys /\ t.leaf_data[x] \in Values /\ t.key_to_index[x] \in 0 .. n - 1
        BY <3>1 DEF WellFormed
      <3> QED BY <1>1, <3>2, <3>3
    <2> QED BY <2>1, <2>2
  <1>6. u.height \in Heights /\ u.leaf_count \in Nat
    BY <1>1, <1>2 DEF WellFormed
  <1>7. DOMAIN u.leaf_data = DOMAIN u.key_to_index
    BY <1>4 DEF WellFormed
  <1>8. WellFormed(u)
    BY <1>2, <1>3, <1>5, <1>6, <1>7 DEF WellFormed
  <1> QED BY <1>8 DEF u

LEMMA InsertHashed ==
  ASSUME NEW t, Good(t), NEW k \in Keys, NEW v \in Values
  PROVE  Hashed(Inserted(t, k, v))
PROOF
  <1> DEFINE u == Inserted(t, k, v)
             n == t.leaf_count
             h == t.height
             up == NewHashes(t, k, v)
             Above(l) == Ancestor(n, l)
  <1>1. n \in Nat /\ h \in Nat /\ WellFormed(t)
    BY TreeNumbers DEF Good
  <1>2. AfterInsert(t, k, v, u) /\ PathReplaced(t, k, v, u)
    BY <1>1, InsertedFields, InsertedHashes
  <1> HIDE DEF u
  <1>3. /\ u.height = h
         /\ u.leaf_count = n + 1
         /\ u.root = up[h]
         /\ u.key_to_index = With(t.key_to_index, k, n)
         /\ u.leaf_data = With(t.leaf_data, k, v)
    BY <1>2 DEF AfterInsert
  <1>4. \A l \in 0 .. h, j \in Nat :
          NodeHash(u, l, j) = IF j = Above(l) THEN up[l] ELSE NodeHash(t, l, j)
    BY <1>2 DEF PathReplaced
  <1>5. up[0] = HashLeaf(k, v)
    BY <1>1, PathClimbs DEF NewHashes
  <1>6. \A l \in 1 .. h :
          up[l] = Joined(Above(l - 1) % 2 # 0, NodeHash(t, l - 1, Flip(Above(l - 1))), up[l - 1])
    BY <1>1, PathClimbs DEF NewHashes
  <1>7. Above(0) = n /\ \A l \in Nat : Above(l) \in Nat /\ Above(l + 1) = Above(l) \div 2
    BY <1>1, Ancestors
  <1> HIDE DEF up, Above
  <1>8. NodesJoin(u)
    <2>1. SUFFICES ASSUME NEW l \in Nat, NEW j \in Nat, l < h, Over(n + 1, l + 1, j)
                   PROVE  NodeHash(u, l + 1, j)
                            = HashNode(NodeHash(u, l, 2 * j), NodeHash(u, l, 2 * j + 1))
      BY <1>3 DEF NodesJoin
    <2> DEFINE a == Above(l)
    <2>2. l \in 0 .. h /\ l + 1 \in 0 .. h /\ l + 1 \in 1 .. h /\ (l + 1) - 1 = l
      BY <1>1, <2>1
    <2>3. a \in Nat /\ Above(l + 1) = a \div 2
      BY <1>7
    <2>4. /\ NodeHash(u, l, 2 * j) = IF 2 * j = a THEN up[l] ELSE NodeHash(t, l, 2 * j)
          /\ NodeHash(u, l, 2 * j + 1)
               = IF 2 * j + 1 = a THEN up[l] ELSE NodeHash(t, l, 2 * j + 1)
          /\ NodeHash(u, l + 1, j)
               = IF j = a \div 2 THEN up[l + 1] ELSE NodeHash(t, l + 1, j)
      BY <1>4, <2>2, <2>3
    <2>5. up[l + 1] = Joined(a % 2 # 0, NodeHash(t, l, Flip(a)), up[l])
      BY <1>6, <2>2
    <2> HIDE DEF a
    <2>6. CASE j = a \div 2 /\ a % 2 = 0
      <3>1. a = 2 * j /\ Flip(a) = 2 * j + 1 /\ 2 * j + 1 # a
        BY <2>3, <2>6, Halves
      <3> QED BY <2>4, <2>5, <2>6, <3>1 DEF Joined
    <2>7. CASE j = a \div 2 /\ a % 2 # 0
      <3>1. a = 2 * j + 1 /\ Flip(a) = 2 * j /\ 2 * j # a
        BY <2>3, <2>7, Halves
      <3> QED BY <2>4, <2>5, <2>7, <3>1 DEF Joined
    <2>8. CASE j # a \div 2
      <3>1. 2 * j # a /\ 2 * j + 1 # a
        BY <2>3, <2>8
      <3>2. Over(n, l + 1, j)
        BY <1>1, <2>1, <2>3, <2>8, OverOneMore DEF Above
      <3>3. NodeHash(t, l + 1, j)
              = HashNode(NodeHash(t, l, 2 * j), NodeHash(t, l, 2 * j + 1))
        BY <2>1, <3>2 DEF Good, Hashed, NodesJoin
      <3> QED BY <2>4, <2>8, <3>1, <3>3
    <2> QED BY <2>6, <2>7, <2>8
  <1>9. \A j \in Nat : NodeHash(u, 0, j) = IF j = n THEN HashLeaf(k, v) ELSE NodeHash(t, 0, j)
    BY <1>1, <1>4, <1>5, <1>7
  <1>10. DOMAIN u.key_to_index = DOMAIN t.key_to_index \union {k}
    BY <1>3 DEF With
  <1>11. u.key_to_index[k] = n /\ u.leaf_data[k] = v
    BY <1>3 DEF With
  <1>12. \A x \in DOMAIN t.key_to_index :
           x # k => u.key_to_index[x] = t.key_to_index[x] /\ u.leaf_data[x] = t.leaf_data[x]
    <2>1. DOMAIN t.key_to_index = DOMAIN t.leaf_data
      BY <1>1 DEF WellFormed
    <2> QED BY <1>3, <2>1 DEF With
  <1>13. \A x \in DOMAIN t.key_to_index : t.key_to_index[x] \in 0 .. n - 1
    BY <1>1 DEF WellFormed
  <1>14. LeavesHeld(u)
    <2>1. SUFFICES ASSUME NEW i \in 0 .. (n + 1) - 1
                   PROVE  \E x \in DOMAIN u.key_to_index : \E w \in Values :
                            NodeHash(u, 0, i) = HashLeaf(x, w) /\ i <= u.key_to_index[x]
      BY <1>3 DEF LeavesHeld
    <2>2. CASE i = n
      <3>1. NodeHash(u, 0, i) = HashLeaf(k, v) /\ i <= u.key_to_index[k]
        BY <1>1, <1>9, <1>11, <2>2
      <3> QED BY <1>10, <3>1
    <2>3. CASE i # n
      <3>1. i \in 0 .. n - 1
        BY <1>1, <2>3
      <3>2. PICK x \in DOMAIN t.key_to_index : \E w \in Values :
              NodeHash(t, 0, i) = HashLeaf(x, w) /\ i <= t.key_to_index[x]
        BY <3>1 DEF Good, Hashed, LeavesHeld
      <3>3. PICK w \in Values : NodeHash(t, 0, i) = HashLeaf(x, w) /\ i <= t.key_to_index[x]
        BY <3>2
      <3>4. NodeHash(u, 0, i) = HashLeaf(x, w)
        BY <1>9, <2>3, <3>1, <3>3
      <3>5. i <= u.key_to_index[x]
        BY <1>1, <1>11, <1>12, <3>1, <3>3
      <3> QED BY <1>10, <3>4, <3>5
    <2> QED BY <2>2, <2>3
  <1>15. KeysHeld(u)
    <2>1. SUFFICES ASSUME NEW x \in DOMAIN u.key_to_index
                   PROVE  NodeHash(u, 0, u.key_to_index[x]) = HashLeaf(x, u.leaf_data[x])
      BY DEF KeysHeld
    <2>2. CASE x = k
      BY <1>1, <1>9, <1>11, <2>2
    <2>3. CASE x # k
      <3>1. x \in DOMAIN t.key_to_index
        BY <1>10, <2>3
      <3>2. t.key_to_index[x] \in Nat /\ t.key_to_index[x] # n
        BY <1>1, <1>13, <3>1
      <3>3. NodeHash(t, 0, t.key_to_index[x]) = HashLeaf(x, t.leaf_data[x])
        BY <3>1 DEF Good, Hashed, KeysHeld
      <3> QED BY <1>9, <1>12, <2>3, <3>1, <3>2, <3>3
    <2> QED BY <2>2, <2>3
  <1>16. RootHeld(u)
    <2>1. Newest(u) = Above(h)
      <3>1. (n + 1) - 1 = n
        BY <1>1
      <3> QED BY <1>3, <3>1 DEF Newest, Subtree, Above
    <2>2. NodeHash(u, h, Above(h)) = up[h]
      BY <1>1, <1>4, <1>7
    <2>3. n + 1 # 0
      BY <1>1
    <2> QED BY <1>3, <2>1, <2>2, <2>3 DEF RootHeld
  <1>17. Hashed(u)
    BY <1>8, <1>14, <1>15, <1>16 DEF Hashed
  <1> QED BY <1>17 DEF u

---------------------------------------------------------------------------
(* The invariant of the caller's trees.                                    *)

MerkleInv ==
  /\ DOMAIN trees = Trees
  /\ \A i \in Trees : Good(trees[i])
  /\ snap = None \/ Good(snap)

LEMMA NewTreeGood ==
  ASSUME NEW h \in Heights
  PROVE  Good(NewTree(h))
PROOF
  <1> DEFINE t == NewTree(h)
  <1>1. /\ DOMAIN t = Fields
        /\ t.height = h /\ t.leaf_count = 0 /\ t.root = Empty
        /\ t.nodes = <<>> /\ t.key_to_index = <<>> /\ t.leaf_data = <<>>
    BY DEF NewTree, Fields
  <1> HIDE DEF t
  <1>2. DOMAIN t.nodes = {} /\ DOMAIN t.key_to_index = {} /\ DOMAIN t.leaf_data = {}
    BY <1>1
  <1>3. 0 .. t.leaf_count - 1 = {}
    BY <1>1
  <1>4. {<<l, Ancestor(i, l)>> : l \in 0 .. t.height, i \in 0 .. t.leaf_count - 1} = {}
    BY <1>3
  <1>5. WellFormed(t)
    BY <1>1, <1>2, <1>4 DEF WellFormed
  <1>6. \A l \in Nat, j \in Nat : ~Over(0, l, j)
    BY WidthDoubles DEF Over
  <1>7. NodesJoin(t)
    BY <1>1, <1>6 DEF NodesJoin
  <1>8. LeavesHeld(t) /\ KeysHeld(t) /\ RootHeld(t)
    BY <1>1, <1>2, <1>3 DEF LeavesHeld, KeysHeld, RootHeld
  <1> QED BY <1>5, <1>7, <1>8 DEF Good, Hashed, t

LEMMA MerkleInit == Init => MerkleInv
PROOF
  <1> SUFFICES ASSUME Init PROVE MerkleInv
    OBVIOUS
  <1>1. PICK h \in [Trees -> Heights] : trees = [i \in Trees |-> NewTree(h[i])]
    BY DEF Init
  <1>2. ASSUME NEW i \in Trees PROVE Good(trees[i])
    <2>1. h[i] \in Heights /\ trees[i] = NewTree(h[i])
      BY <1>1
    <2> QED BY <2>1, NewTreeGood
  <1> QED BY <1>1, <1>2 DEF Init, MerkleInv

LEMMA MerkleNext == MerkleInv /\ [Next]_mvars => MerkleInv'
PROOF
  <1> SUFFICES ASSUME MerkleInv, [Next]_mvars PROVE MerkleInv'
    OBVIOUS
  <1>1. ASSUME NEW i \in Trees, NEW k \in Keys, NEW v \in Values, Insert(i, k, v)
        PROVE  MerkleInv'
    <2>1. trees' = [trees EXCEPT ![i] = Inserted(@, k, v)] /\ snap' = snap
      BY <1>1 DEF Insert
    <2>2. Good(trees[i])
      BY DEF MerkleInv
    <2>3. Good(Inserted(trees[i], k, v))
      BY <2>2, InsertWellFormed, InsertHashed DEF Good
    <2> QED BY <2>1, <2>3 DEF MerkleInv
  <1>2. ASSUME NEW i \in Trees, Snapshot(i) PROVE MerkleInv'
    BY <1>2 DEF Snapshot, MerkleInv
  <1>3. ASSUME NEW i \in Trees, Rollback(i) PROVE MerkleInv'
    <2>1. trees' = [trees EXCEPT ![i] = snap] /\ snap' = snap /\ snap # None
      BY <1>3 DEF Rollback, RolledBack
    <2> QED BY <2>1 DEF MerkleInv
  <1>4. CASE UNCHANGED mvars
    BY <1>4 DEF mvars, MerkleInv
  <1> QED BY <1>1, <1>2, <1>3, <1>4 DEF Next

LEMMA MerkleAlways == Spec => []MerkleInv
PROOF
  BY MerkleInit, MerkleNext, PTL DEF Spec

\* Every tree, and the snapshot, has a node for each ancestor of a leaf and no
\* other, and its two maps know the same keys, whose leaves exist
\* (merkle.rs:95-112).
THEOREM MerkleTypeCorrect == Spec => []TypeOK
PROOF
  <1>1. MerkleInv => TypeOK
    <2> SUFFICES ASSUME MerkleInv,
                        NEW t \in {trees[i] : i \in Trees} \union ({snap} \ {None})
                 PROVE  WellFormed(t)
      BY DEF TypeOK, WellFormed, MerkleInv
    <2> QED BY DEF MerkleInv, Good
  <1> QED BY <1>1, MerkleAlways, PTL

---------------------------------------------------------------------------
(* The root.                                                               *)

\* What a node is computed from, in the words of Reference.
NodeComputed(t, l, j) ==
  /\ NodeHash(t, l, j) =
       IF j * Width[l] >= t.leaf_count THEN Empty
       ELSE IF l = 0 THEN t.nodes[<<0, j>>]
       ELSE HashNode(NodeHash(t, l - 1, 2 * j), NodeHash(t, l - 1, 2 * j + 1))
  /\ ~(j * Width[l] >= t.leaf_count) /\ l # 0 =>
       2 * j \in 0 .. t.leaf_count /\ 2 * j + 1 \in 0 .. t.leaf_count

LEMMA NodeIs ==
  ASSUME NEW t, Good(t), NEW l \in 0 .. t.height, NEW j \in 0 .. t.leaf_count
  PROVE  NodeComputed(t, l, j)
PROOF
  <1> DEFINE n == t.leaf_count
  <1>1. n \in Nat /\ t.height \in Nat /\ l \in Nat /\ j \in Nat /\ WellFormed(t)
    BY TreeNumbers DEF Good
  <1>2. Width[l] \in Nat
    BY <1>1, WidthDoubles
  <1>3. j * Width[l] >= n <=> ~Over(n, l, j)
    BY <1>1, <1>2 DEF Over
  <1>4. CASE ~Over(n, l, j)
    <2>1. NodeHash(t, l, j) = Empty
      BY <1>1, <1>4, EmptyNodes
    <2> QED BY <1>3, <1>4, <2>1 DEF NodeComputed
  <1>5. CASE Over(n, l, j) /\ l = 0
    <2>1. <<0, j>> \in DOMAIN t.nodes
      BY <1>1, <1>5, NodesOver
    <2>2. NodeHash(t, l, j) = t.nodes[<<0, j>>]
      BY <1>5, <2>1 DEF NodeHash
    <2> QED BY <1>3, <1>5, <2>2 DEF NodeComputed
  <1>6. CASE Over(n, l, j) /\ l # 0
    <2>1. l - 1 \in Nat /\ l - 1 < t.height /\ (l - 1) + 1 = l
      BY <1>1, <1>6
    <2>2. NodeHash(t, l, j)
            = HashNode(NodeHash(t, l - 1, 2 * j), NodeHash(t, l - 1, 2 * j + 1))
      BY <1>1, <1>6, <2>1 DEF Good, Hashed, NodesJoin
    <2>3. Over(n, l - 1, 2 * j)
      <3>1. PICK m \in Nat : m = l - 1 /\ l = m + 1
        BY <2>1
      <3>2. Over(n, m + 1, j) => Over(n, m, 2 * j)
        BY <1>1, OverLeaves
      <3> QED BY <1>6, <3>1, <3>2
    <2>4. PICK i \in Nat : i = 2 * j
      BY <1>1
    <2>5. i < n
      <3>1. Over(n, l - 1, i)
        BY <2>3, <2>4
      <3> QED BY <1>1, <2>1, <3>1, OverIndex
    <2>6. 2 * j \in 0 .. n /\ 2 * j + 1 \in 0 .. n
      BY <1>1, <2>4, <2>5
    <2> QED BY <1>3, <1>6, <2>2, <2>6 DEF NodeComputed
  <1> QED BY <1>4, <1>5, <1>6

\* The reference tree is the tree.
LEMMA ReferenceIs ==
  ASSUME NEW t, Good(t)
  PROVE  \A l \in 0 .. t.height, j \in 0 .. t.leaf_count :
           Reference(t)[l][j] = NodeHash(t, l, j)
PROOF
  <1> DEFINE n == t.leaf_count
             h == t.height
             Row(f, l) ==
               [i \in 0 .. n |->
                 IF i * Width[l] >= n THEN Empty
                 ELSE IF l = 0 THEN t.nodes[<<0, i>>]
                 ELSE HashNode(f[l - 1][2 * i], f[l - 1][2 * i + 1])]
             Body(f) == [l \in 0 .. h |-> Row(f, l)]
             nodes == [l \in 0 .. h |-> [i \in 0 .. n |-> NodeHash(t, l, i)]]
  <1>1. n \in Nat /\ h \in Nat
    BY TreeNumbers DEF Good
  <1>2. nodes = Body(nodes)
    <2>1. ASSUME NEW l \in 0 .. h PROVE nodes[l] = Row(nodes, l)
      <3>1. ASSUME NEW i \in 0 .. n PROVE nodes[l][i] = Row(nodes, l)[i]
        <4>0. NodeComputed(t, l, i)
          BY NodeIs
        <4>1. CASE i * Width[l] >= n \/ l = 0
          BY <4>0, <4>1 DEF NodeComputed
        <4>2. CASE ~(i * Width[l] >= n) /\ l # 0
          <5>1. l - 1 \in 0 .. h /\ 2 * i \in 0 .. n /\ 2 * i + 1 \in 0 .. n
            BY <1>1, <4>0, <4>2 DEF NodeComputed
          <5>2. nodes[l - 1][2 * i] = NodeHash(t, l - 1, 2 * i)
                /\ nodes[l - 1][2 * i + 1] = NodeHash(t, l - 1, 2 * i + 1)
            BY <5>1
          <5>3. NodeHash(t, l, i)
                  = HashNode(NodeHash(t, l - 1, 2 * i), NodeHash(t, l - 1, 2 * i + 1))
            BY <4>0, <4>2 DEF NodeComputed
          <5>4. nodes[l][i] = NodeHash(t, l, i)
            OBVIOUS
          <5> HIDE DEF nodes
          <5> QED BY <4>2, <5>2, <5>3, <5>4
        <4> QED BY <4>1, <4>2
      <3> QED BY <3>1
    <2> HIDE DEF Row
    <2> QED BY <2>1
  <1> DEFINE ref == CHOOSE f : f = Body(f)
  <1>3. ref = Body(ref)
    <2> HIDE DEF Body, nodes
    <2> QED BY <1>2
  <1>4. Reference(t) = ref
    BY DEF Reference
  <1> HIDE DEF ref
  <1> DEFINE S == {l \in Nat : l <= h => \A j \in 0 .. n : ref[l][j] = NodeHash(t, l, j)}
  <1>5. \A l \in 0 .. h, j \in 0 .. n :
          ref[l][j] = IF j * Width[l] >= n THEN Empty
                      ELSE IF l = 0 THEN t.nodes[<<0, j>>]
                      ELSE HashNode(ref[l - 1][2 * j], ref[l - 1][2 * j + 1])
    <2>1. ASSUME NEW l \in 0 .. h PROVE ref[l] = Row(ref, l)
      <3> HIDE DEF Row
      <3> QED BY <1>3
    <2> QED BY <2>1
  <1>6. 0 \in S
    <2>1. ASSUME NEW j \in 0 .. n PROVE ref[0][j] = NodeHash(t, 0, j)
      <3>1. 0 \in 0 .. h
        BY <1>1
      <3>2. NodeComputed(t, 0, j)
        BY <3>1, NodeIs
      <3> QED BY <1>5, <3>1, <3>2 DEF NodeComputed
    <2> QED BY <2>1
  <1>7. ASSUME NEW l \in Nat, l \in S PROVE l + 1 \in S
    <2>1. SUFFICES ASSUME l + 1 <= h, NEW j \in 0 .. n
                   PROVE  ref[l + 1][j] = NodeHash(t, l + 1, j)
      OBVIOUS
    <2>2. l + 1 \in 0 .. h /\ l + 1 # 0 /\ (l + 1) - 1 = l /\ l <= h
      BY <1>1, <2>1
    <2>5. NodeComputed(t, l + 1, j)
      BY <2>2, NodeIs
    <2>3. CASE j * Width[l + 1] >= n
      BY <1>5, <2>2, <2>3, <2>5 DEF NodeComputed
    <2>4. CASE ~(j * Width[l + 1] >= n)
      <3>1. 2 * j \in 0 .. n /\ 2 * j + 1 \in 0 .. n
        BY <2>2, <2>4, <2>5 DEF NodeComputed
      <3>2. ref[l][2 * j] = NodeHash(t, l, 2 * j)
            /\ ref[l][2 * j + 1] = NodeHash(t, l, 2 * j + 1)
        BY <1>7, <2>2, <3>1
      <3>3. ref[l + 1][j] = HashNode(ref[l][2 * j], ref[l][2 * j + 1])
        BY <1>5, <2>2, <2>4
      <3>4. NodeHash(t, l + 1, j)
              = HashNode(NodeHash(t, l, 2 * j), NodeHash(t, l, 2 * j + 1))
        BY <2>2, <2>4, <2>5 DEF NodeComputed
      <3> QED BY <3>2, <3>3, <3>4
    <2> QED BY <2>3, <2>4
  <1>8. Nat \subseteq S
    <2> HIDE DEF S
    <2> QED BY <1>6, <1>7, AllNumbers
  <1> QED BY <1>4, <1>8

\* The top node over a leaf.
LEMMA TopNode ==
  ASSUME NEW t, WellFormed(t), NEW i \in 0 .. t.leaf_count - 1
  PROVE  Subtree(t, i) \in Nat /\ Over(t.leaf_count, t.height, Subtree(t, i))
PROOF
  <1>1. t.leaf_count \in Nat /\ t.height \in Nat /\ i \in Nat
    BY TreeNumbers
  <1>2. Subtree(t, i) \in Nat
    BY <1>1, Ancestors DEF Subtree
  <1>3. \E x \in 0 .. t.leaf_count - 1 : Ancestor(x, t.height) = Subtree(t, i)
    BY DEF Subtree
  <1> QED BY <1>1, <1>2, <1>3, OverLeaves

\* The root that insert keeps by updating one path is the root of the reference
\* tree, for every height and however many leaves (merkle.rs:114-199).
THEOREM RootsAreTheReference == Spec => []RootIsReference
PROOF
  <1>1. MerkleInv => RootIsReference
    <2> SUFFICES ASSUME MerkleInv, NEW i \in Trees
                 PROVE  trees[i].root =
                          IF trees[i].leaf_count = 0 THEN Empty
                          ELSE Reference(trees[i])[trees[i].height][Newest(trees[i])]
      BY DEF RootIsReference
    <2> DEFINE t == trees[i]
    <2>1. Good(t)
      BY DEF MerkleInv
    <2> HIDE DEF t
    <2>2. t.leaf_count \in Nat /\ t.height \in Nat /\ WellFormed(t)
      BY <2>1, TreeNumbers DEF Good
    <2>3. CASE t.leaf_count = 0
      BY <2>1, <2>3 DEF Good, Hashed, RootHeld, t
    <2>4. CASE t.leaf_count # 0
      <3>1. t.leaf_count - 1 \in 0 .. t.leaf_count - 1
        BY <2>2, <2>4
      <3>2. Newest(t) \in Nat /\ Over(t.leaf_count, t.height, Newest(t))
        BY <2>2, <3>1, TopNode DEF Newest
      <3>3. Newest(t) < t.leaf_count
        BY <2>2, <3>2, OverLeaves
      <3>4. Newest(t) \in 0 .. t.leaf_count /\ t.height \in 0 .. t.height
        BY <2>2, <3>2, <3>3
      <3>5. Reference(t)[t.height][Newest(t)] = NodeHash(t, t.height, Newest(t))
        BY <2>1, <3>4, ReferenceIs
      <3>6. t.root = NodeHash(t, t.height, Newest(t))
        BY <2>1, <2>4 DEF Good, Hashed, RootHeld
      <3> QED BY <2>4, <3>5, <3>6 DEF t
    <2> QED BY <2>3, <2>4
  <1> QED BY <1>1, MerkleAlways, PTL

---------------------------------------------------------------------------
(* Equal hashes.                                                           *)

\* One step down from two equal hashes.
LEMMA Below ==
  ASSUME NEW t, Good(t), NEW u, Good(u), NEW l \in Nat, NEW m \in Nat,
         l < t.height, m < u.height, NEW p \in Nat, NEW q \in Nat,
         Over(t.leaf_count, l + 1, p),
         NodeHash(t, l + 1, p) = NodeHash(u, m + 1, q)
  PROVE  /\ Over(u.leaf_count, m + 1, q)
         /\ NodeHash(t, l, 2 * p) = NodeHash(u, m, 2 * q)
         /\ NodeHash(t, l, 2 * p + 1) = NodeHash(u, m, 2 * q + 1)
PROOF
  <1>1. t.height \in Nat /\ u.height \in Nat
    BY TreeNumbers DEF Good
  <1>2. NodeHash(t, l + 1, p)
          = HashNode(NodeHash(t, l, 2 * p), NodeHash(t, l, 2 * p + 1))
    BY DEF Good, Hashed, NodesJoin
  <1>3. NodeHash(u, m + 1, q) # Empty
    BY <1>2, NodeHashes
  <1>4. Over(u.leaf_count, m + 1, q)
    <2>1. m + 1 \in 0 .. u.height
      BY <1>1
    <2> QED BY <1>3, <2>1, EmptyNodes
  <1>5. NodeHash(u, m + 1, q)
          = HashNode(NodeHash(u, m, 2 * q), NodeHash(u, m, 2 * q + 1))
    BY <1>4 DEF Good, Hashed, NodesJoin
  <1> QED BY <1>2, <1>4, <1>5, NodeHashes

\* Equal hashes of nodes of one level are hashes of the same leaves: one is over
\* a leaf that is equal to any leaf the other is over.
LEMMA SameLeaves ==
  ASSUME NEW t, Good(t), NEW u, Good(u)
  PROVE  \A l \in Nat : l <= t.height /\ l <= u.height =>
           \A i \in 0 .. t.leaf_count - 1, q \in Nat :
             NodeHash(t, l, Ancestor(i, l)) = NodeHash(u, l, q) =>
               \E j \in 0 .. u.leaf_count - 1 :
                 Ancestor(j, l) = q /\ NodeHash(t, 0, i) = NodeHash(u, 0, j)
PROOF
  <1> DEFINE n == t.leaf_count
             m == u.leaf_count
             Same(l) == \A i \in 0 .. n - 1, q \in Nat :
                          NodeHash(t, l, Ancestor(i, l)) = NodeHash(u, l, q) =>
                            \E j \in 0 .. m - 1 :
                              Ancestor(j, l) = q /\ NodeHash(t, 0, i) = NodeHash(u, 0, j)
             S == {l \in Nat : l <= t.height /\ l <= u.height => Same(l)}
  <1>1. /\ n \in Nat /\ t.height \in Nat /\ m \in Nat /\ u.height \in Nat
        /\ WellFormed(t) /\ WellFormed(u)
    BY TreeNumbers DEF Good
  <1>2. 0 \in S
    <2>1. SUFFICES ASSUME NEW i \in 0 .. n - 1, NEW q \in Nat,
                          NodeHash(t, 0, Ancestor(i, 0)) = NodeHash(u, 0, q)
                   PROVE  \E j \in 0 .. m - 1 :
                            Ancestor(j, 0) = q /\ NodeHash(t, 0, i) = NodeHash(u, 0, j)
      OBVIOUS
    <2>2. i \in Nat /\ i < n
      BY <1>1
    <2>3. Ancestor(i, 0) = i /\ Ancestor(q, 0) = q
      BY <2>2, Ancestors
    <2>4. Over(n, 0, i)
      BY <1>1, <2>2, OverLeaves
    <2>5. 0 \in 0 .. t.height /\ 0 \in 0 .. u.height
      BY <1>1
    <2>6. NodeHash(t, 0, i) # Empty
      BY <2>2, <2>4, <2>5, EmptyNodes
    <2>7. Over(m, 0, q)
      BY <2>1, <2>3, <2>5, <2>6, EmptyNodes
    <2>8. q \in 0 .. m - 1
      <3>1. q < m
        BY <1>1, <2>7, OverIndex
      <3> QED BY <1>1, <3>1
    <2> QED BY <2>1, <2>3, <2>8
  <1>3. ASSUME NEW l \in Nat, l \in S PROVE l + 1 \in S
    <2>1. SUFFICES ASSUME l + 1 <= t.height, l + 1 <= u.height,
                          NEW i \in 0 .. n - 1, NEW q \in Nat,
                          NodeHash(t, l + 1, Ancestor(i, l + 1)) = NodeHash(u, l + 1, q)
                   PROVE  \E j \in 0 .. m - 1 :
                            Ancestor(j, l + 1) = q /\ NodeHash(t, 0, i) = NodeHash(u, 0, j)
      OBVIOUS
    <2> DEFINE a == Ancestor(i, l)
    <2>2. Same(l)
      BY <1>1, <1>3, <2>1
    <2>3. i \in Nat /\ l < t.height /\ l < u.height
      BY <1>1, <2>1
    <2>4. a \in Nat /\ Ancestor(i, l + 1) = a \div 2
      BY <2>3, Ancestors
    <2>5. a \div 2 \in Nat
      BY <2>4, Halves
    <2>6. Over(n, l + 1, a \div 2)
      BY <1>1, <2>3, <2>4, OverAncestor
    <2>7. NodeHash(t, l, 2 * (a \div 2)) = NodeHash(u, l, 2 * q)
          /\ NodeHash(t, l, 2 * (a \div 2) + 1) = NodeHash(u, l, 2 * q + 1)
      BY <2>1, <2>3, <2>4, <2>5, <2>6, Below
    <2>8. a = 2 * (a \div 2) \/ a = 2 * (a \div 2) + 1
      BY <2>4, Halves
    <2> HIDE DEF a
    <2>9. PICK c \in {2 * q, 2 * q + 1} : NodeHash(t, l, a) = NodeHash(u, l, c)
      BY <2>7, <2>8
    <2>10. c \in Nat /\ c \div 2 = q
      BY <2>9
    <2>11. PICK j \in 0 .. m - 1 : Ancestor(j, l) = c /\ NodeHash(t, 0, i) = NodeHash(u, 0, j)
      BY <2>2, <2>9, <2>10 DEF a
    <2>12. Ancestor(j, l + 1) = q
      <3>1. j \in Nat
        BY <1>1
      <3> QED BY <2>10, <2>11, <3>1, Ancestors
    <2> QED BY <2>11, <2>12
  <1>4. Nat \subseteq S
    <2> HIDE DEF S
    <2> QED BY <1>2, <1>3, AllNumbers
  <1> QED BY <1>4

---------------------------------------------------------------------------
(* Proofs.                                                                 *)

\* The siblings of a path as verify_proof reads them.
LEMMA SiblingsAre ==
  ASSUME NEW t, WellFormed(t), NEW i \in Nat
  PROVE  /\ Len(Siblings(t, i)) = t.height
         /\ \A l \in 1 .. t.height :
              LET index == Ancestor(i, l - 1)
              IN  /\ Siblings(t, i)[l].side = "Left" <=> index % 2 # 0
                  /\ Siblings(t, i)[l].hash = NodeHash(t, l - 1, Flip(index))
PROOF
  <1>1. t.height \in Nat
    BY TreeNumbers
  <1>2. Len(Siblings(t, i)) = t.height
    BY <1>1 DEF Siblings
  <1>3. ASSUME NEW l \in 1 .. t.height
        PROVE  LET index == Ancestor(i, l - 1)
               IN  /\ Siblings(t, i)[l].side = "Left" <=> index % 2 # 0
                   /\ Siblings(t, i)[l].hash = NodeHash(t, l - 1, Flip(index))
    BY DEF Siblings
  <1> QED BY <1>2, <1>3

\* The hashes that verify_proof goes through, for any leaf put in the place of
\* leaf i.
Climb(f, t, i, leaf) ==
  /\ f[0] = leaf
  /\ \A l \in 1 .. t.height :
       f[l] = Joined(Ancestor(i, l - 1) % 2 # 0,
                     NodeHash(t, l - 1, Flip(Ancestor(i, l - 1))), f[l - 1])

LEMMA ProofClimbs ==
  ASSUME NEW t, WellFormed(t), NEW i \in Nat, NEW leaf
  PROVE  \E f : Climb(f, t, i, leaf) /\ Climbed(leaf, Siblings(t, i)) = f[t.height]
PROOF
  <1> DEFINE s == Siblings(t, i)
  <1>1. t.height \in Nat /\ Len(s) = t.height
    BY TreeNumbers, SiblingsAre
  <1>2. \A l \in 1 .. t.height :
          /\ s[l].side = "Left" <=> Ancestor(i, l - 1) % 2 # 0
          /\ s[l].hash = NodeHash(t, l - 1, Flip(Ancestor(i, l - 1)))
    BY SiblingsAre
  <1> HIDE DEF s
  <1>3. PICK f : Climbing(f, leaf, s) /\ Climbed(leaf, s) = f[Len(s)]
    BY <1>1, ClimbedIs
  <1>4. Climb(f, t, i, leaf)
    <2>1. ASSUME NEW l \in 1 .. t.height
          PROVE  f[l] = Joined(Ancestor(i, l - 1) % 2 # 0,
                               NodeHash(t, l - 1, Flip(Ancestor(i, l - 1))), f[l - 1])
      <3>1. f[l] = Joined(s[l].side = "Left", s[l].hash, f[l - 1])
        BY <1>1, <1>3 DEF Climbing
      <3> QED BY <1>2, <3>1 DEF Joined
    <2> QED BY <1>3, <2>1 DEF Climb, Climbing
  <1> QED BY <1>1, <1>3, <1>4 DEF s

\* From a leaf of the tree they are the nodes on its path.
LEMMA ClimbsNodes ==
  ASSUME NEW t, Good(t), NEW i \in 0 .. t.leaf_count - 1, NEW f,
         Climb(f, t, i, NodeHash(t, 0, i))
  PROVE  f[t.height] = NodeHash(t, t.height, Ancestor(i, t.height))
PROOF
  <1> DEFINE h == t.height
             n == t.leaf_count
             S == {l \in Nat : l <= h => f[l] = NodeHash(t, l, Ancestor(i, l))}
  <1>1. h \in Nat /\ n \in Nat /\ i \in Nat
    BY TreeNumbers DEF Good
  <1>2. 0 \in S
    BY <1>1, Ancestors DEF Climb
  <1>3. ASSUME NEW l \in Nat, l \in S PROVE l + 1 \in S
    <2>1. SUFFICES ASSUME l + 1 <= h
                   PROVE  f[l + 1] = NodeHash(t, l + 1, Ancestor(i, l + 1))
      OBVIOUS
    <2> DEFINE a == Ancestor(i, l)
    <2>2. l < h /\ l + 1 \in 1 .. h /\ (l + 1) - 1 = l /\ f[l] = NodeHash(t, l, a)
      BY <1>1, <1>3, <2>1
    <2>3. a \in Nat /\ Ancestor(i, l + 1) = a \div 2
      BY <1>1, Ancestors
    <2>4. f[l + 1] = Joined(a % 2 # 0, NodeHash(t, l, Flip(a)), NodeHash(t, l, a))
      BY <2>2 DEF Climb
    <2>5. Over(n, l + 1, Ancestor(i, l + 1))
      BY <1>1, OverAncestor
    <2> HIDE DEF a
    <2>6. PICK j \in Nat : j = a \div 2
      BY <2>3, Halves
    <2>7. NodeHash(t, l + 1, j) = HashNode(NodeHash(t, l, 2 * j), NodeHash(t, l, 2 * j + 1))
      BY <2>2, <2>3, <2>5, <2>6 DEF Good, Hashed, NodesJoin
    <2>8. CASE a % 2 = 0
      <3>1. a = 2 * j /\ Flip(a) = 2 * j + 1
        BY <2>3, <2>6, <2>8, Halves
      <3> QED BY <2>3, <2>4, <2>6, <2>7, <2>8, <3>1 DEF Joined
    <2>9. CASE a % 2 # 0
      <3>1. a = 2 * j + 1 /\ Flip(a) = 2 * j
        BY <2>3, <2>6, <2>9, Halves
      <3> QED BY <2>3, <2>4, <2>6, <2>7, <2>9, <3>1 DEF Joined
    <2> QED BY <2>8, <2>9
  <1>4. Nat \subseteq S
    <2> HIDE DEF S
    <2> QED BY <1>2, <1>3, AllNumbers
  <1> QED BY <1>1, <1>4

\* Two climbs along one path that end alike have begun alike.
LEMMA ClimbsApart ==
  ASSUME NEW t, WellFormed(t), NEW i, NEW a, NEW b, NEW f, NEW g,
         Climb(f, t, i, a), Climb(g, t, i, b), f[t.height] = g[t.height]
  PROVE  a = b
PROOF
  <1> DEFINE h == t.height
             S == {d \in Nat : d <= h => f[h - d] = g[h - d]}
  <1>1. h \in Nat
    BY TreeNumbers
  <1>2. 0 \in S
    BY <1>1
  <1>3. ASSUME NEW d \in Nat, d \in S PROVE d + 1 \in S
    <2>1. SUFFICES ASSUME d + 1 <= h PROVE f[h - (d + 1)] = g[h - (d + 1)]
      OBVIOUS
    <2>2. PICK l \in 1 .. h : l = h - d /\ l - 1 = h - (d + 1)
      BY <1>1, <2>1
    <2>3. f[l] = g[l]
      BY <1>1, <1>3, <2>1, <2>2
    <2>4. PICK left, sibling :
            f[l] = Joined(left, sibling, f[l - 1]) /\ g[l] = Joined(left, sibling, g[l - 1])
      BY DEF Climb
    <2>5. f[l - 1] = g[l - 1]
      BY <2>3, <2>4, JoinedApart
    <2> QED BY <2>2, <2>5
  <1>4. Nat \subseteq S
    <2> HIDE DEF S
    <2> QED BY <1>2, <1>3, AllNumbers
  <1>5. f[0] = g[0]
    <2>1. h \in S /\ h - h = 0
      BY <1>1, <1>4
    <2> QED BY <1>1, <2>1
  <1> QED BY <1>5 DEF Climb

\* The proof of a key goes through the nodes over the key's last leaf.
LEMMA ProofReaches ==
  ASSUME NEW t, Good(t), NEW k \in DOMAIN t.key_to_index
  PROVE  /\ t.leaf_count \in Nat \ {0} /\ t.height \in Nat
         /\ t.key_to_index[k] \in 0 .. t.leaf_count - 1
         /\ k \in Keys /\ t.leaf_data[k] \in Values
         /\ t.root = NodeHash(t, t.height, Newest(t))
         /\ Climbed(HashLeaf(k, t.leaf_data[k]), Siblings(t, t.key_to_index[k]))
              = NodeHash(t, t.height, Subtree(t, t.key_to_index[k]))
PROOF
  <1> DEFINE i == t.key_to_index[k]
             leaf == HashLeaf(k, t.leaf_data[k])
  <1>1. t.leaf_count \in Nat /\ t.height \in Nat /\ WellFormed(t)
    BY TreeNumbers DEF Good
  <1>2. i \in 0 .. t.leaf_count - 1 /\ k \in Keys /\ t.leaf_data[k] \in Values
    BY <1>1 DEF WellFormed
  <1>3. i \in Nat /\ t.leaf_count # 0
    BY <1>1, <1>2
  <1>4. t.root = NodeHash(t, t.height, Newest(t))
    BY <1>3 DEF Good, Hashed, RootHeld
  <1>5. NodeHash(t, 0, i) = leaf
    BY DEF Good, Hashed, KeysHeld
  <1> HIDE DEF i, leaf
  <1>6. PICK f : Climb(f, t, i, leaf) /\ Climbed(leaf, Siblings(t, i)) = f[t.height]
    BY <1>1, <1>3, ProofClimbs
  <1>7. f[t.height] = NodeHash(t, t.height, Ancestor(i, t.height))
    BY <1>2, <1>5, <1>6, ClimbsNodes
  <1> QED BY <1>1, <1>2, <1>3, <1>4, <1>6, <1>7 DEF Subtree, i, leaf

\* prove gives a proof that verifies for exactly the keys whose last leaf is
\* under the root (merkle.rs:214-251): an earlier subtree with the same hash
\* would have the same leaves, and the key a later one.
THEOREM ProofsAreVerified == Spec => []ProofsVerify
PROOF
  <1>1. ASSUME NEW t, Good(t), NEW k \in DOMAIN t.key_to_index
        PROVE  Verify(t, Prove(t, k)) <=> Subtree(t, t.key_to_index[k]) = Newest(t)
    <2> DEFINE i == t.key_to_index[k]
               h == t.height
               n == t.leaf_count
    <2>1. /\ n \in Nat \ {0} /\ h \in Nat /\ i \in 0 .. n - 1
          /\ k \in Keys /\ t.leaf_data[k] \in Values
          /\ t.root = NodeHash(t, h, Newest(t))
          /\ Climbed(HashLeaf(k, t.leaf_data[k]), Siblings(t, i)) = NodeHash(t, h, Subtree(t, i))
      BY <1>1, ProofReaches
    <2>2. Verify(t, Prove(t, k))
            <=> t.root = Climbed(HashLeaf(k, t.leaf_data[k]), Siblings(t, i))
      BY DEF Verify, VerifyProof, Prove
    <2> HIDE DEF i
    <2>3. CASE Subtree(t, i) = Newest(t)
      BY <2>1, <2>2, <2>3 DEF i
    <2>4. ASSUME NodeHash(t, h, Subtree(t, i)) = NodeHash(t, h, Newest(t))
          PROVE  Subtree(t, i) = Newest(t)
      <3>1. n - 1 \in Nat /\ i \in Nat /\ i <= n - 1
        BY <2>1
      <3>2. Newest(t) \in Nat /\ Subtree(t, i) \in Nat
        BY <2>1, <3>1, Ancestors DEF Newest, Subtree
      <3>3. PICK j \in 0 .. n - 1 :
              Ancestor(j, h) = Newest(t) /\ NodeHash(t, 0, i) = NodeHash(t, 0, j)
        BY <1>1, <2>1, <2>4, <3>2, SameLeaves DEF Subtree
      <3>4. PICK x \in DOMAIN t.key_to_index : \E w \in Values :
              NodeHash(t, 0, j) = HashLeaf(x, w) /\ j <= t.key_to_index[x]
        BY <1>1 DEF Good, Hashed, LeavesHeld
      <3>5. PICK w \in Values : NodeHash(t, 0, j) = HashLeaf(x, w)
        BY <3>4
      <3>6. NodeHash(t, 0, i) = HashLeaf(k, t.leaf_data[k])
        BY <1>1 DEF Good, Hashed, KeysHeld, i
      <3>7. x \in Keys
        BY <1>1 DEF Good, WellFormed
      <3>8. x = k
        BY <2>1, <3>3, <3>5, <3>6, <3>7, LeafBinds
      <3>9. j \in Nat /\ j <= i
        BY <2>1, <3>4, <3>8 DEF i
      <3>10. Ancestor(j, h) <= Ancestor(i, h)
        BY <2>1, <3>1, <3>9, AncestorsAscend
      <3>11. Ancestor(i, h) <= Ancestor(n - 1, h)
        BY <2>1, <3>1, AncestorsAscend
      <3> QED BY <3>2, <3>3, <3>10, <3>11 DEF Newest, Subtree
    <2> QED BY <2>1, <2>2, <2>3, <2>4 DEF i
  <1>2. MerkleInv => ProofsVerify
    <2> SUFFICES ASSUME MerkleInv, NEW i \in Trees, NEW k \in DOMAIN trees[i].key_to_index
                 PROVE  Verify(trees[i], Prove(trees[i], k))
                          <=> Subtree(trees[i], trees[i].key_to_index[k]) = Newest(trees[i])
      BY DEF ProofsVerify
    <2>1. Good(trees[i])
      BY DEF MerkleInv
    <2> QED BY <1>1, <2>1
  <1> QED BY <1>2, MerkleAlways, PTL

\* A tree within its capacity has one top node, and its hash is the root.
LEMMA RootIsTop ==
  ASSUME NEW t, Good(t), Fits(t)
  PROVE  /\ t.root = NodeHash(t, t.height, 0)
         /\ \A i \in 0 .. t.leaf_count - 1 : Ancestor(i, t.height) = 0
PROOF
  <1>1. t.leaf_count \in Nat /\ t.height \in Nat /\ Width[t.height] \in Nat
    BY TreeNumbers, WidthDoubles DEF Good
  <1>2. ASSUME NEW i \in 0 .. t.leaf_count - 1 PROVE Ancestor(i, t.height) = 0
    <2>1. i \in Nat /\ i < Width[t.height]
      BY <1>1 DEF Fits
    <2> QED BY <1>1, <2>1, OneSubtree
  <1>3. CASE t.leaf_count = 0
    <2>1. t.root = Empty
      BY <1>3 DEF Good, Hashed, RootHeld
    <2>2. ~Over(t.leaf_count, t.height, 0)
      BY <1>1, <1>3 DEF Over
    <2>3. t.height \in 0 .. t.height
      BY <1>1
    <2> QED BY <1>2, <2>1, <2>2, <2>3, EmptyNodes
  <1>4. CASE t.leaf_count # 0
    <2>1. t.root = NodeHash(t, t.height, Newest(t))
      BY <1>4 DEF Good, Hashed, RootHeld
    <2>2. t.leaf_count - 1 \in 0 .. t.leaf_count - 1
      BY <1>1, <1>4
    <2>3. Newest(t) = 0
      BY <1>2, <2>2 DEF Newest, Subtree
    <2> QED BY <1>2, <2>1, <2>3
  <1> QED BY <1>3, <1>4

\* Within its capacity, a tree's proof speaks for its own key and value alone
\* (merkle.rs:259-271), as far as the hash has no collisions.
THEOREM ProofsAreBinding == Spec => []ProofsBind
PROOF
  <1>1. ASSUME NEW t, Good(t), Fits(t), NEW p \in DOMAIN t.key_to_index,
               NEW k \in Keys, NEW v \in Values,
               VerifyProof(t.root, k, v, Prove(t, p))
        PROVE  k = p /\ v = t.leaf_data[p]
    <2> DEFINE i == t.key_to_index[p]
               own == HashLeaf(p, t.leaf_data[p])
               other == HashLeaf(k, v)
               s == Siblings(t, i)
    <2>1. /\ t.leaf_count \in Nat \ {0} /\ t.height \in Nat /\ i \in 0 .. t.leaf_count - 1
          /\ p \in Keys /\ t.leaf_data[p] \in Values
          /\ Climbed(own, s) = NodeHash(t, t.height, Subtree(t, i))
      BY <1>1, ProofReaches
    <2>2. t.root = Climbed(other, s)
      BY <1>1 DEF VerifyProof, Prove
    <2>3. WellFormed(t) /\ i \in Nat
      BY <1>1, <2>1 DEF Good
    <2>4. Subtree(t, i) = 0 /\ t.root = NodeHash(t, t.height, 0)
      BY <1>1, <2>1, RootIsTop DEF Subtree
    <2> HIDE DEF i, own, other
    <2>5. PICK f : Climb(f, t, i, own) /\ Climbed(own, s) = f[t.height]
      BY <2>3, ProofClimbs
    <2>6. PICK g : Climb(g, t, i, other) /\ Climbed(other, s) = g[t.height]
      BY <2>3, ProofClimbs
    <2>7. f[t.height] = g[t.height]
      BY <2>1, <2>2, <2>4, <2>5, <2>6
    <2>8. own = other
      BY <2>3, <2>5, <2>6, <2>7, ClimbsApart
    <2> QED BY <2>1, <2>8, LeafBinds DEF own, other
  <1>2. MerkleInv => ProofsBind
    <2> SUFFICES ASSUME MerkleInv, NEW i \in Trees, NEW p \in DOMAIN trees[i].key_to_index,
                        NEW k \in Keys, NEW v \in Values, Fits(trees[i]),
                        VerifyProof(trees[i].root, k, v, Prove(trees[i], p))
                 PROVE  k = Prove(trees[i], p).key /\ v = Prove(trees[i], p).value
      BY DEF ProofsBind
    <2>1. Good(trees[i])
      BY DEF MerkleInv
    <2>2. k = p /\ v = trees[i].leaf_data[p]
      BY <1>1, <2>1
    <2> QED BY <2>2 DEF Prove
  <1> QED BY <1>2, MerkleAlways, PTL

\* The proof that insert returns climbs along the hashes that it has stored.
LEMMA InsertClimbs ==
  ASSUME NEW t, WellFormed(t), NEW k, NEW v
  PROVE  Climb(NewHashes(t, k, v), t, t.leaf_count, HashLeaf(k, v))
PROOF
  <1>1. t.leaf_count \in Nat /\ t.height \in Nat
    BY TreeNumbers
  <1> QED BY <1>1, PathClimbs DEF Climb, NewHashes

\* There is one such climb.
LEMMA OneClimb ==
  ASSUME NEW t, WellFormed(t), NEW i, NEW leaf, NEW f, NEW g,
         Climb(f, t, i, leaf), Climb(g, t, i, leaf)
  PROVE  f[t.height] = g[t.height]
PROOF
  <1> DEFINE h == t.height
             S == {l \in Nat : l <= h => f[l] = g[l]}
  <1>1. h \in Nat
    BY TreeNumbers
  <1>2. 0 \in S
    BY DEF Climb
  <1>3. ASSUME NEW l \in Nat, l \in S PROVE l + 1 \in S
    <2>1. SUFFICES ASSUME l + 1 <= h PROVE f[l + 1] = g[l + 1]
      OBVIOUS
    <2>2. PICK m \in 1 .. h : m = l + 1 /\ m - 1 = l
      BY <1>1, <2>1
    <2>3. f[l] = g[l]
      BY <1>1, <1>3, <2>1
    <2>4. f[m] = g[m]
      BY <2>2, <2>3 DEF Climb
    <2> QED BY <2>2, <2>4
  <1>4. Nat \subseteq S
    <2> HIDE DEF S
    <2> QED BY <1>2, <1>3, AllNumbers
  <1> QED BY <1>1, <1>4

\* Before the insert, no node on the new path has the hash that it gets.
LEMMA PathIsNew ==
  ASSUME NEW t, Good(t), NEW leaf, leaf # Empty, NEW f, Climb(f, t, t.leaf_count, leaf)
  PROVE  NodeHash(t, t.height, Ancestor(t.leaf_count, t.height)) # f[t.height]
PROOF
  <1> DEFINE n == t.leaf_count
             h == t.height
             S == {l \in Nat : l <= h => NodeHash(t, l, Ancestor(n, l)) # f[l]}
  <1>1. n \in Nat /\ h \in Nat
    BY TreeNumbers DEF Good
  <1>2. 0 \in S
    <2>1. Ancestor(n, 0) = n /\ ~Over(n, 0, n)
      <3>1. Ancestor(n, 0) = n
        BY <1>1, Ancestors
      <3>2. Over(n, 0, n) => n < n
        BY <1>1, OverIndex
      <3> QED BY <1>1, <3>1, <3>2
    <2>2. 0 \in 0 .. h
      BY <1>1
    <2>3. NodeHash(t, 0, Ancestor(n, 0)) = Empty
      BY <1>1, <2>1, <2>2, EmptyNodes
    <2> QED BY <2>3 DEF Climb
  <1>3. ASSUME NEW l \in Nat, l \in S PROVE l + 1 \in S
    <2>1. SUFFICES ASSUME l + 1 <= h, NodeHash(t, l + 1, Ancestor(n, l + 1)) = f[l + 1]
                   PROVE  FALSE
      OBVIOUS
    <2> DEFINE a == Ancestor(n, l)
    <2>2. l < h /\ l + 1 \in 1 .. h /\ l + 1 \in 0 .. h /\ (l + 1) - 1 = l
      BY <1>1, <2>1
    <2>3. NodeHash(t, l, a) # f[l]
      BY <1>1, <1>3, <2>1
    <2>4. a \in Nat /\ Ancestor(n, l + 1) = a \div 2
      BY <1>1, Ancestors
    <2>5. f[l + 1] = Joined(a % 2 # 0, NodeHash(t, l, Flip(a)), f[l])
      BY <2>2 DEF Climb
    <2> HIDE DEF a
    <2>6. PICK j \in Nat : j = a \div 2
      BY <2>4, Halves
    <2>7. NodeHash(t, l + 1, j) = f[l + 1]
      BY <2>1, <2>4, <2>6
    <2>8. f[l + 1] # Empty
      BY <2>5, NodeHashes DEF Joined
    <2>9. Over(n, l + 1, j)
      BY <2>2, <2>7, <2>8, EmptyNodes
    <2>10. NodeHash(t, l + 1, j) = HashNode(NodeHash(t, l, 2 * j), NodeHash(t, l, 2 * j + 1))
      BY <2>2, <2>9 DEF Good, Hashed, NodesJoin
    <2>11. CASE a % 2 = 0
      <3>1. a = 2 * j
        BY <2>4, <2>6, <2>11, Halves
      <3>2. f[l + 1] = HashNode(f[l], NodeHash(t, l, Flip(a)))
        BY <2>5, <2>11 DEF Joined
      <3>3. f[l] = NodeHash(t, l, 2 * j)
        BY <2>7, <2>10, <3>2, NodeHashes
      <3> QED BY <2>3, <3>1, <3>3
    <2>12. CASE a % 2 # 0
      <3>1. a = 2 * j + 1
        BY <2>4, <2>6, <2>12, Halves
      <3>2. f[l + 1] = HashNode(NodeHash(t, l, Flip(a)), f[l])
        BY <2>5, <2>12 DEF Joined
      <3>3. f[l] = NodeHash(t, l, 2 * j + 1)
        BY <2>7, <2>10, <3>2, NodeHashes
      <3> QED BY <2>3, <3>1, <3>3
    <2> QED BY <2>11, <2>12
  <1>4. Nat \subseteq S
    <2> HIDE DEF S
    <2> QED BY <1>2, <1>3, AllNumbers
  <1> QED BY <1>1, <1>4

\* insert's proof verifies against the root after the insert, and, as long as
\* the tree is not full, not against the root before it (merkle.rs:129-211).
THEOREM InsertsAreProved == Spec => InsertProves
PROOF
  <1>1. ASSUME NEW t, Good(t), NEW k \in Keys, NEW v \in Values
        PROVE  /\ VerifyProof(Inserted(t, k, v).root, k, v, InsertProof(t, k, v))
               /\ t.leaf_count < Width[t.height]
                    => ~VerifyProof(t.root, k, v, InsertProof(t, k, v))
    <2> DEFINE n == t.leaf_count
               h == t.height
               leaf == HashLeaf(k, v)
    <2>1. n \in Nat /\ h \in Nat /\ Width[h] \in Nat /\ WellFormed(t)
      BY <1>1, TreeNumbers, WidthDoubles DEF Good
    <2>2. PICK f : Climb(f, t, n, leaf) /\ Climbed(leaf, Siblings(t, n)) = f[h]
      BY <2>1, ProofClimbs
    <2>3. \A root : VerifyProof(root, k, v, InsertProof(t, k, v)) <=> root = f[h]
      BY <2>2 DEF VerifyProof, InsertProof
    <2>4. f[h] = NewHashes(t, k, v)[h]
      BY <2>1, <2>2, InsertClimbs, OneClimb
    <2>5. Inserted(t, k, v).root = NewHashes(t, k, v)[h]
      <3>1. PICK u : u = Inserted(t, k, v) /\ AfterInsert(t, k, v, u)
        BY <2>1, InsertedFields
      <3>2. u.root = NewHashes(t, k, v)[h]
        BY <3>1 DEF AfterInsert
      <3> QED BY <3>1, <3>2
    <2>6. VerifyProof(Inserted(t, k, v).root, k, v, InsertProof(t, k, v))
      BY <2>3, <2>4, <2>5
    <2>7. ASSUME n < Width[h] PROVE t.root # f[h]
      <3>1. Fits(t)
        BY <2>1, <2>7 DEF Fits
      <3>2. Ancestor(n, h) = 0
        BY <2>1, <2>7, OneSubtree
      <3>3. t.root = NodeHash(t, h, 0)
        BY <1>1, <3>1, RootIsTop
      <3>4. NodeHash(t, h, Ancestor(n, h)) # f[h]
        BY <1>1, <2>2, LeafIsHeld, PathIsNew
      <3> QED BY <3>2, <3>3, <3>4
    <2> QED BY <2>3, <2>6, <2>7
  <1>2. MerkleInv =>
          [ \A i \in Trees, k \in Keys, v \in Values :
              Insert(i, k, v) =>
                LET proof == InsertProof(trees[i], k, v)
                IN  /\ VerifyProof(trees'[i].root, k, v, proof)
                    /\ trees[i].leaf_count < Width[trees[i].height]
                         => ~VerifyProof(trees[i].root, k, v, proof) ]_mvars
    <2> SUFFICES ASSUME MerkleInv, NEW i \in Trees, NEW k \in Keys, NEW v \in Values,
                        Insert(i, k, v)
                 PROVE  /\ VerifyProof(trees'[i].root, k, v, InsertProof(trees[i], k, v))
                        /\ trees[i].leaf_count < Width[trees[i].height]
                             => ~VerifyProof(trees[i].root, k, v, InsertProof(trees[i], k, v))
      OBVIOUS
    <2>1. Good(trees[i])
      BY DEF MerkleInv
    <2>2. trees'[i] = Inserted(trees[i], k, v)
      BY DEF MerkleInv, Insert
    <2> QED BY <1>1, <2>1, <2>2
  <1> QED BY <1>2, MerkleAlways, PTL DEF InsertProves

---------------------------------------------------------------------------
(* diff.                                                                   *)

\* Equal hashes are of nodes of one level.
LEMMA SameLevel ==
  ASSUME NEW t, Good(t), NEW u, Good(u)
  PROVE  \A l \in Nat : l <= t.height =>
           \A m \in 0 .. u.height, p \in Nat, q \in Nat :
             Over(t.leaf_count, l, p) /\ NodeHash(t, l, p) = NodeHash(u, m, q) => l = m
PROOF
  <1> DEFINE n == t.leaf_count
             Same(l) == \A m \in 0 .. u.height, p \in Nat, q \in Nat :
                          Over(n, l, p) /\ NodeHash(t, l, p) = NodeHash(u, m, q) => l = m
             S == {l \in Nat : l <= t.height => Same(l)}
  <1>1. /\ n \in Nat /\ t.height \in Nat /\ u.leaf_count \in Nat /\ u.height \in Nat
    BY TreeNumbers DEF Good
  <1>2. ASSUME NEW x, Good(x), NEW i \in Nat, Over(x.leaf_count, 0, i)
        PROVE  \E k, v : NodeHash(x, 0, i) = HashLeaf(k, v)
    <2>1. x.leaf_count \in Nat
      BY <1>2, TreeNumbers DEF Good
    <2>2. i < x.leaf_count
      BY <1>2, <2>1, OverIndex
    <2>3. i \in 0 .. x.leaf_count - 1
      BY <2>1, <2>2
    <2> QED BY <1>2, <2>3 DEF Good, Hashed, LeavesHeld
  <1>3. ASSUME NEW x, Good(x), NEW l \in Nat, NEW i \in Nat, l < x.height,
               Over(x.leaf_count, l + 1, i)
        PROVE  \E a, b : NodeHash(x, l + 1, i) = HashNode(a, b)
    BY <1>3 DEF Good, Hashed, NodesJoin
  <1>4. 0 \in S
    <2>1. SUFFICES ASSUME NEW m \in 0 .. u.height, NEW p \in Nat, NEW q \in Nat,
                          Over(n, 0, p), NodeHash(t, 0, p) = NodeHash(u, m, q), m # 0
                   PROVE  FALSE
      OBVIOUS
    <2>2. PICK k, v : NodeHash(t, 0, p) = HashLeaf(k, v)
      BY <1>2, <2>1
    <2>3. Over(u.leaf_count, m, q)
      BY <2>1, <2>2, LeafIsHeld, EmptyNodes
    <2>4. PICK l \in Nat : l < u.height /\ m = l + 1
      <3>1. m - 1 \in Nat /\ m - 1 < u.height /\ m = (m - 1) + 1
        BY <1>1, <2>1
      <3> QED BY <3>1
    <2>5. PICK a, b : NodeHash(u, m, q) = HashNode(a, b)
      BY <1>3, <2>3, <2>4
    <2> QED BY <2>1, <2>2, <2>5, NodeHashes
  <1>5. ASSUME NEW l \in Nat, l \in S PROVE l + 1 \in S
    <2>1. SUFFICES ASSUME l + 1 <= t.height,
                          NEW m \in 0 .. u.height, NEW p \in Nat, NEW q \in Nat,
                          Over(n, l + 1, p), NodeHash(t, l + 1, p) = NodeHash(u, m, q)
                   PROVE  l + 1 = m
      OBVIOUS
    <2>2. l < t.height /\ Same(l)
      BY <1>1, <1>5, <2>1
    <2>3. PICK a, b : NodeHash(t, l + 1, p) = HashNode(a, b)
      BY <1>3, <2>1, <2>2
    <2>4. Over(u.leaf_count, m, q)
      BY <2>1, <2>3, NodeHashes, EmptyNodes
    <2>5. CASE m = 0
      <3>1. PICK k, v : NodeHash(u, m, q) = HashLeaf(k, v)
        BY <1>2, <2>4, <2>5
      <3> QED BY <2>1, <2>3, <3>1, NodeHashes
    <2>6. CASE m # 0
      <3>1. PICK d \in Nat : d < u.height /\ m = d + 1
        <4>1. m - 1 \in Nat /\ m - 1 < u.height /\ m = (m - 1) + 1
          BY <1>1, <2>6
        <4> QED BY <4>1
      <3>2. NodeHash(t, l, 2 * p) = NodeHash(u, d, 2 * q)
        BY <2>1, <2>2, <3>1, Below
      <3>3. Over(n, l, 2 * p)
        BY <1>1, <2>1, OverLeaves
      <3>4. d \in 0 .. u.height /\ 2 * p \in Nat /\ 2 * q \in Nat
        BY <1>1, <3>1
      <3>5. l = d
        BY <2>2, <3>2, <3>3, <3>4
      <3> QED BY <3>1, <3>5
    <2> QED BY <2>5, <2>6
  <1>6. Nat \subseteq S
    <2> HIDE DEF S
    <2> QED BY <1>4, <1>5, AllNumbers
  <1> QED BY <1>6

\* Where two trees have the same hash in the same place, they have the same
\* leaves under it.
LEMMA LeavesDetermined ==
  ASSUME NEW t, Good(t), NEW u, Good(u)
  PROVE  \A l \in Nat : l <= t.height /\ l <= u.height =>
           \A p \in Nat : NodeHash(t, l, p) = NodeHash(u, l, p) =>
             \A j \in Nat : Ancestor(j, l) = p => NodeHash(t, 0, j) = NodeHash(u, 0, j)
PROOF
  <1> DEFINE Same(l) == \A p \in Nat : NodeHash(t, l, p) = NodeHash(u, l, p) =>
                          \A j \in Nat : Ancestor(j, l) = p =>
                            NodeHash(t, 0, j) = NodeHash(u, 0, j)
             S == {l \in Nat : l <= t.height /\ l <= u.height => Same(l)}
  <1>1. /\ t.leaf_count \in Nat /\ t.height \in Nat
        /\ u.leaf_count \in Nat /\ u.height \in Nat
    BY TreeNumbers DEF Good
  <1>2. 0 \in S
    BY Ancestors
  <1>3. ASSUME NEW l \in Nat, l \in S PROVE l + 1 \in S
    <2>1. SUFFICES ASSUME l + 1 <= t.height, l + 1 <= u.height, NEW p \in Nat,
                          NodeHash(t, l + 1, p) = NodeHash(u, l + 1, p),
                          NEW j \in Nat, Ancestor(j, l + 1) = p
                   PROVE  NodeHash(t, 0, j) = NodeHash(u, 0, j)
      OBVIOUS
    <2>2. l < t.height /\ l < u.height /\ l + 1 \in 0 .. t.height /\ l + 1 \in 0 .. u.height
      BY <1>1, <2>1
    <2>3. Same(l)
      BY <1>1, <1>3, <2>2
    <2>4. PICK a \in Nat : a = Ancestor(j, l)
      BY Ancestors
    <2>5. p = a \div 2
      BY <2>1, <2>4, Ancestors
    <2>6. a = 2 * p \/ a = 2 * p + 1
      BY <2>4, <2>5, Halves
    <2>7. CASE Over(t.leaf_count, l + 1, p)
      <3>1. /\ NodeHash(t, l, 2 * p) = NodeHash(u, l, 2 * p)
            /\ NodeHash(t, l, 2 * p + 1) = NodeHash(u, l, 2 * p + 1)
        BY <2>1, <2>2, <2>7, Below
      <3>2. NodeHash(t, l, a) = NodeHash(u, l, a)
        BY <2>6, <3>1
      <3> QED BY <2>3, <2>4, <3>2
    <2>8. CASE ~Over(t.leaf_count, l + 1, p)
      <3>1. NodeHash(t, l + 1, p) = Empty
        BY <2>2, <2>8, EmptyNodes
      <3>2. ~Over(u.leaf_count, l + 1, p)
        BY <2>1, <2>2, <3>1, EmptyNodes
      <3>3. j \notin 0 .. t.leaf_count - 1 /\ j \notin 0 .. u.leaf_count - 1
        BY <1>1, <2>1, <2>8, <3>2, OverAncestor
      <3>4. 0 \in 0 .. t.height /\ 0 \in 0 .. u.height
        BY <1>1
      <3>5. ~Over(t.leaf_count, 0, j) /\ ~Over(u.leaf_count, 0, j)
        <4>1. ~(j < t.leaf_count) /\ ~(j < u.leaf_count)
          BY <1>1, <3>3
        <4> QED BY <1>1, <4>1, OverIndex
      <3> QED BY <3>4, <3>5, EmptyNodes
    <2> QED BY <2>7, <2>8
  <1>4. Nat \subseteq S
    <2> HIDE DEF S
    <2> QED BY <1>2, <1>3, AllNumbers
  <1> QED BY <1>4

\* The leaves and the height determine every node.
LEMMA NodesDetermined ==
  ASSUME NEW t, Good(t), NEW u, Good(u), t.height = u.height, t.leaf_count = u.leaf_count,
         \A j \in Nat : NodeHash(t, 0, j) = NodeHash(u, 0, j)
  PROVE  \A l \in Nat : l <= t.height =>
           \A p \in Nat : NodeHash(t, l, p) = NodeHash(u, l, p)
PROOF
  <1> DEFINE S == {l \in Nat : l <= t.height =>
                     \A p \in Nat : NodeHash(t, l, p) = NodeHash(u, l, p)}
  <1>1. /\ t.leaf_count \in Nat /\ t.height \in Nat
    BY TreeNumbers DEF Good
  <1>2. 0 \in S
    OBVIOUS
  <1>3. ASSUME NEW l \in Nat, l \in S PROVE l + 1 \in S
    <2>1. SUFFICES ASSUME l + 1 <= t.height, NEW p \in Nat
                   PROVE  NodeHash(t, l + 1, p) = NodeHash(u, l + 1, p)
      OBVIOUS
    <2>2. l < t.height /\ l < u.height /\ l + 1 \in 0 .. t.height /\ l + 1 \in 0 .. u.height
      BY <1>1, <2>1
    <2>3. \A q \in Nat : NodeHash(t, l, q) = NodeHash(u, l, q)
      BY <1>1, <1>3, <2>2
    <2>4. CASE Over(t.leaf_count, l + 1, p)
      <3>1. NodeHash(t, l + 1, p)
              = HashNode(NodeHash(t, l, 2 * p), NodeHash(t, l, 2 * p + 1))
        BY <2>2, <2>4 DEF Good, Hashed, NodesJoin
      <3>2. NodeHash(u, l + 1, p)
              = HashNode(NodeHash(u, l, 2 * p), NodeHash(u, l, 2 * p + 1))
        BY <2>2, <2>4 DEF Good, Hashed, NodesJoin
      <3>3. 2 * p \in Nat /\ 2 * p + 1 \in Nat
        OBVIOUS
      <3> QED BY <2>3, <3>1, <3>2, <3>3
    <2>5. CASE ~Over(t.leaf_count, l + 1, p)
      BY <2>2, <2>5, EmptyNodes
    <2> QED BY <2>4, <2>5
  <1>4. Nat \subseteq S
    <2> HIDE DEF S
    <2> QED BY <1>2, <1>3, AllNumbers
  <1> QED BY <1>4

\* The leaves are the hashes of level 0, and their number is where these end.
LEMMA LeavesAre ==
  ASSUME NEW t, Good(t), NEW u, Good(u)
  PROVE  /\ Leaves(t) = Leaves(u) => t.leaf_count = u.leaf_count
         /\ Leaves(t) = Leaves(u) <=>
              \A j \in Nat : NodeHash(t, 0, j) = NodeHash(u, 0, j)
PROOF
  <1>1. /\ t.leaf_count \in Nat /\ u.leaf_count \in Nat
        /\ 0 \in 0 .. t.height /\ 0 \in 0 .. u.height
    BY TreeNumbers DEF Good
  <1>2. ASSUME NEW x, Good(x), x.leaf_count \in Nat, 0 \in 0 .. x.height
        PROVE  /\ \A j \in Nat : NodeHash(x, 0, j) = Empty <=> ~(j < x.leaf_count)
               /\ \A j \in Nat : j < x.leaf_count => NodeHash(x, 0, j) = x.nodes[<<0, j>>]
    <2>1. \A j \in Nat : Over(x.leaf_count, 0, j) <=> j < x.leaf_count
      BY <1>2, OverLeaves
    <2>2. \A j \in Nat : <<0, j>> \in DOMAIN x.nodes <=> j < x.leaf_count
      BY <1>2, <2>1, NodesOver DEF Good
    <2> QED BY <1>2, <2>1, <2>2, EmptyNodes DEF NodeHash
  <1>3. ASSUME Leaves(t) = Leaves(u) PROVE t.leaf_count = u.leaf_count
    <2>1. DOMAIN Leaves(t) = 1 .. t.leaf_count /\ DOMAIN Leaves(u) = 1 .. u.leaf_count
      BY DEF Leaves
    <2> QED BY <1>1, <1>3, <2>1
  <1>4. ASSUME Leaves(t) = Leaves(u), NEW j \in Nat
        PROVE  NodeHash(t, 0, j) = NodeHash(u, 0, j)
    <2>1. CASE j < t.leaf_count
      <3>1. j + 1 \in 1 .. t.leaf_count /\ (j + 1) - 1 = j
        BY <1>1, <2>1
      <3>2. Leaves(t)[j + 1] = t.nodes[<<0, j>>] /\ Leaves(u)[j + 1] = u.nodes[<<0, j>>]
        BY <1>3, <1>4, <3>1 DEF Leaves
      <3> QED BY <1>1, <1>2, <1>3, <1>4, <2>1, <3>2
    <2>2. CASE ~(j < t.leaf_count)
      BY <1>1, <1>2, <1>3, <1>4, <2>2
    <2> QED BY <2>1, <2>2
  <1>5. ASSUME \A j \in Nat : NodeHash(t, 0, j) = NodeHash(u, 0, j)
        PROVE  Leaves(t) = Leaves(u)
    <2>1. t.leaf_count = u.leaf_count
      <3>1. \A j \in Nat : j < t.leaf_count <=> j < u.leaf_count
        BY <1>1, <1>2, <1>5
      <3> QED BY <1>1, <3>1
    <2>2. ASSUME NEW i \in 1 .. t.leaf_count PROVE t.nodes[<<0, i - 1>>] = u.nodes[<<0, i - 1>>]
      <3>1. i - 1 \in Nat /\ i - 1 < t.leaf_count
        BY <1>1
      <3> QED BY <1>1, <1>2, <1>5, <2>1, <3>1
    <2> QED BY <2>1, <2>2 DEF Leaves
  <1> QED BY <1>3, <1>4, <1>5

\* Equal roots are of equal leaves, and of equal heights where there are leaves.
LEMMA RootsTellLeaves ==
  ASSUME NEW t, Good(t), Fits(t), NEW u, Good(u), Fits(u)
  PROVE  t.root = u.root <=>
           Leaves(t) = Leaves(u) /\ (t.height = u.height \/ t.leaf_count = 0)
PROOF
  <1>1. /\ t.leaf_count \in Nat /\ t.height \in Nat /\ WellFormed(t)
        /\ u.leaf_count \in Nat /\ u.height \in Nat /\ WellFormed(u)
    BY TreeNumbers DEF Good
  <1>2. t.root = NodeHash(t, t.height, 0) /\ u.root = NodeHash(u, u.height, 0)
    BY RootIsTop
  <1>3. t.height \in 0 .. t.height /\ u.height \in 0 .. u.height
    BY <1>1
  <1>4. ASSUME NEW x, Good(x), x.leaf_count \in Nat, x.height \in Nat
        PROVE  NodeHash(x, x.height, 0) = Empty <=> x.leaf_count = 0
    <2>1. Over(x.leaf_count, x.height, 0) <=> x.leaf_count # 0
      <3>1. 0 * Width[x.height] = 0
        BY <1>4, WidthDoubles
      <3> QED BY <1>4, <3>1 DEF Over
    <2>2. x.height \in 0 .. x.height
      BY <1>4
    <2> QED BY <1>4, <2>1, <2>2, EmptyNodes
  <1>5. ASSUME t.root = u.root, t.leaf_count = 0
        PROVE  Leaves(t) = Leaves(u)
    <2>1. u.leaf_count = 0
      BY <1>1, <1>2, <1>4, <1>5
    <2> QED BY <1>5, <2>1 DEF Leaves
  <1>6. ASSUME t.root = u.root, t.leaf_count # 0
        PROVE  t.height = u.height /\ Leaves(t) = Leaves(u)
    <2>1. Over(t.leaf_count, t.height, 0)
      <3>1. NodeHash(t, t.height, 0) # Empty
        BY <1>1, <1>4, <1>6
      <3> QED BY <1>3, <3>1, EmptyNodes
    <2>2. t.height = u.height
      <3>1. NodeHash(t, t.height, 0) = NodeHash(u, u.height, 0)
        BY <1>2, <1>6
      <3>2. t.height <= t.height
        BY <1>1
      <3> QED BY <1>1, <1>3, <2>1, <3>1, <3>2, SameLevel
    <2>3. ASSUME NEW j \in Nat PROVE NodeHash(t, 0, j) = NodeHash(u, 0, j)
      <3>1. CASE j < Width[t.height]
        <4>1. Ancestor(j, t.height) = 0
          BY <1>1, <3>1, OneSubtree
        <4>2. NodeHash(t, t.height, 0) = NodeHash(u, t.height, 0)
          BY <1>2, <1>6, <2>2
        <4>3. t.height <= t.height /\ t.height <= u.height
          BY <1>1, <2>2
        <4> QED BY <1>1, <4>1, <4>2, <4>3, LeavesDetermined
      <3>2. CASE ~(j < Width[t.height])
        <4>1. Width[t.height] \in Nat
          BY <1>1, WidthDoubles
        <4>2. ~(j < t.leaf_count) /\ ~(j < u.leaf_count)
          BY <1>1, <2>2, <3>2, <4>1 DEF Fits
        <4>3. ~Over(t.leaf_count, 0, j) /\ ~Over(u.leaf_count, 0, j)
          BY <1>1, <4>2, OverIndex
        <4>4. 0 \in 0 .. t.height /\ 0 \in 0 .. u.height
          BY <1>1
        <4> QED BY <4>3, <4>4, EmptyNodes
      <3> QED BY <3>1, <3>2
    <2> QED BY <2>2, <2>3, LeavesAre
  <1>7. ASSUME Leaves(t) = Leaves(u), t.height = u.height
        PROVE  t.root = u.root
    <2>1. t.leaf_count = u.leaf_count /\ \A j \in Nat : NodeHash(t, 0, j) = NodeHash(u, 0, j)
      BY <1>7, LeavesAre
    <2>2. t.height <= t.height /\ 0 \in Nat
      BY <1>1
    <2>3. NodeHash(t, t.height, 0) = NodeHash(u, t.height, 0)
      BY <1>1, <1>7, <2>1, <2>2, NodesDetermined
    <2> QED BY <1>2, <1>7, <2>3
  <1>8. ASSUME Leaves(t) = Leaves(u), t.leaf_count = 0
        PROVE  t.root = u.root
    <2>1. u.leaf_count = 0
      BY <1>8, LeavesAre
    <2> QED BY <1>1, <1>2, <1>4, <1>8, <2>1
  <1> QED BY <1>5, <1>6, <1>7, <1>8

\* Trees with the same nodes and leaves have the same height.
LEMMA NodesTellHeight ==
  ASSUME NEW t, WellFormed(t), NEW u, WellFormed(u), t.leaf_count # 0,
         DOMAIN t.nodes = DOMAIN u.nodes
  PROVE  t.height <= u.height
PROOF
  <1>1. t.leaf_count \in Nat /\ t.height \in Nat
    BY TreeNumbers
  <1>2. 0 \in 0 .. t.leaf_count - 1 /\ t.height \in 0 .. t.height
    BY <1>1
  <1>3. PICK x : x = <<t.height, Ancestor(0, t.height)>>
    OBVIOUS
  <1>4. x \in DOMAIN u.nodes
    BY <1>2, <1>3 DEF WellFormed
  <1>5. PICK l \in 0 .. u.height, i \in 0 .. u.leaf_count - 1 : x = <<l, Ancestor(i, l)>>
    BY <1>4 DEF WellFormed
  <1>6. u.height \in Nat /\ t.height = l
    BY <1>3, <1>5, TreeNumbers
  <1> QED BY <1>5, <1>6

\* diff between trees within their capacity is empty exactly when they hold
\* the same leaves in the same order and, when they hold any, have the same
\* height (merkle.rs:287-312).
THEOREM DiffsAreFound == Spec => []DiffFindsChanges
PROOF
  <1>1. ASSUME NEW t, Good(t), Fits(t), NEW u, Good(u), Fits(u), Diff(t, u) = {}
        PROVE  t.root = u.root
    <2>1. SUFFICES ASSUME t.root # u.root PROVE FALSE
      OBVIOUS
    <2>2. \A p \in DOMAIN t.nodes \union DOMAIN u.nodes :
            /\ p \in DOMAIN t.nodes /\ p \in DOMAIN u.nodes
            /\ t.nodes[p] = u.nodes[p]
      BY <1>1, <2>1 DEF Diff
    <2>3. DOMAIN t.nodes = DOMAIN u.nodes
      BY <2>2
    <2>4. \A l, j : NodeHash(t, l, j) = NodeHash(u, l, j)
      BY <2>2, <2>3 DEF NodeHash
    <2>5. t.root = NodeHash(t, t.height, 0) /\ u.root = NodeHash(u, u.height, 0)
      BY <1>1, RootIsTop
    <2>6. Leaves(t) = Leaves(u)
      BY <1>1, <2>4, LeavesAre
    <2>7. t.leaf_count = u.leaf_count
      BY <1>1, <2>6, LeavesAre
    <2>8. t.leaf_count # 0
      BY <1>1, <2>1, <2>6, RootsTellLeaves
    <2>9. t.height <= u.height /\ u.height <= t.height
      BY <1>1, <2>3, <2>7, <2>8, NodesTellHeight DEF Good
    <2>10. t.height \in Nat /\ u.height \in Nat
      BY <1>1, TreeNumbers DEF Good
    <2>11. t.height = u.height
      BY <2>9, <2>10
    <2> QED BY <2>1, <2>4, <2>5, <2>11
  <1>2. MerkleInv => DiffFindsChanges
    <2> SUFFICES ASSUME MerkleInv, NEW i \in Trees, NEW j \in Trees,
                        Fits(trees[i]), Fits(trees[j])
                 PROVE  Diff(trees[i], trees[j]) = {} <=>
                          /\ Leaves(trees[i]) = Leaves(trees[j])
                          /\ trees[i].height = trees[j].height \/ trees[i].leaf_count = 0
      BY DEF DiffFindsChanges
    <2>1. Good(trees[i]) /\ Good(trees[j])
      BY DEF MerkleInv
    <2>2. Diff(trees[i], trees[j]) = {} <=> trees[i].root = trees[j].root
      BY <1>1, <2>1 DEF Diff
    <2> QED BY <2>1, <2>2, RootsTellLeaves
  <1> QED BY <1>2, MerkleAlways, PTL

=============================================================================
