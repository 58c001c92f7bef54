----------------------------- MODULE MerkleTree -----------------------------
(* merkle.rs: the incremental Merkle tree.  An insert appends a leaf and   *)
(* recomputes the hashes on its way to the root; proofs, diff, snapshots   *)
(* and rollback read and replace what the inserts have stored.             *)
EXTENDS Integers, Sequences, FiniteSets, FiniteSetsExt

CONSTANTS
  Byte,
  Keys, Values,    \* byte strings
  Separator,       \* the byte ':'
  Trees,           \* IncrementalMerkleTrees the caller has
  Heights,         \* heights they may be created with
  None,
  MaxLeaves        \* bound: leaves in all trees together

ASSUME MerkleAssumption ==
  /\ Heights \subseteq Nat
  /\ MaxLeaves \in Nat
  /\ Keys \subseteq Seq(Byte) /\ Values \subseteq Seq(Byte)
  \* hash_leaf joins key and value with ':'; keys that hold one are left out.
  /\ \A k \in Keys : \A i \in DOMAIN k : k[i] # Separator

VARIABLES
  trees,           \* the trees
  snap             \* a MerkleSnapshot of one of them, or None

mvars == <<trees, snap>>

---------------------------------------------------------------------------
(* Hashes are the terms that were hashed: blake3 without collisions.       *)

Empty == <<"empty">>
HashLeaf(k, v) == <<"leaf", k \o <<Separator>> \o v>>
HashNode(left, right) == <<"node", left, right>>

\* Mutant of Flip: the next index for every index.
FlipNext(i) == i + 1

\* index ^ 1
Flip(i) == IF i % 2 = 0 THEN i + 1 ELSE i - 1

\* The leaves under a node of level l: 2^l.
Width[l \in Nat] == IF l = 0 THEN 1 ELSE 2 * Width[l - 1]

\* The index, at level l, of the node over leaf i.
Ancestor(i, l) == i \div Width[l]

NewTree(h) ==
  [height |-> h, nodes |-> <<>>, root |-> Empty, leaf_count |-> 0,
   key_to_index |-> <<>>, leaf_data |-> <<>>]

NodeHash(t, l, i) == IF <<l, i>> \in DOMAIN t.nodes THEN t.nodes[<<l, i>>] ELSE Empty

\* The siblings of the path from leaf i to the root, and the side each is on.
Siblings(t, i) ==
  [l \in 1 .. t.height |->
    LET index == Ancestor(i, l - 1)
    IN  [side |-> IF index % 2 = 0 THEN "Right" ELSE "Left",
         hash |-> NodeHash(t, l - 1, Flip(index))]]

\* The hashes that insert computes on that path, from level 0 up.
PathHashes(t, i, leaf) ==
  LET up[l \in 0 .. t.height] ==
        IF l = 0 THEN leaf
        ELSE LET index == Ancestor(i, l - 1)
                 sibling == NodeHash(t, l - 1, Flip(index))
             IN  IF index % 2 = 0 THEN HashNode(up[l - 1], sibling)
                                  ELSE HashNode(sibling, up[l - 1])
  IN  up

\* HashMap::insert
With(f, x, y) == [z \in DOMAIN f \union {x} |-> IF z = x THEN y ELSE f[z]]

\* Mutant of Inserted: key_to_index.entry(key).or_insert.
InsertedKeepIndex(t, k, v) ==
  LET i == t.leaf_count
      up == PathHashes(t, i, HashLeaf(k, v))
      path == {<<l, Ancestor(i, l)>> : l \in 0 .. t.height}
  IN  [t EXCEPT !.nodes = [p \in DOMAIN t.nodes \union path |->
                             IF p \in path THEN up[p[1]] ELSE t.nodes[p]],
                !.root = up[t.height],
                !.leaf_count = i + 1,
                !.key_to_index = IF k \in DOMAIN @ THEN @ ELSE With(@, k, i),
                !.leaf_data = With(@, k, v)]

\* insert: the capacity is not looked at, and a key that is there already gets
\* a new leaf.
Inserted(t, k, v) ==
  LET i == t.leaf_count
      up == PathHashes(t, i, HashLeaf(k, v))
      path == {<<l, Ancestor(i, l)>> : l \in 0 .. t.height}
  IN  [t EXCEPT !.nodes = [p \in DOMAIN t.nodes \union path |->
                             IF p \in path THEN up[p[1]] ELSE t.nodes[p]],
                !.root = up[t.height],
                !.leaf_count = i + 1,
                !.key_to_index = With(@, k, i),
                !.leaf_data = With(@, k, v)]

\* Mutant of InsertProof: the siblings of the leaf inserted before.
InsertProofPrevious(t, k, v) ==
  [key |-> k, value |-> v,
   siblings |-> Siblings(t, IF t.leaf_count = 0 THEN 0 ELSE t.leaf_count - 1)]

\* The proof that insert returns.
InsertProof(t, k, v) ==
  [key |-> k, value |-> v, siblings |-> Siblings(t, t.leaf_count)]

\* prove, for a key that has been inserted.
Prove(t, k) ==
  [key |-> k, value |-> t.leaf_data[k], siblings |-> Siblings(t, t.key_to_index[k])]

\* What the loop of verify_proof makes of a leaf's hash.
Climbed(leaf, siblings) ==
  LET current[n \in 0 .. Len(siblings)] ==
        IF n = 0 THEN leaf
        ELSE IF siblings[n].side = "Left"
               THEN HashNode(siblings[n].hash, current[n - 1])
               ELSE HashNode(current[n - 1], siblings[n].hash)
  IN  current[Len(siblings)]

\* Mutant of VerifyProof: the leaf in the proof is hashed, not the arguments.
VerifyProofOwnLeaf(root, k, v, proof) ==
  root = Climbed(HashLeaf(proof.key, proof.value), proof.siblings)

VerifyProof(root, k, v, proof) == root = Climbed(HashLeaf(k, v), proof.siblings)

Verify(t, proof) == VerifyProof(t.root, proof.key, proof.value, proof)

\* Mutant of Diff: nodes that only the other tree has are not looked for.
DiffOneSided(t, u) ==
  IF t.root = u.root THEN {}
  ELSE {p \in DOMAIN t.nodes : p \notin DOMAIN u.nodes \/ t.nodes[p] # u.nodes[p]}

\* diff: the paths at which the trees differ.
Diff(t, u) ==
  IF t.root = u.root THEN {}
  ELSE {p \in DOMAIN t.nodes \union DOMAIN u.nodes :
          \/ p \notin DOMAIN t.nodes \intersect DOMAIN u.nodes
          \/ t.nodes[p] # u.nodes[p]}

\* Mutant of RolledBack: the leaf data stay.
RolledBackKeepData(t, s) == [s EXCEPT !.leaf_data = t.leaf_data]

\* rollback takes every field from the snapshot, the height too.
RolledBack(t, s) == s

---------------------------------------------------------------------------

TypeOK ==
  /\ \A t \in {trees[i] : i \in Trees} \union ({snap} \ {None}) :
       /\ t.height \in Heights
       /\ t.leaf_count \in Nat
       /\ DOMAIN t.nodes =
            {<<l, Ancestor(i, l)>> : l \in 0 .. t.height, i \in 0 .. t.leaf_count - 1}
       /\ DOMAIN t.leaf_data = DOMAIN t.key_to_index
       /\ \A k \in DOMAIN t.leaf_data :
            /\ k \in Keys /\ t.leaf_data[k] \in Values
            /\ t.key_to_index[k] \in 0 .. t.leaf_count - 1
  /\ DOMAIN trees = Trees

Init ==
  /\ \E h \in [Trees -> Heights] : trees = [i \in Trees |-> NewTree(h[i])]
  /\ snap = None

AllLeaves == MapThenSumSet(LAMBDA i : trees[i].leaf_count, Trees)

Insert(i, k, v) ==
  /\ AllLeaves < MaxLeaves
  /\ trees' = [trees EXCEPT ![i] = Inserted(@, k, v)]
  /\ UNCHANGED snap

Snapshot(i) ==
  /\ snap' = trees[i]
  /\ UNCHANGED trees

\* The snapshot may come from another tree.
Rollback(i) ==
  /\ snap # None
  /\ trees' = [trees EXCEPT ![i] = RolledBack(@, snap)]
  /\ UNCHANGED snap

Next ==
  \E i \in Trees :
    \/ \E k \in Keys, v \in Values : Insert(i, k, v)
    \/ Snapshot(i)
    \/ Rollback(i)

Spec == Init /\ [][Next]_mvars

---------------------------------------------------------------------------
(* Properties.                                                             *)

\* The tree computed from its leaves alone: a subtree without a leaf is Empty,
\* whatever its level.
Reference(t) ==
  LET ref[l \in 0 .. t.height] ==
        [i \in 0 .. t.leaf_count |->
          IF i * Width[l] >= t.leaf_count THEN Empty
          ELSE IF l = 0 THEN t.nodes[<<0, i>>]
          ELSE HashNode(ref[l - 1][2 * i], ref[l - 1][2 * i + 1])]
  IN  ref

\* The subtree of the given height that the newest leaf is in: the only one
\* there is as long as the leaves do not exceed max_leaves.
Subtree(t, i) == Ancestor(i, t.height)
Newest(t) == Subtree(t, t.leaf_count - 1)

\* The root kept by updating one path per insert is the root of the whole
\* tree over the leaves; past max_leaves, which insert does not check
\* (merkle.rs:343), it is the root of the newest subtree alone.
RootIsReference ==
  \A i \in Trees :
    LET t == trees[i]
    IN  t.root = IF t.leaf_count = 0 THEN Empty ELSE Reference(t)[t.height][Newest(t)]

\* prove gives a proof that verifies for exactly the keys whose newest leaf is
\* under the root: all of them up to max_leaves (merkle.rs:214-251), and none
\* from an earlier subtree once the tree has overflowed.
ProofsVerify ==
  \A i \in Trees : \A k \in DOMAIN trees[i].key_to_index :
    LET t == trees[i]
    IN  Verify(t, Prove(t, k)) <=> Subtree(t, t.key_to_index[k]) = Newest(t)

Fits(t) == t.leaf_count <= Width[t.height]

\* Up to max_leaves, a proof speaks for its own key and value alone: with any
\* other key or value it is refused (merkle.rs:259-271).
ProofsBind ==
  \A i \in Trees : \A p \in DOMAIN trees[i].key_to_index : \A k \in Keys, v \in Values :
    LET proof == Prove(trees[i], p)
    IN  Fits(trees[i]) /\ VerifyProof(trees[i].root, k, v, proof)
          => k = proof.key /\ v = proof.value

\* insert's proof verifies against the root after the insert, when the tree is
\* past max_leaves as well, and while it is not, against no root before it
\* (merkle.rs:129-211).
InsertProves ==
  [][ \A i \in Trees, k \in Keys, v \in Values :
        Insert(i, k, v) =>
          LET proof == InsertProof(trees[i], k, v)
          IN  /\ VerifyProof(trees'[i].root, k, v, proof)
              /\ trees[i].leaf_count < Width[trees[i].height]
                   => ~VerifyProof(trees[i].root, k, v, proof) ]_mvars

\* The leaves of a tree, in order.
Leaves(t) == [i \in 1 .. t.leaf_count |-> t.nodes[<<0, i - 1>>]]

\* diff between trees within their capacity is empty exactly when they hold
\* the same leaves in the same order (and, when they hold any, have the same
\* height), after rollbacks to snapshots of either tree too
\* (merkle.rs:287-312).
DiffFindsChanges ==
  \A i, j \in Trees :
    LET t == trees[i]  u == trees[j]
    IN  Fits(t) /\ Fits(u) =>
          (Diff(t, u) = {} <=>
             /\ Leaves(t) = Leaves(u)
             /\ t.height = u.height \/ t.leaf_count = 0)
=============================================================================
