------------------------------ MODULE SsTable ------------------------------
(* What is inside a run's files, as sstable.rs lays it out, and how the two *)
(* readers find an entry again: get_backend through the Bloom filter, the   *)
(* index and positioned reads, range_with_tombstones_backend by parsing the *)
(* whole keyops file.  A file is a sequence of bytes; the numbers in it are *)
(* small, so that a field is its lowest byte and then zeros.                *)
EXTENDS LsmRuns, SequencesExt

CONSTANTS
  MaxByte,         \* 0xFF in the code
  NumHashes,       \* 7 in the code
  BitsPerKey,      \* 10 in the code
  Hash(_, _),      \* crc32 of a seed and a key
  IoError          \* a read that ends beyond its file

Byte == 0 .. MaxByte

ASSUME TableAssumption ==
  /\ MaxByte \in Nat \ {0}
  /\ Keys \subseteq [1 .. KeyLen -> Byte]
  /\ Values \subseteq Seq(Byte)
  /\ NumHashes \in Nat \ {0} /\ BitsPerKey \in Nat \ {0}
  /\ \A k \in Keys, i \in 0 .. NumHashes - 1 : Hash(k, i) \in Nat
  /\ IoError \notin Values

\* Ord for Key: byte strings in lexicographic order, a prefix first.
KeyLeq(a, b) ==
  \/ IsPrefix(a, b)
  \/ \E i \in DOMAIN a \intersect DOMAIN b :
       a[i] < b[i] /\ SubSeq(a, 1, i - 1) = SubSeq(b, 1, i - 1)

---------------------------------------------------------------------------
(* SsTableWriter::finish.                                                  *)

LenWidth == 4      \* key_len is a u32,
OpWidth == 1       \* the operation a byte,
OffsetWidth == 8   \* blob_offset and value_len are u64

\* to_le_bytes.
Field(width, n) == [i \in 1 .. width |-> IF i = 1 THEN n ELSE 0]

\* entries.sort_by: at i the key that i keys come up to.
SortedKeys(d) ==
  LET P == Present(d)
  IN  [i \in 1 .. Cardinality(P) |->
        CHOOSE k \in P : Cardinality({j \in P : KeyLeq(j, k)}) = i]

\* Mutant of EntryLen: a tombstone advances the offset as an insert does.
EntryLenAlike(k, v) == LenWidth + Len(k) + OpWidth + 2 * OffsetWidth

\* What an entry adds to current_keyops_offset.
EntryLen(k, v) ==
  LenWidth + Len(k) + OpWidth + IF v = Tombstone THEN 0 ELSE 2 * OffsetWidth

KeyopsEntry(k, v, blob_offset) ==
  Field(LenWidth, Len(k)) \o k
    \o IF v = Tombstone THEN <<0>>
       ELSE <<1>> \o Field(OffsetWidth, blob_offset) \o Field(OffsetWidth, Len(v))

\* What an entry adds to the blobs.
Blob(v) == IF v = Tombstone THEN <<>> ELSE v

NothingWritten ==
  [keyops |-> <<>>, blobs |-> <<>>, offsets |-> <<>>,
   current_keyops_offset |-> 0, blob_offset |-> 0]

\* The loop of finish writes an entry.
WriteEntry(w, k, v) ==
  [keyops |-> w.keyops \o KeyopsEntry(k, v, w.blob_offset),
   blobs |-> w.blobs \o Blob(v),
   offsets |-> Append(w.offsets, w.current_keyops_offset),
   current_keyops_offset |-> w.current_keyops_offset + EntryLen(k, v),
   blob_offset |-> w.blob_offset + Len(Blob(v))]

Written(d) ==
  LET s == SortedKeys(d)
      w[n \in 0 .. Len(s)] ==
        IF n = 0 THEN NothingWritten ELSE WriteEntry(w[n - 1], s[n], d[s[n]])
  IN  w[Len(s)]

NumBits(d) == BitsPerKey * Cardinality(Present(d))

\* BloomFilter::from_keys: the bits that are set.
FilterBits(d) ==
  {Hash(k, i) % NumBits(d) : k \in Present(d), i \in 0 .. NumHashes - 1}

\* The files of a run.
Table(d) ==
  LET w == Written(d)
  IN  [keys |-> SortedKeys(d), offsets |-> w.offsets, keyops |-> w.keyops,
       blobs |-> w.blobs, bits |-> FilterBits(d), num_bits |-> NumBits(d)]

---------------------------------------------------------------------------
(* The readers.                                                            *)

\* io_backend::read_range.
Fits(file, offset, len) == offset + len <= Len(file)
ReadAt(file, offset, len) ==
  IF Fits(file, offset, len) THEN SubSeq(file, offset + 1, offset + len) ELSE IoError

\* Decode the number whose field starts at offset.
ReadNumber(file, offset) == file[offset + 1]

MightContain(t, key) ==
  \A i \in 0 .. NumHashes - 1 : Hash(key, i) % t.num_bits \in t.bits

\* The value an insert operation refers to, from its blob_offset on.
ReadBlob(t, offset) ==
  IF Fits(t.keyops, offset, 2 * OffsetWidth)
    THEN ReadAt(t.blobs, ReadNumber(t.keyops, offset),
                ReadNumber(t.keyops, offset + OffsetWidth))
    ELSE IoError

\* get_backend: Absent stands for Ok(None).  Every table has its offsets; the
\* scan for tables of an earlier format without them is left out.
GetBackend(t, key) ==
  LET found == {i \in DOMAIN t.keys : t.keys[i] = key}
      offset == t.offsets[CHOOSE i \in found : TRUE]
      op_at == offset + LenWidth + Len(key)
  IN  IF ~MightContain(t, key) \/ found = {} THEN Absent
      ELSE IF ~Fits(t.keyops, op_at, OpWidth) THEN IoError
      ELSE IF ReadNumber(t.keyops, op_at) = 0 THEN Absent
      ELSE ReadBlob(t, op_at + OpWidth)

InBounds(key, from, to) == KeyLeq(from, key) /\ KeyLeq(key, to)

\* Where the operation of the entry at a position is.
OpAt(t, at) == at + LenWidth + ReadNumber(t.keyops, at)

EntryEnd(t, at) ==
  OpAt(t, at) + OpWidth
    + IF ReadNumber(t.keyops, OpAt(t, at)) = 1 THEN 2 * OffsetWidth ELSE 0

EntryAt(t, at) ==
  [key |-> ReadAt(t.keyops, at + LenWidth, ReadNumber(t.keyops, at)),
   value |-> IF ReadNumber(t.keyops, OpAt(t, at)) = 1
               THEN ReadBlob(t, OpAt(t, at) + OpWidth) ELSE Tombstone]

\* The loop of range_with_tombstones_backend reads an entry.
ParseEntry(t, c, from, to) ==
  LET e == EntryAt(t, c.position)
  IN  IF c.position >= Len(t.keyops) THEN c
      ELSE [position |-> EntryEnd(t, c.position),
            results |-> IF InBounds(e.key, from, to) THEN Append(c.results, e)
                                                     ELSE c.results]

RangeWithTombstones(t, from, to) ==
  LET c[n \in 0 .. Len(t.keyops)] ==
        IF n = 0 THEN [position |-> 0, results |-> <<>>]
        ELSE ParseEntry(t, c[n - 1], from, to)
  IN  c[Len(t.keyops)].results

\* SsTableHandle::range: tombstones are filtered out.
RangeOfValues(t, from, to) ==
  {e \in RunSet(RangeWithTombstones(t, from, to)) : e.value # Tombstone}
=============================================================================
