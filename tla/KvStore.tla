------------------------------ MODULE KvStore ------------------------------
(* What a LsmTree promises its caller, without memtables, runs or levels:  *)
(* a map from keys to values, in-memory snapshots of the map that can be   *)
(* rolled back to, and named copies on disk that a later session reopens.  *)
(* LsmTree and LsmSessions are shown to implement it.                      *)
CONSTANTS
  Keys, Values,
  Absent,        \* the value of a key the map does not hold
  SnapIds,       \* names of the LsmSnapshot objects the caller holds
  Names,         \* names given to save_snapshot
  None           \* no snapshot under this name

VARIABLES
  open,          \* the caller holds a LsmTree
  map,           \* its contents
  snaps,         \* contents of the caller's in-memory snapshots
  disk           \* contents of the saved snapshots

vars == <<open, map, snaps, disk>>

Maps == [Keys -> Values \union {Absent}]
EmptyMap == [k \in Keys |-> Absent]

Init ==
  /\ open = TRUE
  /\ map = EmptyMap
  /\ snaps = [s \in SnapIds |-> None]
  /\ disk = [n \in Names |-> None]

\* insert, insert_batch: the written keys get their values at once.
Put(w) ==
  /\ open
  /\ map' = [k \in Keys |-> IF k \in DOMAIN w THEN w[k] ELSE map[k]]
  /\ UNCHANGED <<open, snaps, disk>>

\* delete, delete_batch.
Remove(S) ==
  /\ open
  /\ map' = [k \in Keys |-> IF k \in S THEN Absent ELSE map[k]]
  /\ UNCHANGED <<open, snaps, disk>>

Snapshot(s) ==
  /\ open
  /\ snaps' = [snaps EXCEPT ![s] = map]
  /\ UNCHANGED <<open, map, disk>>

Rollback(s) ==
  /\ open
  /\ snaps[s] # None
  /\ map' = snaps[s]
  /\ UNCHANGED <<open, snaps, disk>>

SaveSnapshot(n) ==
  /\ open
  /\ disk[n] = None
  /\ disk' = [disk EXCEPT ![n] = map]
  /\ UNCHANGED <<open, map, snaps>>

DeleteSnapshot(n) ==
  /\ open
  /\ disk[n] # None
  /\ disk' = [disk EXCEPT ![n] = None]
  /\ UNCHANGED <<open, map, snaps>>

\* Dropping the tree ends the session: only saved snapshots survive it.
Close ==
  /\ open
  /\ open' = FALSE
  /\ map' = EmptyMap
  /\ snaps' = [s \in SnapIds |-> None]
  /\ UNCHANGED disk

Open ==
  /\ ~open
  /\ open' = TRUE
  /\ UNCHANGED <<map, snaps, disk>>

\* Open of what a crash, or writes of runs that failed, have left: any of the
\* values written before may be there.
Adopt ==
  /\ ~open
  /\ open' = TRUE
  /\ map' \in Maps
  /\ UNCHANGED <<snaps, disk>>

OpenSnapshot(n) ==
  /\ ~open
  /\ disk[n] # None
  /\ open' = TRUE
  /\ map' = disk[n]
  /\ UNCHANGED <<snaps, disk>>

Next ==
  \/ \E S \in SUBSET Keys :
       \/ \E w \in [S -> Values] : Put(w)
       \/ Remove(S)
  \/ \E s \in SnapIds : Snapshot(s) \/ Rollback(s)
  \/ \E n \in Names : SaveSnapshot(n) \/ DeleteSnapshot(n) \/ OpenSnapshot(n)
  \/ Close
  \/ Open \/ Adopt

Spec == Init /\ [][Next]_vars
=============================================================================
