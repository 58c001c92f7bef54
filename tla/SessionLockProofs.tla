------------------------- MODULE SessionLockProofs -------------------------
(* Theorems about SessionLock, for any number of processes and inodes.     *)
EXTENDS SessionLock, TLAPS

\* The variables of the lock keep their types through every system call of
\* acquire and Drop (session_lock.rs:47-201).
THEOREM LockTypeCorrect == Spec => []TypeOK
PROOF
  <1>1. Init => TypeOK
    BY DEF Init, TypeOK, Stages
  <1>2. TypeOK /\ [Next]_lvars => TypeOK'
    <2> SUFFICES ASSUME TypeOK, [Next]_lvars PROVE TypeOK'
      OBVIOUS
    <2>1. ASSUME NEW p \in Procs, Check(p) \/ Unlink(p) \/ DropFields(p) PROVE TypeOK'
      BY <2>1 DEF TypeOK, Check, Unlink, DropFields, Goto, Stages
    <2>2. ASSUME NEW p \in Procs, OpenFile(p) PROVE TypeOK'
      BY <2>2 DEF TypeOK, OpenFile, Goto, Stages
    <2>3. ASSUME NEW p \in Procs, Flock(p) PROVE TypeOK'
      <3>1. pc' \in [Procs -> Stages] /\ fd' \in [Procs -> Inodes \union {NoFile}]
        BY <2>3 DEF TypeOK, Flock, Close, Goto, Stages
      <3>2. owner' \in [Inodes -> SUBSET Procs]
        BY <2>3 DEF TypeOK, Flock, Close
      <3> QED BY <2>3, <3>1, <3>2 DEF TypeOK, Flock
    <2>4. ASSUME NEW p \in Procs, WriteInfo(p) \/ WriteFail(p) PROVE TypeOK'
      BY <2>4 DEF TypeOK, WriteInfo, WriteFail, Close, Goto, Stages
    <2>5. ASSUME NEW p \in Procs, CloseFile(p) \/ Crash(p) PROVE TypeOK'
      BY <2>5 DEF TypeOK, CloseFile, Crash, Close, Goto, Stages
    <2>6. CASE UNCHANGED lvars
      BY <2>6 DEF TypeOK, lvars
    <2> QED BY <2>1, <2>2, <2>3, <2>4, <2>5, <2>6 DEF Next
  <1> QED BY <1>1, <1>2, PTL DEF Spec

---------------------------------------------------------------------------
(* While no session ends by Drop, the lock is exclusive.                   *)

\* Every descriptor is open on the one lock file there has ever been, and a
\* process past flock is its only owner.
ExclusiveInv ==
  \A p \in Procs :
    /\ pc[p] \notin {"unlinked", "cleanup"}
    /\ pc[p] \in {"flock", "write", "held"} => fd[p] = lock_path /\ lock_path \in Inodes
    /\ pc[p] \in {"write", "held"} => owner[lock_path] = {p}

\* Without Drop, which unlinks the file, no two processes hold a SessionLock
\* at a time, whatever crashes, refusals and failed writes of the info happen
\* (session_lock.rs:6-7): the flock alone is enough.
THEOREM LockIsExclusive == "drop" \notin Ends => (Spec => []OneHolder)
PROOF
  <1> SUFFICES ASSUME "drop" \notin Ends PROVE Spec => []OneHolder
    OBVIOUS
  <1>1. Init => ExclusiveInv
    BY DEF Init, ExclusiveInv
  <1>2. TypeOK /\ ExclusiveInv /\ [Next]_lvars => ExclusiveInv'
    <2> SUFFICES ASSUME TypeOK, ExclusiveInv, [Next]_lvars PROVE ExclusiveInv'
      OBVIOUS
    <2>1. ASSUME NEW p \in Procs, Check(p) PROVE ExclusiveInv'
      BY <2>1 DEF TypeOK, ExclusiveInv, Check, Goto
    <2>2. ASSUME NEW p \in Procs, OpenFile(p) PROVE ExclusiveInv'
      <3>1. PICK i \in Inodes :
              /\ i = lock_path \/ lock_path = NoFile
              /\ lock_path' = i
              /\ fd' = [fd EXCEPT ![p] = i]
        BY <2>2 DEF OpenFile
      <3>2. pc' = [pc EXCEPT ![p] = "flock"] /\ owner' = owner
        BY <2>2 DEF OpenFile, Goto
      <3>3. \A q \in Procs : pc[q] \in {"flock", "write", "held"} => lock_path = i
        BY <3>1, LockAssumption DEF ExclusiveInv
      <3> QED BY <3>1, <3>2, <3>3 DEF TypeOK, ExclusiveInv
    <2>3. ASSUME NEW p \in Procs, Flock(p) PROVE ExclusiveInv'
      <3>1. fd[p] = lock_path /\ lock_path \in Inodes /\ lock_path' = lock_path
        BY <2>3 DEF Flock, ExclusiveInv
      <3>2. CASE owner[fd[p]] = {}
        <4>1. /\ owner' = [owner EXCEPT ![lock_path] = {p}]
              /\ pc' = [pc EXCEPT ![p] = "write"] /\ fd' = fd
          BY <2>3, <3>1, <3>2 DEF Flock, Goto
        <4>2. \A q \in Procs : pc[q] \notin {"write", "held"}
          BY <3>1, <3>2 DEF ExclusiveInv
        <4> QED BY <3>1, <4>1, <4>2 DEF TypeOK, ExclusiveInv
      <3>3. CASE owner[fd[p]] # {}
        <4>1. /\ owner' = [i \in Inodes |-> owner[i] \ {p}]
              /\ fd' = [fd EXCEPT ![p] = NoFile]
              /\ pc' = [pc EXCEPT ![p] = "out"]
          BY <2>3, <3>3 DEF Flock, Close, Goto
        <4> QED BY <3>1, <4>1 DEF TypeOK, ExclusiveInv
      <3> QED BY <3>2, <3>3
    <2>4. ASSUME NEW p \in Procs, WriteInfo(p) PROVE ExclusiveInv'
      BY <2>4 DEF TypeOK, ExclusiveInv, WriteInfo, Goto
    <2>5. ASSUME NEW p \in Procs, WriteFail(p) \/ Crash(p) PROVE ExclusiveInv'
      <3>1. /\ owner' = [i \in Inodes |-> owner[i] \ {p}]
            /\ fd' = [fd EXCEPT ![p] = NoFile]
            /\ pc' \in {[pc EXCEPT ![p] = "failed"], [pc EXCEPT ![p] = "dead"]}
            /\ lock_path' = lock_path
        BY <2>5 DEF WriteFail, Crash, Close, Goto
      <3>2. \A q \in Procs \ {p} : pc'[q] = pc[q] /\ fd'[q] = fd[q]
        BY <3>1 DEF TypeOK
      <3>3. pc'[p] \in {"failed", "dead"}
        BY <3>1 DEF TypeOK
      <3>4. ASSUME NEW q \in Procs \ {p}, pc[q] \in {"write", "held"}
            PROVE  owner'[lock_path] = {q}
        BY <3>1, <3>4 DEF ExclusiveInv
      <3> QED BY <3>1, <3>2, <3>3, <3>4 DEF ExclusiveInv
    <2>6. ASSUME NEW p \in Procs, Unlink(p) \/ CloseFile(p) \/ DropFields(p)
          PROVE  FALSE
      BY <2>6 DEF Unlink, CloseFile, DropFields, ExclusiveInv
    <2>7. CASE UNCHANGED lvars
      BY <2>7 DEF ExclusiveInv, lvars
    <2> QED BY <2>1, <2>2, <2>3, <2>4, <2>5, <2>6, <2>7 DEF Next
  <1>3. ExclusiveInv => OneHolder
    BY DEF ExclusiveInv, OneHolder
  <1> QED BY <1>1, <1>2, <1>3, LockTypeCorrect, PTL DEF Spec

---------------------------------------------------------------------------
(* Holders of the lock at the same time hold it on different files.        *)

\* A process past flock is the only owner of the file it has open.
OwnerInv ==
  \A p \in Procs :
    /\ pc[p] = "flock" => fd[p] \in Inodes
    /\ pc[p] \in {"write", "held", "unlinked"} => fd[p] \in Inodes /\ owner[fd[p]] = {p}

\* For any number of processes, drops and failures included: two sessions at
\* a time are on two lock files, and flock alone keeps them apart
\* (session_lock.rs:76-88).
THEOREM HoldersAreApart == Spec => []HoldersApart
PROOF
  <1>1. Init => OwnerInv
    BY DEF Init, OwnerInv
  <1>2. TypeOK /\ OwnerInv /\ [Next]_lvars => OwnerInv'
    <2> SUFFICES ASSUME TypeOK, OwnerInv, [Next]_lvars PROVE OwnerInv'
      OBVIOUS
    <2>1. ASSUME NEW p \in Procs, Check(p) \/ WriteInfo(p) \/ Unlink(p) \/ DropFields(p)
          PROVE  OwnerInv'
      BY <2>1 DEF TypeOK, OwnerInv, Check, WriteInfo, Unlink, DropFields, Goto
    <2>2. ASSUME NEW p \in Procs, OpenFile(p) PROVE OwnerInv'
      <3>1. /\ \E i \in Inodes : fd' = [fd EXCEPT ![p] = i]
            /\ pc' = [pc EXCEPT ![p] = "flock"] /\ owner' = owner
        BY <2>2 DEF OpenFile, Goto
      <3> QED BY <3>1 DEF TypeOK, OwnerInv
    <2>3. ASSUME NEW p \in Procs, Flock(p) PROVE OwnerInv'
      <3>1. pc[p] = "flock" /\ fd[p] \in Inodes
        BY <2>3 DEF Flock, OwnerInv
      <3>2. CASE owner[fd[p]] = {}
        <4>1. /\ owner' = [owner EXCEPT ![fd[p]] = {p}]
              /\ pc' = [pc EXCEPT ![p] = "write"] /\ fd' = fd
          BY <2>3, <3>2 DEF Flock, Goto
        <4> QED BY <3>1, <3>2, <4>1 DEF TypeOK, OwnerInv
      <3>3. CASE owner[fd[p]] # {}
        <4>1. /\ owner' = [i \in Inodes |-> owner[i] \ {p}]
              /\ fd' = [fd EXCEPT ![p] = NoFile]
              /\ pc' = [pc EXCEPT ![p] = "out"]
          BY <2>3, <3>3 DEF Flock, Close, Goto
        <4> QED BY <3>1, <4>1 DEF TypeOK, OwnerInv
      <3> QED BY <3>2, <3>3
    <2>4. ASSUME NEW p \in Procs, WriteFail(p) \/ CloseFile(p) \/ Crash(p)
          PROVE  OwnerInv'
      <3>1. /\ owner' = [i \in Inodes |-> owner[i] \ {p}]
            /\ fd' = [fd EXCEPT ![p] = NoFile]
            /\ \E s \in {"failed", "cleanup", "dead"} : pc' = [pc EXCEPT ![p] = s]
        BY <2>4 DEF WriteFail, CloseFile, Crash, Close, Goto
      <3> QED BY <3>1 DEF TypeOK, OwnerInv
    <2>5. CASE UNCHANGED lvars
      BY <2>5 DEF OwnerInv, lvars
    <2> QED BY <2>1, <2>2, <2>3, <2>4, <2>5 DEF Next
  <1>3. OwnerInv => HoldersApart
    <2> SUFFICES ASSUME OwnerInv, NEW p \in Procs, NEW q \in Procs, p # q,
                        {pc[p], pc[q]} \subseteq {"write", "held", "unlinked"},
                        fd[p] = fd[q]
                 PROVE  FALSE
      BY DEF HoldersApart
    <2>1. owner[fd[p]] = {p} /\ owner[fd[p]] = {q}
      BY DEF OwnerInv
    <2> QED BY <2>1
  <1> QED BY <1>1, <1>2, <1>3, LockTypeCorrect, PTL DEF Spec

---------------------------------------------------------------------------
(* A lock that nobody holds can be taken.                                  *)

\* An owner of a flock is past flock and still has its descriptor; a live
\* process that the file at the path names holds its lock, or failed to acquire it.
FreeInv ==
  /\ \A i \in Inodes : \A p \in owner[i] :
       fd[p] = i /\ pc[p] \in {"write", "held", "unlinked"}
  /\ lock_path \in Inodes /\ info[lock_path] \in Procs
       => pc[info[lock_path]] \in {"held", "failed", "dead"}

\* No history of drops, crashes, refusals and failed writes leaves a lock
\* behind that nobody holds: once every live process is out, the next acquire
\* meets neither the info of a live process nor a flock (session_lock.rs:51-86,
\* 194-201).
THEOREM FreeLockIsFree == Spec => []FreeLockCanBeTaken
PROOF
  <1>1. Init => FreeInv
    BY LockAssumption DEF Init, FreeInv
  <1>2. TypeOK /\ FreeInv /\ [Next]_lvars => FreeInv'
    <2> SUFFICES ASSUME TypeOK, FreeInv, [Next]_lvars PROVE FreeInv'
      OBVIOUS
    <2>1. ASSUME NEW p \in Procs, Check(p) PROVE FreeInv'
      <3>1. /\ pc[p] \in {"out", "failed"} /\ pc' = [pc EXCEPT ![p] = "open"]
            /\ lock_path' = lock_path /\ info' = info /\ fd' = fd /\ owner' = owner
        BY <2>1 DEF Check, Goto
      <3>2. lock_path \in Inodes /\ info[lock_path] \in Procs => info[lock_path] # p
        BY <2>1, <3>1, LockAssumption DEF Check, Locked, IsProcessAlive
      <3> QED BY <3>1, <3>2 DEF TypeOK, FreeInv
    <2>2. ASSUME NEW p \in Procs, OpenFile(p) PROVE FreeInv'
      <3>1. PICK i \in Inodes :
              /\ lock_path' = i
              /\ info' = [info EXCEPT ![i] = NoInfo]
              /\ fd' = [fd EXCEPT ![p] = i]
        BY <2>2 DEF OpenFile
      <3>2. pc[p] = "open" /\ pc' = [pc EXCEPT ![p] = "flock"] /\ owner' = owner
        BY <2>2 DEF OpenFile, Goto
      <3>3. info'[lock_path'] \notin Procs
        BY <3>1, LockAssumption DEF TypeOK
      <3>4. ASSUME NEW j \in Inodes, NEW q \in owner[j]
            PROVE  fd'[q] = j /\ pc'[q] \in {"write", "held", "unlinked"}
        BY <3>1, <3>2 DEF TypeOK, FreeInv
      <3> QED BY <3>2, <3>3, <3>4 DEF FreeInv
    <2>3. ASSUME NEW p \in Procs, Flock(p) PROVE FreeInv'
      <3>1. pc[p] = "flock" /\ lock_path' = lock_path /\ info' = info
        BY <2>3 DEF Flock
      <3>2. lock_path \in Inodes /\ info[lock_path] \in Procs => info[lock_path] # p
        BY <3>1 DEF FreeInv
      <3>3. CASE owner[fd[p]] = {}
        <4>1. /\ owner' = [owner EXCEPT ![fd[p]] = {p}]
              /\ pc' = [pc EXCEPT ![p] = "write"] /\ fd' = fd
          BY <2>3, <3>3 DEF Flock, Goto
        <4> QED BY <3>1, <3>2, <4>1 DEF TypeOK, FreeInv
      <3>4. CASE owner[fd[p]] # {}
        <4>1. /\ owner' = [i \in Inodes |-> owner[i] \ {p}]
              /\ fd' = [fd EXCEPT ![p] = NoFile]
              /\ pc' = [pc EXCEPT ![p] = "out"]
          BY <2>3, <3>4 DEF Flock, Close, Goto
        <4> QED BY <3>1, <3>2, <4>1 DEF TypeOK, FreeInv
      <3> QED BY <3>3, <3>4
    <2>4. ASSUME NEW p \in Procs, WriteInfo(p) PROVE FreeInv'
      <3>1. /\ pc[p] = "write" /\ info' = [info EXCEPT ![fd[p]] = p]
            /\ pc' = [pc EXCEPT ![p] = "held"]
            /\ lock_path' = lock_path /\ fd' = fd /\ owner' = owner
        BY <2>4 DEF WriteInfo, Goto
      <3>2. ASSUME lock_path \in Inodes, info'[lock_path] \in Procs
            PROVE  pc'[info'[lock_path]] \in {"held", "failed", "dead"}
        BY <3>1, <3>2 DEF TypeOK, FreeInv
      <3>3. ASSUME NEW j \in Inodes, NEW q \in owner[j]
            PROVE  fd'[q] = j /\ pc'[q] \in {"write", "held", "unlinked"}
        BY <3>1 DEF TypeOK, FreeInv
      <3> QED BY <3>1, <3>2, <3>3 DEF FreeInv
    <2>5. ASSUME NEW p \in Procs, Unlink(p) PROVE FreeInv'
      BY <2>5, LockAssumption DEF TypeOK, FreeInv, Unlink, Goto
    <2>6. ASSUME NEW p \in Procs, CloseFile(p) \/ Crash(p) PROVE FreeInv'
      <3>1. /\ owner' = [i \in Inodes |-> owner[i] \ {p}]
            /\ fd' = [fd EXCEPT ![p] = NoFile]
            /\ lock_path' = lock_path /\ info' = info
        BY <2>6 DEF CloseFile, Crash, Close
      <3>2. \/ pc' = [pc EXCEPT ![p] = "dead"]
            \/ pc' = [pc EXCEPT ![p] = "cleanup"] /\ pc[p] = "unlinked"
        BY <2>6 DEF CloseFile, Crash, Goto
      <3>3. ASSUME NEW j \in Inodes, NEW q \in owner'[j]
            PROVE  fd'[q] = j /\ pc'[q] \in {"write", "held", "unlinked"}
        BY <3>1, <3>2 DEF TypeOK, FreeInv
      <3>4. lock_path \in Inodes /\ info[lock_path] \in Procs
              => pc'[info[lock_path]] \in {"held", "failed", "dead"}
        BY <3>2 DEF TypeOK, FreeInv
      <3> QED BY <3>1, <3>3, <3>4 DEF FreeInv
    <2>7. ASSUME NEW p \in Procs, WriteFail(p) PROVE FreeInv'
      <3>1. /\ owner' = [i \in Inodes |-> owner[i] \ {p}]
            /\ fd' = [fd EXCEPT ![p] = NoFile]
            /\ pc' = [pc EXCEPT ![p] = "failed"]
            /\ info' \in {info, [info EXCEPT ![fd[p]] = p]}
            /\ lock_path' = lock_path
        BY <2>7 DEF WriteFail, Close, Goto
      <3>2. ASSUME NEW j \in Inodes, NEW q \in owner'[j]
            PROVE  fd'[q] = j /\ pc'[q] \in {"write", "held", "unlinked"}
        BY <3>1, <3>2 DEF TypeOK, FreeInv
      <3>3. ASSUME lock_path \in Inodes, info'[lock_path] \in Procs
            PROVE  pc'[info'[lock_path]] \in {"held", "failed", "dead"}
        BY <3>1, <3>3 DEF TypeOK, FreeInv
      <3> QED BY <3>1, <3>2, <3>3 DEF FreeInv
    <2>8. ASSUME NEW p \in Procs, DropFields(p) PROVE FreeInv'
      BY <2>8 DEF TypeOK, FreeInv, DropFields, Goto
    <2>9. CASE UNCHANGED lvars
      BY <2>9 DEF FreeInv, lvars
    <2> QED BY <2>1, <2>2, <2>3, <2>4, <2>5, <2>6, <2>7, <2>8, <2>9 DEF Next
  <1>3. TypeOK /\ FreeInv => FreeLockCanBeTaken
    <2> SUFFICES ASSUME TypeOK, FreeInv, \A p \in Procs : pc[p] \in {"out", "dead"}
                 PROVE  ~Locked /\ \A i \in Inodes : owner[i] = {}
      BY DEF FreeLockCanBeTaken
    <2>1. ~Locked
      BY DEF Locked, IsProcessAlive, FreeInv, TypeOK
    <2>2. ASSUME NEW i \in Inodes, NEW p \in owner[i] PROVE FALSE
      BY <2>2 DEF FreeInv, TypeOK
    <2> QED BY <2>1, <2>2
  <1> QED BY <1>1, <1>2, <1>3, LockTypeCorrect, PTL DEF Spec
=============================================================================
