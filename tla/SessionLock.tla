---------------------------- MODULE SessionLock ----------------------------
(* session_lock.rs on Unix: processes that open a tree on one directory.   *)
(* The lock is an flock on the file <dir>/lock, which acquire creates and  *)
(* Drop unlinks; a step is one system call.                                *)
EXTENDS Naturals, FiniteSets

CONSTANTS
  Procs,           \* processes, named by their pid; a pid is not used again
  Inodes,          \* files that can exist at a time
  NoFile,          \* no lock file, no open descriptor
  NoInfo,          \* contents that read_lock_info cannot parse
  Ends,            \* how sessions end: "drop", "crash"
  Faults           \* the I/O errors that may happen: "write"

ASSUME LockAssumption ==
  /\ NoFile \notin Inodes
  /\ NoInfo \notin Procs
  /\ IsFiniteSet(Procs) /\ IsFiniteSet(Inodes)
  /\ Cardinality(Inodes) > Cardinality(Procs)
  /\ Ends \subseteq {"drop", "crash"}
  /\ Faults \subseteq {"write"}

VARIABLES
  lock_path,       \* the inode the path <dir>/lock names, or NoFile
  info,            \* per inode, the pid of the LockInfo in it, or NoInfo
  fd,              \* per process, the inode its descriptor is open on
  owner,           \* per inode, the processes whose descriptor holds the flock
  pc

lvars == <<lock_path, info, fd, owner, pc>>

\* In acquire: about to open, to lock, to write the info.  Holding: the tree
\* is open, its lock file is unlinked, or the lock is gone and the rest of the
\* tree's fields are being dropped.
\* Failed: acquire could not write its info; out but for what it left behind.
Stages == {"out", "failed", "open", "flock", "write", "held", "unlinked", "cleanup", "dead"}

TypeOK ==
  /\ lock_path \in Inodes \union {NoFile}
  /\ info \in [Inodes -> Procs \union {NoInfo}]
  /\ fd \in [Procs -> Inodes \union {NoFile}]
  /\ owner \in [Inodes -> SUBSET Procs]
  /\ pc \in [Procs -> Stages]

Init ==
  /\ lock_path = NoFile
  /\ info = [i \in Inodes |-> NoInfo]
  /\ fd = [p \in Procs |-> NoFile]
  /\ owner = [i \in Inodes |-> {}]
  /\ pc = [p \in Procs |-> "out"]

Goto(p, s) == pc' = [pc EXCEPT ![p] = s]

\* Mutant of is_process_alive: whoever wrote the file counts.
AnyProcessAlive(q) == q \in Procs

\* kill(pid, 0), which finds every live process: all belong to one user, and no
\* pid is given out again.
IsProcessAlive(q) == q \in Procs /\ pc[q] # "dead"

\* The lock file exists, parses, and names a process that is alive.
Locked == lock_path # NoFile /\ IsProcessAlive(info[lock_path])

\* The first look at an existing lock file; a refused caller is out again.
Check(p) ==
  /\ pc[p] \in {"out", "failed"}
  /\ ~Locked
  /\ Goto(p, "open")
  /\ UNCHANGED <<lock_path, info, fd, owner>>

\* An inode that neither the path nor a descriptor refers to.
Unused(i) == i # lock_path /\ \A q \in Procs : fd[q] # i

\* open(O_CREAT | O_TRUNC): whoever holds the lock loses its info.
OpenFile(p) ==
  /\ pc[p] = "open"
  /\ \E i \in Inodes :
       /\ i = lock_path \/ (lock_path = NoFile /\ Unused(i))
       /\ lock_path' = i
       /\ info' = [info EXCEPT ![i] = NoInfo]
       /\ fd' = [fd EXCEPT ![p] = i]
  /\ Goto(p, "flock")
  /\ UNCHANGED owner

\* The descriptor is closed, and the flock with it.
Close(p) ==
  /\ fd' = [fd EXCEPT ![p] = NoFile]
  /\ owner' = [i \in Inodes |-> owner[i] \ {p}]

\* Mutant of Flock: the result of flock is not looked at.
FlockIgnored(p) ==
  /\ pc[p] = "flock"
  /\ owner' = [owner EXCEPT ![fd[p]] = @ \union {p}]
  /\ Goto(p, "write")
  /\ UNCHANGED <<lock_path, info, fd>>

\* flock(LOCK_EX | LOCK_NB): refused when another descriptor holds it.
Flock(p) ==
  /\ pc[p] = "flock"
  /\ \/ /\ owner[fd[p]] = {}
        /\ owner' = [owner EXCEPT ![fd[p]] = {p}]
        /\ Goto(p, "write")
        /\ UNCHANGED fd
     \/ /\ owner[fd[p]] # {}
        /\ Close(p)
        /\ Goto(p, "out")
  /\ UNCHANGED <<lock_path, info>>

WriteInfo(p) ==
  /\ pc[p] = "write"
  /\ info' = [info EXCEPT ![fd[p]] = p]
  /\ Goto(p, "held")
  /\ UNCHANGED <<lock_path, fd, owner>>

\* writeln or sync_all fails: acquire returns the error, the file is closed
\* and stays, with the info in it or not.
WriteFail(p) ==
  /\ "write" \in Faults
  /\ pc[p] = "write"
  /\ info' \in {info, [info EXCEPT ![fd[p]] = p]}
  /\ Close(p)
  /\ Goto(p, "failed")
  /\ UNCHANGED lock_path

\* Drop for SessionLock, the first field of the dropped tree to go: remove the
\* file the path names now ...
Unlink(p) ==
  /\ "drop" \in Ends
  /\ pc[p] = "held"
  /\ lock_path' = NoFile
  /\ Goto(p, "unlinked")
  /\ UNCHANGED <<info, fd, owner>>

\* ... and close the descriptor, its field.
CloseFile(p) ==
  /\ pc[p] = "unlinked"
  /\ Close(p)
  /\ Goto(p, "cleanup")
  /\ UNCHANGED <<lock_path, info>>

\* The tree's remaining fields: the handles of its levels delete their files.
DropFields(p) ==
  /\ pc[p] = "cleanup"
  /\ Goto(p, "out")
  /\ UNCHANGED <<lock_path, info, fd, owner>>

\* The process dies; the kernel closes its descriptor.
Crash(p) ==
  /\ "crash" \in Ends
  /\ pc[p] # "dead"
  /\ Close(p)
  /\ Goto(p, "dead")
  /\ UNCHANGED <<lock_path, info>>

Next ==
  \E p \in Procs :
    \/ Check(p) \/ OpenFile(p) \/ Flock(p) \/ WriteInfo(p) \/ WriteFail(p)
    \/ Unlink(p) \/ CloseFile(p) \/ DropFields(p) \/ Crash(p)

Spec == Init /\ [][Next]_lvars

---------------------------------------------------------------------------
(* Properties.                                                             *)

\* No two processes hold a SessionLock on the directory at the same time
\* (session_lock.rs:6-7).
OneHolder ==
  \A p, q \in Procs : pc[p] = "held" /\ pc[q] = "held" => p = q

\* Processes that hold a SessionLock at the same time have locked different
\* files: drops and failed attempts can put a second file under the name, but
\* an flock that is refused never becomes a session (session_lock.rs:76-88).
HoldersApart ==
  \A p, q \in Procs :
    p # q /\ {pc[p], pc[q]} \subseteq {"write", "held", "unlinked"} => fd[p] # fd[q]

\* When every live process is out, whatever drops, crashes and refused
\* attempts came before, the next acquire is not refused: neither by the info
\* in a file left behind (session_lock.rs:51-67) nor by flock.
FreeLockCanBeTaken ==
  (\A p \in Procs : pc[p] \in {"out", "dead"})
    => /\ ~Locked
       /\ \A i \in Inodes : owner[i] = {}
=============================================================================
