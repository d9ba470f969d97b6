------------------------------ MODULE DirState ------------------------------
(***************************************************************************)
(* The dirstate file of a working tree and its locks (breezy/bzr/dirstate, *)
(* breezy/bzr/workingtree_4, crates/transport/src/fcntl-locks.rs).         *)
(*                                                                         *)
(* Whoever changes the tree has the tree's LockDir and then the write lock *)
(* of the operating system on the file; whoever reads it has only the read *)
(* lock, and yet saves the file, under a temporary write lock, if it has   *)
(* found out new hashes.  The file is written in place.  fcntl locks       *)
(* belong to a process, and closing any descriptor of a file gives up all  *)
(* the locks the process has on it; which locks its own objects hold the   *)
(* process keeps in OPEN_READ_LOCKS and OPEN_WRITE_LOCKS.                  *)
(***************************************************************************)
EXTENDS Integers

CONSTANTS
  Process,   \* processes, with one working tree object each
  Change,    \* changes of the tree: files added, removed, renamed, parents set
  Null,      \* nobody
  MaxReads,  \* bound of the count in OPEN_READ_LOCKS
  Modes      \* what is explored: one of them is chosen initially

ASSUME DirStateAssumption ==
  /\ Null \notin Process
  /\ MaxReads \in Nat
  /\ Modes \subseteq [hash : BOOLEAN, dies : BOOLEAN, fails : BOOLEAN]

VARIABLES
  mode,      \* hash: worth_saving_limit is not -1; dies: processes may die;
             \* fails: writing the file and giving the LockDir back may fail
  disk,      \* the file: its header and its dirblocks
  treeLock,  \* who has the LockDir of the tree
  os,        \* the fcntl lock of each process on the file: "-", "r" or "w"
  reads,     \* OPEN_READ_LOCKS: the count each process has for the file
  writing,   \* OPEN_WRITE_LOCKS: the processes that have an entry for it
  token,     \* DirState._lock_token: "-", "r", "w" or "t" (temporary)
  mem,       \* the dirstate in memory and its state
  aborted,   \* DirState._changes_aborted: the processes for which it is set
  pc,        \* where each process is in WorkingTree4
  saved,     \* ghost: the changes that were written to the end
  torn,      \* ghost: a process has ended with the file half written
  left       \* ghost: the processes that have left the tree's LockDir behind

vars == <<mode, disk, treeLock, os, reads, writing, token, mem, aborted, pc, saved, torn, left>>

-----------------------------------------------------------------------------
\* The file holds all changes ever saved, in its header (parents, number of
\* entries) and in its dirblocks; save rewrites the one and then the other.
Image == [header : SUBSET Change, blocks : SUBSET Change]

NotInMemory == [header |-> {}, blocks |-> {}, state |-> "not in memory"]

\* The states of a dirstate that is in memory.
Loaded == {"unmodified", "hash modified", "modified"}

Others(p) == Process \ {p}

\* Mutant: F_RDLCK.
SharedWriteLock(p) == \A q \in Others(p) : os[q] # "w"

\* fcntl(F_SETLK) with F_WRLCK is granted,
CanWriteLock(p) == \A q \in Others(p) : os[q] = "-"

\* Mutant: the lock is not asked for.
ReadUnlocked(p) == TRUE

\* and with F_RDLCK.
CanReadLock(p) == \A q \in Others(p) : os[q] # "w"

\* F_UNLCK, and closing a descriptor of the file.
Unlocked(p) == [os EXCEPT ![p] = "-"]

-----------------------------------------------------------------------------
\* WorkingTree4.lock_read.  A lock that is refused stays counted.
LockRead(p) ==
  /\ pc[p] = "idle"
  /\ reads[p] < MaxReads
  /\ reads' = [reads EXCEPT ![p] = @ + 1]
  /\ IF CanReadLock(p)
     THEN /\ os' = [os EXCEPT ![p] = "r"]
          /\ token' = [token EXCEPT ![p] = "r"]
          /\ pc' = [pc EXCEPT ![p] = "open"]
     ELSE UNCHANGED <<os, token, pc>>
  /\ UNCHANGED <<mode, disk, treeLock, writing, mem, aborted, saved, torn, left>>

\* WorkingTree4._lock_self_write: the tree's LockDir first,
LockTree(p) ==
  /\ pc[p] = "idle"
  /\ treeLock = Null
  /\ treeLock' = p
  /\ pc' = [pc EXCEPT ![p] = "lock"]
  /\ UNCHANGED <<mode, disk, os, reads, writing, token, mem, aborted, saved, torn, left>>

\* then the file.  A lock that is refused by the system stays in
\* OPEN_WRITE_LOCKS, and is refused because of that ever after.
LockWrite(p) ==
  /\ pc[p] = "lock"
  /\ writing' = writing \cup {p}
  /\ IF p \notin writing /\ CanWriteLock(p)
     THEN /\ os' = [os EXCEPT ![p] = "w"]
          /\ token' = [token EXCEPT ![p] = "w"]
          /\ pc' = [pc EXCEPT ![p] = "open"]
     ELSE /\ os' = Unlocked(p)
          /\ pc' = [pc EXCEPT ![p] = "unlock tree"]
          /\ UNCHANGED token
  /\ UNCHANGED <<mode, disk, treeLock, reads, mem, aborted, saved, torn, left>>

\* _read_header.
ReadHeader(p) ==
  /\ pc[p] = "open"
  /\ mem[p].state = "not in memory"
  /\ mem' = [mem EXCEPT ![p].header = disk.header, ![p].state = "header"]
  /\ UNCHANGED <<mode, disk, treeLock, os, reads, writing, token, aborted, pc, saved, torn, left>>

\* _read_dirblocks.  The checksum is not verified: parts that do not belong
\* together are noticed by the number of entries, or not at all.
ReadBlocks(p) ==
  /\ pc[p] = "open"
  /\ mem[p].state = "header"
  /\ \/ mem' = [mem EXCEPT ![p].blocks = disk.blocks, ![p].state = "unmodified"]
     \/ /\ disk.blocks # mem[p].header
        /\ mem' = [mem EXCEPT ![p] = NotInMemory]
  /\ UNCHANGED <<mode, disk, treeLock, os, reads, writing, token, aborted, pc, saved, torn, left>>

\* _mark_modified with hashes only, which status and diff do under a read lock.
HashChanged(p) ==
  /\ pc[p] = "open"
  /\ mem[p].state = "unmodified"
  /\ mem' = [mem EXCEPT ![p].state = "hash modified"]
  /\ UNCHANGED <<mode, disk, treeLock, os, reads, writing, token, aborted, pc, saved, torn, left>>

\* _mark_modified by an operation that needs the write lock.
Modify(p, x) ==
  /\ pc[p] = "open"
  /\ token[p] = "w"
  /\ mem[p].state \in Loaded
  /\ x \notin mem[p].blocks
  /\ mem' = [mem EXCEPT ![p].blocks = @ \cup {x}, ![p].state = "modified"]
  /\ UNCHANGED <<mode, disk, treeLock, os, reads, writing, token, aborted, pc, saved, torn, left>>

\* _raise_invalid and update_basis_by_delta: a delta that does not fit has left
\* the dirstate inconsistent.
Abort(p) ==
  /\ pc[p] = "open"
  /\ token[p] = "w"
  /\ mem[p].state \in Loaded
  /\ aborted' = aborted \cup {p}
  /\ UNCHANGED <<mode, disk, treeLock, os, reads, writing, token, mem, pc, saved, torn, left>>

-----------------------------------------------------------------------------
\* Mutant: _changes_aborted is not looked at.
WorthDespiteAbort(p) == mem[p].state = "modified"

\* DirState.save goes on: _changes_aborted and _worth_saving.
WorthSaving(p) ==
  /\ p \notin aborted
  /\ mem[p].state = "modified" \/ (mem[p].state = "hash modified" /\ mode.hash)

\* WorkingTree4.unlock, save with nothing to be saved, or under the write lock.
Close(p) ==
  /\ pc[p] = "open"
  /\ WorthSaving(p) => token[p] = "w"
  /\ pc' = [pc EXCEPT ![p] = IF WorthSaving(p) THEN "save" ELSE "unlock"]
  /\ UNCHANGED <<mode, disk, treeLock, os, reads, writing, token, mem, aborted, saved, torn, left>>

\* save under a read lock: temporary_write_lock asks for one more read lock, and
\* new_lock.f replaces _state_file, whose descriptor is thereby closed.  A tree
\* whose unlock has failed is still locked, and may be unlocked again.
TemporaryWriteLock(p) ==
  /\ pc[p] \in {"open", "failed"}
  /\ token[p] = "r"
  /\ WorthSaving(p)
  /\ p \notin writing
  /\ IF reads[p] = 1 /\ CanReadLock(p)
     THEN /\ writing' = writing \cup {p}
          /\ token' = [token EXCEPT ![p] = "t"]
          /\ pc' = [pc EXCEPT ![p] = "save"]
     ELSE /\ pc' = [pc EXCEPT ![p] = "unlock"]
          /\ UNCHANGED <<writing, token>>
  /\ os' = Unlocked(p)
  /\ UNCHANGED <<mode, disk, treeLock, reads, mem, aborted, saved, torn, left>>

\* The first of the lines is written,
WriteHeader(p) ==
  /\ pc[p] = "save" \/ (pc[p] = "failed" /\ token[p] = "w")
  /\ disk' = [disk EXCEPT !.header = mem[p].blocks]
  /\ pc' = [pc EXCEPT ![p] = "write"]
  /\ UNCHANGED <<mode, treeLock, os, reads, writing, token, mem, aborted, saved, torn, left>>

\* and the last.
Written(p) ==
  /\ disk' = [disk EXCEPT !.blocks = mem[p].blocks]
  /\ saved' = IF token[p] = "t" \/ p \in aborted THEN saved ELSE saved \cup mem[p].blocks

\* The finally clause of save: restore_read_lock, which unlocks.
RestoreReadLock(p) ==
  IF token[p] = "t"
  THEN /\ os' = Unlocked(p)
       /\ token' = [token EXCEPT ![p] = "r"]
       /\ writing' = writing \ {p}
  ELSE UNCHANGED <<os, token, writing>>

\* The file is truncated, flushed and synced.
WriteBlocks(p) ==
  /\ pc[p] = "write"
  /\ Written(p)
  /\ RestoreReadLock(p)
  /\ mem' = [mem EXCEPT ![p].state = "unmodified"]
  /\ pc' = [pc EXCEPT ![p] = "unlock"]
  /\ UNCHANGED <<mode, treeLock, reads, aborted, torn, left>>

\* One of these fails, before, between or after the lines.  unlock has no try
\* around flush and save: it ends with the error and gives no lock back.
SaveFails(p) ==
  /\ mode.fails
  /\ pc[p] \in {"save", "write"}
  /\ \/ UNCHANGED <<disk, saved>>
     \/ pc[p] = "write" /\ Written(p)
  /\ RestoreReadLock(p)
  /\ pc' = [pc EXCEPT ![p] = "failed"]
  /\ UNCHANGED <<mode, treeLock, reads, mem, aborted, torn, left>>

\* Mutant: the lock on the file is kept.
UnlockTreeOnly(p) ==
  /\ pc[p] = "unlock"
  /\ token' = [token EXCEPT ![p] = "-"]
  /\ pc' = [pc EXCEPT ![p] = IF token[p] = "w" THEN "unlock tree" ELSE "idle"]
  /\ mem' = [mem EXCEPT ![p] = NotInMemory]
  /\ aborted' = aborted \ {p}
  /\ UNCHANGED <<mode, disk, treeLock, os, reads, writing, saved, torn, left>>

\* DirState.unlock; the tree forgets its dirstate.
Unlock(p) ==
  /\ pc[p] = "unlock"
  /\ os' = Unlocked(p)
  /\ IF token[p] = "r"
     THEN reads' = [reads EXCEPT ![p] = @ - 1] /\ UNCHANGED writing
     ELSE writing' = writing \ {p} /\ UNCHANGED reads
  /\ token' = [token EXCEPT ![p] = "-"]
  /\ pc' = [pc EXCEPT ![p] = IF token[p] = "w" THEN "unlock tree" ELSE "idle"]
  /\ mem' = [mem EXCEPT ![p] = NotInMemory]
  /\ aborted' = aborted \ {p}
  /\ UNCHANGED <<mode, disk, treeLock, saved, torn, left>>

\* _control_files.unlock.
UnlockTree(p) ==
  /\ pc[p] = "unlock tree"
  /\ treeLock' = Null
  /\ pc' = [pc EXCEPT ![p] = "idle"]
  /\ UNCHANGED <<mode, disk, os, reads, writing, token, mem, aborted, saved, torn, left>>

\* An error of LockDir.unlock is discarded (only_raises).
UnlockTreeFails(p) ==
  /\ mode.fails
  /\ pc[p] = "unlock tree"
  /\ left' = left \cup {p}
  /\ pc' = [pc EXCEPT ![p] = "idle"]
  /\ UNCHANGED <<mode, disk, treeLock, os, reads, writing, token, mem, aborted, saved, torn>>

\* p is between taking the tree's lock and giving it back.
HasTreeLock(p) == token[p] = "w" \/ pc[p] \in {"lock", "unlock tree"}

\* A process that has ended or died is followed by a new one, which has no locks
\* of the system.
Restart(p) ==
  /\ os' = Unlocked(p)
  /\ reads' = [reads EXCEPT ![p] = 0]
  /\ writing' = writing \ {p}
  /\ token' = [token EXCEPT ![p] = "-"]
  /\ mem' = [mem EXCEPT ![p] = NotInMemory]
  /\ aborted' = aborted \ {p}
  /\ pc' = [pc EXCEPT ![p] = "idle"]
  /\ UNCHANGED <<mode, disk, treeLock, saved>>

Exit(p) ==
  /\ pc[p] = "idle"
  /\ reads[p] # 0 \/ p \in writing
  /\ Restart(p)
  /\ UNCHANGED <<torn, left>>

\* temporary_write_lock panics if OPEN_WRITE_LOCKS has an entry left by a lock
\* that was refused.
Panic(p) ==
  /\ pc[p] = "open"
  /\ token[p] = "r"
  /\ WorthSaving(p)
  /\ p \in writing
  /\ Restart(p)
  /\ UNCHANGED <<torn, left>>

\* The process is killed, or the error of a failed unlock ends it.
Die(p) ==
  /\ (mode.dies /\ pc[p] # "idle") \/ pc[p] = "failed"
  /\ Restart(p)
  /\ torn' = (torn \/ (pc[p] \in {"write", "failed"} /\ disk.header # disk.blocks))
  /\ left' = IF HasTreeLock(p) THEN left \cup {p} ELSE left

\* A user breaks the lock of a tree that no session has any more.
BreakLock(p) ==
  /\ treeLock = p
  /\ ~HasTreeLock(p)
  /\ treeLock' = Null
  /\ left' = left \ {p}
  /\ UNCHANGED <<mode, disk, os, reads, writing, token, mem, aborted, pc, saved, torn>>

Init ==
  /\ mode \in Modes
  /\ disk = [header |-> {}, blocks |-> {}]
  /\ treeLock = Null
  /\ os = [p \in Process |-> "-"]
  /\ reads = [p \in Process |-> 0]
  /\ writing = {}
  /\ token = [p \in Process |-> "-"]
  /\ mem = [p \in Process |-> NotInMemory]
  /\ aborted = {}
  /\ pc = [p \in Process |-> "idle"]
  /\ saved = {}
  /\ torn = FALSE
  /\ left = {}

Step(p) ==
  \/ LockRead(p) \/ LockTree(p) \/ LockWrite(p)
  \/ ReadHeader(p) \/ ReadBlocks(p) \/ HashChanged(p) \/ Abort(p)
  \/ \E x \in Change : Modify(p, x)
  \/ Close(p) \/ TemporaryWriteLock(p) \/ WriteHeader(p) \/ WriteBlocks(p)
  \/ SaveFails(p) \/ Unlock(p) \/ UnlockTree(p) \/ UnlockTreeFails(p)
  \/ Exit(p) \/ Panic(p) \/ Die(p) \/ BreakLock(p)

Next == \E p \in Process : Step(p)

Spec == Init /\ [][Next]_vars

-----------------------------------------------------------------------------
\* Properties.

\* Every variable has its type; no lock is counted more often than it was taken.
TypeOK ==
  /\ mode \in Modes
  /\ disk \in Image
  /\ treeLock \in Process \cup {Null}
  /\ os \in [Process -> {"-", "r", "w"}]
  /\ reads \in [Process -> 0..MaxReads]
  /\ writing \subseteq Process
  /\ token \in [Process -> {"-", "r", "w", "t"}]
  /\ mem \in [Process -> [header : SUBSET Change, blocks : SUBSET Change,
                          state : Loaded \cup {"not in memory", "header"}]]
  /\ aborted \subseteq Process
  /\ pc \in [Process -> {"idle", "lock", "open", "save", "write", "failed", "unlock",
                      "unlock tree"}]
  /\ saved \subseteq Change
  /\ torn \in BOOLEAN
  /\ left \subseteq Process

\* Readers do not save, and nobody has left the file half written.
Plain == ~mode.hash /\ ~torn

\* No process is in the middle of a save, or has failed there.
NobodySaves == \A p \in Process : pc[p] \notin {"write", "failed"}

\* Two processes are never write-locked at once, whoever dies and whatever lock
\* is broken; and a write-locked process has its lock, and nobody reads, unless
\* a reader saves hashes (fcntl-locks.rs, WorkingTree4._lock_self_write).
WriterAlone ==
  \A p \in Process : token[p] = "w" =>
    /\ os[p] = "w"
    /\ \A q \in Others(p) : token[q] # "w" /\ (~mode.hash => token[q] = "-")

\* Between saves the file holds exactly the changes that were written to the
\* end: none is lost to another process, none of an aborted, a dead or a failed
\* session appears, and a save that failed half way is made good by the next one
\* of the session (DirState.save).
DiskIsWhatWasSaved ==
  Plain /\ NobodySaves => disk.header = disk.blocks /\ disk.blocks = saved

\* What a process has read under its lock is one whole state of the file, and
\* the last one, as long as it has the lock ("use oslocks on it to prevent
\* concurrent modification and reads", DirState.save).
MemoryIsCurrent ==
  \A p \in Process :
    Plain /\ pc[p] = "open" /\ mem[p].state \in {"unmodified", "hash modified"} =>
      mem[p].header = saved /\ mem[p].blocks = saved

\* A session has its locks until it is over, also when saving the file has failed
\* and unlock has given nothing back.  When it is over, its process has no lock of
\* the system any more, and the tree's lock is still there only where a process
\* ended in the middle of a session or LockDir.unlock failed: no refused lock and
\* no other error leaves it (WorkingTree4.lock_read, _lock_self_write and unlock).
LocksGivenBack ==
  \A p \in Process :
    /\ pc[p] = "idle" => os[p] = "-" /\ token[p] = "-"
    /\ HasTreeLock(p) => treeLock = p
    /\ treeLock = p /\ ~HasTreeLock(p) => p \in left

\* A save does not undo what another process has saved meanwhile: the file is
\* locked against "concurrent modification and reads" (DirState.save).
SavesDoNotCollide ==
  NobodySaves => saved \subseteq disk.blocks
=============================================================================
