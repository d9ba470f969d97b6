----------------------------- MODULE LockNesting -----------------------------
(***************************************************************************)
(* How the locks of one process nest: a branch (breezy/bzr/branch.py) over *)
(* its pack repository (breezy/bzr/pack_repo.py) over the repositories it  *)
(* is stacked on, each counting its locks, and the branch's control files  *)
(* (breezy/bzr/lockable_files.py) over a LockDir.                          *)
(*                                                                         *)
(* A call is one step: the process is single-threaded, and other processes *)
(* touch nothing of it but the lock directory of the branch, which they    *)
(* take, release and break between the calls.  Every call maps the state   *)
(* of the objects, a record, to the next one; errors are values of its     *)
(* field res.  A call is given the set F of the steps that fail in it.     *)
(***************************************************************************)
EXTENDS Naturals

CONSTANTS
  MaxHeld,       \* bound on the nested locks a caller takes on one object
  MaxFaults      \* bound on the failures of each kind

ASSUME NestingAssumption == {MaxHeld, MaxFaults} \subseteq Nat

VARIABLES
  st,      \* the objects of the process, and the lock directory of the branch
  held,    \* ghost: locks the caller has got and not yet given back
  faults   \* ghost: how often each kind of failure has happened

vars == <<st, held, faults>>

\* What may fail: saving the branch configuration, aborting a write group,
\* releasing the LockDir, locking a repository below, and reading the data of
\* the repository once those are locked.  Unlocking with a write group still
\* open, a mistake of the caller, is counted with them.
Kinds == {"save", "abort", "release", "below", "refresh", "group"}

Modes == {"none", "r", "w"}

Results == {"ok", "ReadOnlyError", "LockContention", "LockNotHeld", "LockBroken", "BzrError",
            "TransportError"}

\* A LockableFiles with its LockDir: _lock_mode, _lock_count, _transaction and
\* the _lock_held and _fake_read_lock of the LockDir.
ControlFiles == [mode : Modes, count : Nat, txn : BOOLEAN, real : BOOLEAN, fake : BOOLEAN]

Unlocked == [mode |-> "none", count |-> 0, txn |-> FALSE, real |-> FALSE, fake |-> FALSE]

\* branch and repo are the control files, wcount and txn the write lock count
\* and transaction of the repository, group its write group (the transaction
\* it was started in), fallback the read locks on the repository below, disk
\* who has the lock directory of the branch, and res how the last call ended.
\* Transactions are told apart by number, None is 0.
Objects == [branch : ControlFiles, repo : ControlFiles, wcount : Nat, txn : 0..2, group : 0..2,
            fallback : Nat, disk : {"free", "us", "other"}, res : Results]

-----------------------------------------------------------------------------
\* LockableFiles; f is "branch" or "repo".

\* LockableFiles.lock_read over LockDir.lock_read.
FilesLockRead(s, f) ==
  IF s[f].mode # "none" THEN [s EXCEPT ![f].count = @ + 1, !.res = "ok"]
  ELSE IF s[f].real \/ s[f].fake THEN [s EXCEPT !.res = "LockContention"]
  ELSE [s EXCEPT ![f].mode = "r", ![f].count = 1, ![f].txn = TRUE, ![f].fake = TRUE, !.res = "ok"]

\* LockableFiles.lock_write over LockDir.wait_lock.
FilesLockWrite(s, f) ==
  IF s[f].mode = "w" THEN [s EXCEPT ![f].count = @ + 1, !.res = "ok"]
  ELSE IF s[f].mode = "r" THEN [s EXCEPT !.res = "ReadOnlyError"]
  ELSE IF s.disk # "free" THEN [s EXCEPT !.res = "LockContention"]
  ELSE [s EXCEPT ![f].mode = "w", ![f].count = 1, ![f].txn = TRUE, ![f].real = TRUE,
                 !.disk = "us", !.res = "ok"]

\* Mutant: the lock directory stays in place.
LeaveInPlace(s, f, F) == [s EXCEPT ![f].fake = FALSE, ![f].real = FALSE, !.res = "ok"]

\* LockDir.unlock: a lock that was broken is not released; an error of confirm
\* or rename is discarded by only_raises, with the lock still held.
RealUnlock(s, f, F) ==
  IF s[f].fake THEN [s EXCEPT ![f].fake = FALSE, !.res = "ok"]
  ELSE IF ~s[f].real THEN [s EXCEPT !.res = "LockNotHeld"]
  ELSE IF "release" \in F THEN [s EXCEPT !.res = "ok"]
  ELSE IF s.disk # "us" THEN [s EXCEPT !.res = "LockBroken"]
  ELSE [s EXCEPT ![f].real = FALSE, !.disk = "free", !.res = "ok"]

\* LockableFiles.unlock; whatever the LockDir answers, the files are unlocked.
FilesUnlock(s, f, F) ==
  IF s[f].mode = "none" THEN [s EXCEPT !.res = "LockNotHeld"]
  ELSE IF s[f].count > 1 THEN [s EXCEPT ![f].count = @ - 1, !.res = "ok"]
  ELSE LET t == RealUnlock(s, f, F)
       IN  [t EXCEPT ![f].mode = "none", ![f].count = 0, ![f].txn = FALSE]

FilesLocked(s, f) == s[f].count >= 1

-----------------------------------------------------------------------------
\* PackRepository.

RepoLocked(s) == s.wcount > 0 \/ FilesLocked(s, "repo")

\* The first lock locks the repositories below and reads the pack names; an
\* error of either leaves what was done before it, the lock itself included.
\* A lock_read that fails below after it has counted is a "refresh".
LockFallback(s, locked, F) ==
  IF locked THEN s
  ELSE [s EXCEPT !.fallback = IF "below" \in F THEN @ ELSE @ + 1,
                 !.res = IF F = {} THEN @ ELSE "TransportError"]

\* PackRepository.lock_write; a new transaction is unlike any still known.
RepoLockWrite(s, F) ==
  IF s.wcount = 0 /\ RepoLocked(s) THEN [s EXCEPT !.res = "ReadOnlyError"]
  ELSE LockFallback([s EXCEPT !.wcount = @ + 1,
                              !.txn = IF s.wcount = 0 THEN (IF s.group = 1 THEN 2 ELSE 1) ELSE @,
                              !.res = "ok"],
                    RepoLocked(s), F)

\* PackRepository.lock_read.
RepoLockRead(s, F) ==
  LET t == IF s.wcount > 0 THEN [s EXCEPT !.wcount = @ + 1, !.res = "ok"]
           ELSE FilesLockRead(s, "repo")
  IN  IF t.res = "ok" THEN LockFallback(t, RepoLocked(s), F) ELSE t

\* Mutant: an open write group is forgotten about.
ForgetGroup(s) == [s EXCEPT !.wcount = 0, !.txn = 0, !.res = "BzrError"]

\* The last write lock is given up in a write group: the group is aborted, and
\* the early return forgets the repositories below.
AbortInUnlock(s) == [s EXCEPT !.group = 0, !.wcount = 0, !.txn = 0, !.res = "BzrError"]

\* Mutant: the repositories below stay locked.
KeepFallback(s) == s

\* Mutant: every unlock unlocks the repositories below.
UnlockFallbackAlways(s) == [s EXCEPT !.fallback = @ - 1]

\* The last unlock unlocks the repositories below.
UnlockFallback(s) == IF RepoLocked(s) THEN s ELSE [s EXCEPT !.fallback = @ - 1]

\* PackRepository.unlock; only_raises discards the error of a failing abort.
RepoUnlock(s, F) ==
  IF s.wcount = 1 /\ s.group # 0
  THEN IF "abort" \in F THEN [s EXCEPT !.group = 0, !.res = "BzrError"] ELSE AbortInUnlock(s)
  ELSE IF s.wcount > 0
  THEN UnlockFallback([s EXCEPT !.wcount = @ - 1, !.txn = IF s.wcount = 1 THEN 0 ELSE @,
                                !.res = "ok"])
  ELSE LET t == FilesUnlock(s, "repo", F)
       IN  IF t.res = "ok" THEN UnlockFallback(t) ELSE t

\* Repository.start_write_group.
StartGroup(s) ==
  IF s.wcount = 0 \/ s.group # 0 THEN [s EXCEPT !.res = "BzrError"]
  ELSE [s EXCEPT !.group = s.txn, !.res = "ok"]

\* Repository.commit_write_group or abort_write_group; a group that belongs to
\* another transaction is refused.
EndGroup(s) ==
  IF s.wcount = 0 \/ s.group # s.txn THEN [s EXCEPT !.res = "BzrError"]
  ELSE [s EXCEPT !.group = 0, !.res = "ok"]

-----------------------------------------------------------------------------
\* Branch.

\* Mutant: the repository stays locked when the branch cannot be.
KeepRepoLocked(s, t, tookLock) == t

\* Mutant: a nested lock that fails gives back the repository as well.
UndoAlways(s, t, tookLock) ==
  IF t.res # "ok" THEN [RepoUnlock(t, {}) EXCEPT !.res = t.res] ELSE t

\* The branch was not locked: give back the lock on the repository.
UndoRepoLock(s, t, tookLock) ==
  IF t.res # "ok" /\ tookLock THEN [RepoUnlock(t, {}) EXCEPT !.res = t.res] ELSE t

\* Branch.lock_write; an error of the repository is not caught.
BranchLockWrite(s, F) ==
  LET tookLock == ~FilesLocked(s, "branch")
      t == IF tookLock THEN RepoLockWrite(s, F) ELSE [s EXCEPT !.res = "ok"]
  IN  IF t.res # "ok" THEN t ELSE UndoRepoLock(s, FilesLockWrite(t, "branch"), tookLock)

\* Branch.lock_read.
BranchLockRead(s, F) ==
  LET tookLock == ~FilesLocked(s, "branch")
      t == IF tookLock THEN RepoLockRead(s, F) ELSE [s EXCEPT !.res = "ok"]
  IN  IF t.res # "ok" THEN t ELSE UndoRepoLock(s, FilesLockRead(t, "branch"), tookLock)

\* Branch.unlock; the last one saves the configuration first, and only_raises
\* discards the error if that fails.
BranchUnlock(s, F) ==
  IF s.branch.count = 1 /\ "save" \in F THEN [s EXCEPT !.res = "ok"]
  ELSE LET t == FilesUnlock(s, "branch", F)
       IN  IF FilesLocked(t, "branch") THEN t ELSE [RepoUnlock(t, F) EXCEPT !.res = t.res]

-----------------------------------------------------------------------------
\* A call leads to the state t, and the steps F fail in it.
Call(t, F) ==
  /\ \A k \in F : faults[k] < MaxFaults
  /\ st' = t
  /\ faults' = [k \in Kinds |-> IF k \in F THEN faults[k] + 1 ELSE faults[k]]

\* A successful lock is one more to be given back.
Counted(o, t) == held' = [held EXCEPT ![o] = IF t.res = "ok" THEN @ + 1 ELSE @]

\* The caller locks the branch or the repository.
LockRead(o) ==
  /\ held[o] < MaxHeld
  /\ \E F \in {{}, {"below"}, {"refresh"}} :
       LET t == IF o = "branch" THEN BranchLockRead(st, F) ELSE RepoLockRead(st, F)
       IN  Call(t, F) /\ Counted(o, t)

LockWrite(o) ==
  /\ held[o] < MaxHeld
  /\ \E F \in {{}, {"below"}, {"refresh"}} :
       LET t == IF o = "branch" THEN BranchLockWrite(st, F) ELSE RepoLockWrite(st, F)
       IN  Call(t, F) /\ Counted(o, t)

\* The write group that unlock finds open.
Abandoned(t) == IF st.group # 0 /\ t.group = 0 THEN {"group"} ELSE {}

\* The caller gives back a lock it has; it never does so twice.
UnlockBranch ==
  /\ held["branch"] > 0
  /\ \E F \in SUBSET {"save", "release", "abort"} :
       LET t == BranchUnlock(st, F) IN Call(t, F \cup Abandoned(t))
  /\ held' = [held EXCEPT !["branch"] = @ - 1]

UnlockRepo ==
  /\ held["repo"] > 0
  /\ \E F \in SUBSET {"abort"} :
       LET t == RepoUnlock(st, F) IN Call(t, F \cup Abandoned(t))
  /\ held' = [held EXCEPT !["repo"] = @ - 1]

\* The caller starts or ends a write group.
UseGroup ==
  /\ st' \in {StartGroup(st), EndGroup(st)}
  /\ UNCHANGED <<held, faults>>

\* Another process takes or releases the lock of the branch.
Other ==
  /\ st.disk # "us"
  /\ st' = [st EXCEPT !.disk = IF @ = "free" THEN "other" ELSE "free"]
  /\ UNCHANGED <<held, faults>>

\* A user breaks the lock this process has.
Break ==
  /\ st.disk = "us"
  /\ st' = [st EXCEPT !.disk = "free"]
  /\ UNCHANGED <<held, faults>>

Init ==
  /\ st = [branch |-> Unlocked, repo |-> Unlocked, wcount |-> 0, txn |-> 0, group |-> 0,
           fallback |-> 0, disk |-> "free", res |-> "ok"]
  /\ held = [o \in {"branch", "repo"} |-> 0]
  /\ faults = [k \in Kinds |-> 0]

Next ==
  \/ \E o \in {"branch", "repo"} : LockRead(o) \/ LockWrite(o)
  \/ UnlockBranch
  \/ UnlockRepo
  \/ UseGroup
  \/ Other
  \/ Break

Spec == Init /\ [][Next]_vars

-----------------------------------------------------------------------------
\* Properties.

\* The state of the objects has its type: no count goes below zero when locks
\* fail, are broken or are given back in any order (LockableFiles, PackRepository).
TypeOK ==
  /\ st \in Objects
  /\ held \in [{"branch", "repo"} -> 0..MaxHeld]
  /\ faults \in [Kinds -> 0..MaxFaults]

\* Whatever fails, no object is locked less often than its callers believe, a
\* locked branch accounting for one lock of its repository; and it is locked
\* more often by no more than the failures that leave a lock behind: of the
\* branch, a failing save in its last unlock; of the repository, a failing
\* abort in its last unlock, and a first lock that fails below or in reading
\* the pack names, having been counted.  So a refused lock leaves the counts as
\* they were (Branch.lock_write, unlock, PackRepository.lock_write, unlock).
CountsAgree ==
  LET locks == held["repo"] + (IF st.branch.count > 0 THEN 1 ELSE 0)
  IN  /\ st.branch.count \in held["branch"] .. held["branch"] + faults["save"]
      /\ st.wcount + st.repo.count
           \in locks .. locks + faults["abort"] + faults["below"] + faults["refresh"]

\* The lock directory of the branch outlives the write lock of its control
\* files only if it could not be released: a refused lock, a broken one, a
\* failing save or abort or a first lock that fails in the repository never
\* leave it behind; and its LockDir knows that it is held (LockableFiles.unlock,
\* LockDir.unlock).
NoPhysicalLeak ==
  st.disk = "us" => st.branch.real /\ (st.branch.mode = "w" \/ faults["release"] > 0)

\* While the branch is locked, so is its repository, and for writing if the
\* branch is (Branch.lock_write, lock_read and unlock).
RepositoryCoversBranch ==
  /\ st.branch.mode # "none" => RepoLocked(st)
  /\ st.branch.mode = "w" => st.wcount > 0

\* A write group is open only in the write lock it was started in
\* (Repository.start_write_group, PackRepository.unlock).
GroupInItsLock == st.group # 0 => st.wcount > 0 /\ st.group = st.txn

\* The repositories below are locked while the repository is, unless locking
\* them failed, and no longer and no more than once, but for one lock left
\* behind by every write group that unlock found open (PackRepository.lock_read,
\* lock_write, unlock).
FallbackFollows ==
  LET locks == IF RepoLocked(st) THEN 1 ELSE 0
  IN  /\ st.fallback <= locks + faults["group"]
      /\ faults["below"] = 0 => st.fallback >= locks
=============================================================================
