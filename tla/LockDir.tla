------------------------------- MODULE LockDir -------------------------------
(***************************************************************************)
(* The on-disk write lock of Breezy (breezy/lockdir.py).                   *)
(*                                                                         *)
(* A lock is the directory "held" inside the lock's own directory; it is   *)
(* taken by renaming a private pending directory onto that name and given  *)
(* up by renaming it away and deleting it.  Each process has one LockDir   *)
(* object.  Every call on the Transport is one atomic step and the local   *)
(* assignments that follow it belong to that step, so two processes may    *)
(* interleave between any two transport calls, exactly as they do on a     *)
(* shared file system.  A process may die between any two of its steps.    *)
(*                                                                         *)
(* A directory is named by the nonce of the attempt that made it.  The     *)
(* nonce is random in the code; here an attempt picks one that nothing     *)
(* refers to any more, so a finite set of nonces serves endless attempts.  *)
(***************************************************************************)
EXTENDS Naturals

CONSTANTS
  Proc,        \* processes that use the lock
  K,           \* nonces a process can draw from (bounds the model only)
  Host,        \* Host[p]: the machine and user the info file of p declares
  StealDead,   \* the locks.steal_dead setting
  MovesInto,   \* rename onto an existing directory may move into it and succeed
  InfoLoss,    \* a machine crash may leave the info file empty or corrupt
  Breakers,    \* processes whose user runs break-lock
  TokenUsers,  \* processes whose caller passes lock tokens on
  None, Empty, Corrupt  \* what an info file that is no nonce reads as

Nonce == Proc \X (1..K)

PidOf(n) == n[1]

Info == Nonce \cup {Empty, Corrupt}

ASSUME LockDirAssumption ==
  /\ K \in Nat
  /\ {StealDead, MovesInto, InfoLoss} \subseteq BOOLEAN
  /\ Breakers \subseteq Proc
  /\ TokenUsers \subseteq Proc
  /\ None \notin Info
  /\ Empty # Corrupt
  /\ {Empty, Corrupt} \cap Nonce = {}

VARIABLES
  held,      \* the attempt whose directory is named "held", or None
  info,      \* what held/info reads as, None when there is no such file
  junk,      \* pending directories a buggy rename moved inside held
  pend,      \* pending directories (RANDOM.tmp) on disk
  alive,     \* processes that have not died
  pc,        \* where each process is inside its current LockDir call
  lock_held, \* LockDir._lock_held
  via_token, \* LockDir._locked_via_token
  fake_read, \* LockDir._fake_read_lock
  nonce,     \* LockDir.nonce
  seen,      \* the holder info this process last peeked and acts upon
  aside,     \* the directory this process has moved aside and is deleting
  errand,    \* why force_break runs: to take the lock, or for break-lock
  ret,       \* the exception, if any, the current call is going to raise
  user,      \* what the caller (LockableFiles) thinks it has
  robbed     \* history: the lock this process holds was removed by another

disk  == <<held, info, junk, pend>>
flags == <<lock_held, via_token, fake_read>>
vars  == <<disk, alive, pc, flags, nonce, seen, aside, errand, ret, user, robbed>>

NoDir == [dir |-> None, info |-> None, junk |-> {}]

\* Program points of attempt_lock and wait_lock.
Attempting == {"put", "rename", "contend", "decide", "rmpend", "wait", "verify"}
\* Program points of force_break and force_break_corrupt.
Breaking == {"fbpeek", "fbrename", "fbcheck", "fbrmdir", "fcrename", "fccheck"}
Unlocking == {"urename", "udelete"}

Returns == {"ok", "LockContention", "LockCorrupt", "LockFailed", "LockBroken",
            "LockNotHeld", "LockBreakMismatch", "NoSuchFile", "AssertionError",
            "DirectoryNotEmpty", "AttributeError", "TokenMismatch", "suppressed"}

-----------------------------------------------------------------------------
\* Helpers.

\* LockDir.peek: None without a held/info file, LockCorrupt raised as Corrupt.
Peek == info

\* Mutant: the pid is not looked up.
IsSameHost(p, n) == n \in Nonce /\ Host[PidOf(n)] = Host[p]

\* LockHeldInfo.is_lock_holder_known_dead, as seen by p: same machine and
\* user, and no process with that pid.
IsKnownDead(p, n) ==
  /\ n \in Nonce
  /\ Host[PidOf(n)] = Host[p]
  /\ PidOf(n) \notin alive

\* Nothing on disk or in the memory of a process refers to n.
Unused(n) ==
  /\ n \notin {held, info} \cup junk \cup pend
  /\ \A q \in Proc : /\ n \notin {nonce[q], seen[q], aside[q].dir}
                     /\ n \notin aside[q].junk

\* transport.rename(held, tmpname): the whole directory goes, whoever made it.
\* Everyone else who holds the lock through that directory has lost it.
MoveHeldAside(p) ==
  /\ aside' = [aside EXCEPT ![p] = [dir |-> held, info |-> info, junk |-> junk]]
  /\ held' = None
  /\ info' = None
  /\ junk' = {}
  /\ robbed' = [q \in Proc |-> robbed[q] \/ (q # p /\ lock_held[q] /\ nonce[q] = held)]

\* The directory p moved aside is gone, or abandoned under a name that nothing
\* looks at again.
DropAside(p) == aside' = [aside EXCEPT ![p] = NoDir]

Goto(p, point) == pc' = [pc EXCEPT ![p] = point]

\* The call of p ends with r.
Return(p, r) ==
  /\ Goto(p, "idle")
  /\ ret' = [ret EXCEPT ![p] = r]

\* force_break ends with r: break_lock reports it; an attempt to take the lock
\* renames again when the break went well and otherwise removes its pending
\* directory and raises r.
ForceBreakEnds(p, r) ==
  IF errand[p] = "break"
  THEN Return(p, r)
  ELSE /\ Goto(p, IF r = "ok" THEN "rename" ELSE "rmpend")
       /\ ret' = [ret EXCEPT ![p] = r]

\* Mutant: the pending directory stays.
KeepPending(p) == pend

\* _remove_pending_dir deletes the info file of the attempt and its directory.
WithoutPending(p) == pend \ {nonce[p]}

\* Mutant: any lock in place will do.
IsAnyones(p) == Peek # None

\* The lock p finds in place bears the nonce of p (_attempt_lock, confirm).
IsOurs(p) == Peek = nonce[p]

-----------------------------------------------------------------------------
\* Taking the lock: wait_lock, attempt_lock, _attempt_lock.

\* _create_pending_dir: mkdir RANDOM.tmp, then draw the nonce of this attempt.
CreatePendingDir(p) ==
  \E k \in 1..K :
    /\ Unused(<<p, k>>)
    /\ nonce' = [nonce EXCEPT ![p] = <<p, k>>]
    /\ pend' = pend \cup {<<p, k>>}
    /\ Goto(p, "put")

\* lock_write() without a token, up to the mkdir of the first attempt.
LockWrite(p) ==
  /\ pc[p] = "idle"
  /\ user[p] = "free"
  /\ ~fake_read[p]
  /\ CreatePendingDir(p)
  /\ errand' = [errand EXCEPT ![p] = "lock"]
  /\ ret' = [ret EXCEPT ![p] = "ok"]
  /\ UNCHANGED <<held, info, junk, alive, flags, seen, aside, user, robbed>>

\* put_bytes_non_atomic of the info file into the pending directory.
PutInfo(p) ==
  /\ pc[p] = "put"
  /\ Goto(p, "rename")
  /\ UNCHANGED <<disk, alive, flags, nonce, seen, aside, errand, ret, user, robbed>>

\* transport.rename of the pending directory onto "held".
RenamePending(p) ==
  /\ pc[p] = "rename"
  /\ \/ /\ held = None
        /\ held' = nonce[p]
        /\ info' = nonce[p]
        /\ pend' = pend \ {nonce[p]}
        /\ Goto(p, "verify")
        /\ UNCHANGED junk
     \/ /\ held # None
        /\ MovesInto
        /\ junk' = junk \cup {nonce[p]}
        /\ pend' = pend \ {nonce[p]}
        /\ Goto(p, "verify")
        /\ UNCHANGED <<held, info>>
     \/ /\ held # None
        /\ Goto(p, "contend")
        /\ UNCHANGED <<held, info, junk, pend>>
  /\ UNCHANGED <<alive, flags, nonce, seen, aside, errand, ret, user, robbed>>

\* The rename failed: peek at the other holder.  An unreadable info file
\* raises LockCorrupt from here, past the removal of the pending directory.
PeekOther(p) ==
  /\ pc[p] = "contend"
  /\ IF Peek = Corrupt
     THEN /\ Return(p, "LockCorrupt")
          /\ UNCHANGED seen
     ELSE /\ seen' = [seen EXCEPT ![p] = Peek]
          /\ Goto(p, "decide")
          /\ UNCHANGED ret
  /\ UNCHANGED <<disk, alive, flags, nonce, aside, errand, user, robbed>>

\* Mutant: the lock of a dead process is tried again, but not broken.
RetryWithoutBreak(p) ==
  /\ pc[p] = "decide"
  /\ IF IsKnownDead(p, seen[p]) /\ StealDead
     THEN Goto(p, "rename") /\ UNCHANGED ret
     ELSE Goto(p, "rmpend") /\ ret' = [ret EXCEPT ![p] = "LockContention"]
  /\ UNCHANGED <<disk, alive, flags, nonce, seen, aside, errand, user, robbed>>

\* _handle_lock_contention: steal the lock of a dead process or give up.
HandleLockContention(p) ==
  /\ pc[p] = "decide"
  /\ IF IsKnownDead(p, seen[p]) /\ StealDead
     THEN IF lock_held[p]
          THEN Goto(p, "rmpend") /\ ret' = [ret EXCEPT ![p] = "AssertionError"]
          ELSE Goto(p, "fbpeek") /\ UNCHANGED ret
     ELSE Goto(p, "rmpend") /\ ret' = [ret EXCEPT ![p] = "LockContention"]
  /\ UNCHANGED <<disk, alive, flags, nonce, seen, aside, errand, user, robbed>>

\* _remove_pending_dir, then the exception goes on to wait_lock, which goes
\* round again on LockContention and lets everything else through.
RemovePendingDir(p) ==
  /\ pc[p] = "rmpend"
  /\ pend' = WithoutPending(p)
  /\ Goto(p, IF ret[p] = "LockContention" THEN "wait" ELSE "idle")
  /\ UNCHANGED <<held, info, junk, alive, flags, nonce, seen, aside, errand,
                 ret, user, robbed>>

\* wait_lock peeks for its report, sleeps for a poll interval and tries again.
Poll(p) ==
  /\ pc[p] = "wait"
  /\ Peek # Corrupt
  /\ CreatePendingDir(p)
  /\ ret' = [ret EXCEPT ![p] = "ok"]
  /\ UNCHANGED <<held, info, junk, alive, flags, seen, aside, errand, user, robbed>>

\* wait_lock gives up: the deadline or max_attempts is reached, or the peek
\* for its report finds a corrupt info file.
GiveUp(p) ==
  /\ pc[p] = "wait"
  /\ Return(p, IF Peek = Corrupt THEN "LockCorrupt" ELSE "LockContention")
  /\ UNCHANGED <<disk, alive, flags, nonce, seen, aside, errand, user, robbed>>

\* After a rename that reported success, look who really holds the lock.
VerifyLock(p) ==
  /\ pc[p] = "verify"
  /\ IF IsOurs(p)
     THEN /\ Return(p, "ok")
          /\ lock_held' = [lock_held EXCEPT ![p] = TRUE]
          /\ user' = [user EXCEPT ![p] = "write"]
          /\ robbed' = [robbed EXCEPT ![p] = FALSE]
     ELSE /\ CASE Peek = None    -> Return(p, "LockFailed")
               [] Peek = Corrupt -> Return(p, "LockCorrupt")
               [] OTHER          -> /\ Goto(p, "wait")
                                    /\ ret' = [ret EXCEPT ![p] = "LockContention"]
          /\ UNCHANGED <<lock_held, user, robbed>>
  /\ UNCHANGED <<disk, alive, via_token, fake_read, nonce, seen, aside, errand>>

-----------------------------------------------------------------------------
\* Releasing the lock.

\* unlock() of a write lock, up to and including confirm().  Only LockNotHeld
\* and LockBroken come out of unlock; any other error is logged and dropped.
\* In every failing case the flag _lock_held keeps its value.
Unlock(p) ==
  /\ pc[p] = "idle"
  /\ user[p] = "write"
  /\ IF lock_held[p] /\ ~via_token[p] /\ IsOurs(p)
     THEN /\ Goto(p, "urename")
          /\ ret' = [ret EXCEPT ![p] = "ok"]
          /\ UNCHANGED <<lock_held, via_token, user>>
     ELSE /\ user' = [user EXCEPT ![p] = "free"]
          /\ IF lock_held[p] /\ via_token[p]
             THEN /\ lock_held' = [lock_held EXCEPT ![p] = FALSE]
                  /\ via_token' = [via_token EXCEPT ![p] = FALSE]
                  /\ Return(p, "ok")
             ELSE /\ Return(p, CASE ~lock_held[p]    -> "LockNotHeld"
                                 [] Peek = Corrupt   -> "suppressed"
                                 [] OTHER            -> "LockBroken")
                  /\ UNCHANGED <<lock_held, via_token>>
  /\ UNCHANGED <<disk, alive, fake_read, nonce, seen, aside, errand, robbed>>

\* transport.rename(held, releasing.RANDOM.tmp).  If the lock vanished after
\* confirm() the NoSuchFile is dropped and _lock_held stays set.
RenameReleasing(p) ==
  /\ pc[p] = "urename"
  /\ IF held = None
     THEN /\ Return(p, "suppressed")
          /\ user' = [user EXCEPT ![p] = "free"]
          /\ UNCHANGED <<held, info, junk, aside, robbed, lock_held>>
     ELSE /\ MoveHeldAside(p)
          /\ lock_held' = [lock_held EXCEPT ![p] = FALSE]
          /\ Goto(p, "udelete")
          /\ UNCHANGED <<user, ret>>
  /\ UNCHANGED <<pend, alive, via_token, fake_read, nonce, seen, errand>>

\* Delete the info file and the directory; with junk inside, the whole tree.
DeleteReleasing(p) ==
  /\ pc[p] = "udelete"
  /\ DropAside(p)
  /\ user' = [user EXCEPT ![p] = "free"]
  /\ Return(p, "ok")
  /\ UNCHANGED <<disk, alive, flags, nonce, seen, errand, robbed>>

-----------------------------------------------------------------------------
\* Breaking a lock.

\* break_lock(): peek, and ask the user.  The answer "yes" starts force_break
\* or force_break_corrupt; without a lock there is nothing to ask about.
BreakLock(p) ==
  /\ p \in Breakers
  /\ pc[p] = "idle"
  /\ user[p] = "free"
  /\ errand' = [errand EXCEPT ![p] = "break"]
  /\ \/ /\ lock_held[p]
        /\ Return(p, "AssertionError")
        /\ UNCHANGED seen
     \/ /\ ~lock_held[p]
        /\ Peek # None
        /\ seen' = [seen EXCEPT ![p] = Peek]
        /\ Goto(p, IF Peek = Corrupt THEN "fcrename" ELSE "fbpeek")
        /\ ret' = [ret EXCEPT ![p] = "ok"]
  /\ UNCHANGED <<disk, alive, flags, nonce, aside, user, robbed>>

\* force_break: is the lock still the one that was to be broken?  When it is
\* gone force_break returns None, of which break_lock asks for .lock_url.
ForceBreakPeek(p) ==
  /\ pc[p] = "fbpeek"
  /\ IF Peek = seen[p]
     THEN Goto(p, "fbrename") /\ UNCHANGED ret
     ELSE ForceBreakEnds(p, CASE Peek = None /\ errand[p] = "break" -> "AttributeError"
                              [] Peek = None    -> "ok"
                              [] Peek = Corrupt -> "LockCorrupt"
                              [] OTHER          -> "LockBreakMismatch")
  /\ UNCHANGED <<disk, alive, flags, nonce, seen, aside, errand, user, robbed>>

\* transport.rename(held, broken.RANDOM.tmp).
ForceBreakRename(p) ==
  /\ pc[p] = "fbrename"
  /\ IF held = None
     THEN ForceBreakEnds(p, "NoSuchFile") /\ UNCHANGED <<held, info, junk, aside, robbed>>
     ELSE MoveHeldAside(p) /\ Goto(p, "fbcheck") /\ UNCHANGED ret
  /\ UNCHANGED <<pend, alive, flags, nonce, seen, errand, user>>

\* Was it the right lock?  If not the wrong one stays broken, in its new place.
ForceBreakCheck(p) ==
  /\ pc[p] = "fbcheck"
  /\ IF aside[p].info = seen[p]
     THEN Goto(p, "fbrmdir") /\ UNCHANGED <<aside, ret>>
     ELSE /\ DropAside(p)
          /\ ForceBreakEnds(p, IF aside[p].info = Corrupt
                               THEN "LockCorrupt" ELSE "LockBreakMismatch")
  /\ UNCHANGED <<held, info, junk, pend, alive, flags, nonce, seen, errand, user, robbed>>

\* Delete the info file, then rmdir, which fails on a directory with junk.
ForceBreakRmdir(p) ==
  /\ pc[p] = "fbrmdir"
  /\ DropAside(p)
  /\ ForceBreakEnds(p, IF aside[p].junk = {} THEN "ok" ELSE "DirectoryNotEmpty")
  /\ UNCHANGED <<held, info, junk, pend, alive, flags, nonce, seen, errand, user, robbed>>

\* force_break_corrupt renames without another look at the info file.
ForceBreakCorruptRename(p) ==
  /\ pc[p] = "fcrename"
  /\ IF held = None
     THEN Return(p, "NoSuchFile") /\ UNCHANGED <<held, info, junk, aside, robbed>>
     ELSE MoveHeldAside(p) /\ Goto(p, "fccheck") /\ UNCHANGED ret
  /\ UNCHANGED <<pend, alive, flags, nonce, seen, errand, user>>

\* It compares the bytes of the info file afterwards.
ForceBreakCorruptCheck(p) ==
  /\ pc[p] = "fccheck"
  /\ IF aside[p].info = seen[p]
     THEN Goto(p, "fbrmdir") /\ UNCHANGED <<aside, ret>>
     ELSE DropAside(p) /\ Return(p, "LockBreakMismatch")
  /\ UNCHANGED <<held, info, junk, pend, alive, flags, nonce, seen, errand, user, robbed>>

-----------------------------------------------------------------------------
\* Shared "read locks" and tokens.

\* lock_read(): a flag in memory, refused while the object holds something.
LockRead(p) ==
  /\ pc[p] = "idle"
  /\ user[p] = "free"
  /\ IF lock_held[p] \/ fake_read[p]
     THEN Return(p, "LockContention") /\ UNCHANGED <<fake_read, user>>
     ELSE /\ fake_read' = [fake_read EXCEPT ![p] = TRUE]
          /\ user' = [user EXCEPT ![p] = "read"]
          /\ Return(p, "ok")
  /\ UNCHANGED <<disk, alive, lock_held, via_token, nonce, seen, aside, errand, robbed>>

\* unlock() while the read flag is set.
UnlockRead(p) ==
  /\ pc[p] = "idle"
  /\ fake_read[p]
  /\ fake_read' = [fake_read EXCEPT ![p] = FALSE]
  /\ user' = [user EXCEPT ![p] = "free"]
  /\ Return(p, "ok")
  /\ UNCHANGED <<disk, alive, lock_held, via_token, nonce, seen, aside, errand, robbed>>

\* Mutant: a token is taken while any lock is in place.
AcceptToken(tok) == Peek # None

\* validate_token: the lock in place bears the token.
ValidateToken(tok) == Peek = tok

\* lock_write(token): validate_token, then adopt the lock that is in place.
LockWriteToken(p, tok) ==
  /\ p \in TokenUsers
  /\ pc[p] = "idle"
  /\ user[p] = "free"
  /\ IF ValidateToken(tok)
     THEN /\ nonce' = [nonce EXCEPT ![p] = tok]
          /\ lock_held' = [lock_held EXCEPT ![p] = TRUE]
          /\ via_token' = [via_token EXCEPT ![p] = TRUE]
          /\ user' = [user EXCEPT ![p] = "write"]
          /\ robbed' = [robbed EXCEPT ![p] = FALSE]
          /\ Return(p, "ok")
     ELSE /\ Return(p, IF Peek = Corrupt THEN "LockCorrupt" ELSE "TokenMismatch")
          /\ UNCHANGED <<nonce, lock_held, via_token, user, robbed>>
  /\ UNCHANGED <<disk, alive, fake_read, seen, aside, errand>>

\* leave_in_place() and dont_leave_in_place().
LeaveInPlace(p, flag) ==
  /\ p \in TokenUsers
  /\ pc[p] = "idle"
  /\ user[p] = "write"
  /\ via_token' = [via_token EXCEPT ![p] = flag]
  /\ UNCHANGED <<disk, alive, pc, lock_held, fake_read, nonce, seen, aside, errand,
                 ret, user, robbed>>

-----------------------------------------------------------------------------
\* Failures.

\* The process is killed and its memory is gone.  Nothing it left on disk
\* changes, except that after a machine crash the info file it wrote may be
\* empty or full of rubbish.
Crash(p) ==
  /\ alive' = alive \ {p}
  /\ info' \in {info} \cup (IF InfoLoss /\ held # None /\ PidOf(held) = p
                           THEN {Empty, Corrupt} ELSE {})
  /\ Return(p, "ok")
  /\ lock_held' = [lock_held EXCEPT ![p] = FALSE]
  /\ via_token' = [via_token EXCEPT ![p] = FALSE]
  /\ fake_read' = [fake_read EXCEPT ![p] = FALSE]
  /\ nonce' = [nonce EXCEPT ![p] = None]
  /\ seen' = [seen EXCEPT ![p] = None]
  /\ DropAside(p)
  /\ errand' = [errand EXCEPT ![p] = "lock"]
  /\ user' = [user EXCEPT ![p] = "free"]
  /\ robbed' = [robbed EXCEPT ![p] = FALSE]
  /\ UNCHANGED <<held, junk, pend>>

-----------------------------------------------------------------------------
Init ==
  /\ held = None
  /\ info = None
  /\ junk = {}
  /\ pend = {}
  /\ alive = Proc
  /\ pc = [p \in Proc |-> "idle"]
  /\ lock_held = [p \in Proc |-> FALSE]
  /\ via_token = [p \in Proc |-> FALSE]
  /\ fake_read = [p \in Proc |-> FALSE]
  /\ nonce = [p \in Proc |-> None]
  /\ seen = [p \in Proc |-> None]
  /\ aside = [p \in Proc |-> NoDir]
  /\ errand = [p \in Proc |-> "lock"]
  /\ ret = [p \in Proc |-> "ok"]
  /\ user = [p \in Proc |-> "free"]
  /\ robbed = [p \in Proc |-> FALSE]

\* A step inside a call that has begun, other than giving up the wait.
Continue(p) ==
  \/ PutInfo(p) \/ RenamePending(p) \/ PeekOther(p) \/ HandleLockContention(p)
  \/ RemovePendingDir(p) \/ Poll(p) \/ VerifyLock(p)
  \/ RenameReleasing(p) \/ DeleteReleasing(p)
  \/ ForceBreakPeek(p) \/ ForceBreakRename(p) \/ ForceBreakCheck(p)
  \/ ForceBreakRmdir(p) \/ ForceBreakCorruptRename(p) \/ ForceBreakCorruptCheck(p)

\* A call made by the owner of the LockDir object.
Call(p) ==
  \/ LockWrite(p) \/ Unlock(p) \/ BreakLock(p) \/ LockRead(p) \/ UnlockRead(p)
  \/ \E tok \in Nonce : LockWriteToken(p, tok)
  \/ \E flag \in BOOLEAN : LeaveInPlace(p, flag)

Next == \E p \in alive : Call(p) \/ Continue(p) \/ GiveUp(p) \/ Crash(p)

Spec == Init /\ [][Next]_vars

\* A live process goes on with the call it is in, and wait_lock, whose deadline
\* is fixed when it starts, does not go round its loop for ever.
FairSpec ==
  /\ Spec
  /\ \A p \in Proc : WF_vars(p \in alive /\ Continue(p)) /\ SF_vars(p \in alive /\ GiveUp(p))

-----------------------------------------------------------------------------
\* Properties.

\* Every variable has its type (LockDir.__init__ and the assignments to self).
TypeOK ==
  /\ held \in Nonce \cup {None}
  /\ info \in Info \cup {None}
  /\ junk \subseteq Nonce
  /\ pend \subseteq Nonce
  /\ alive \subseteq Proc
  /\ pc \in [Proc -> {"idle"} \cup Attempting \cup Breaking \cup Unlocking]
  /\ lock_held \in [Proc -> BOOLEAN]
  /\ via_token \in [Proc -> BOOLEAN]
  /\ fake_read \in [Proc -> BOOLEAN]
  /\ nonce \in [Proc -> Nonce \cup {None}]
  /\ seen \in [Proc -> Info \cup {None}]
  /\ aside \in [Proc -> [dir : Nonce \cup {None}, info : Info \cup {None}, junk : SUBSET Nonce]]
  /\ errand \in [Proc -> {"lock", "break"}]
  /\ ret \in [Proc -> Returns]
  /\ user \in [Proc -> {"free", "write", "read"}]
  /\ robbed \in [Proc -> BOOLEAN]

\* p is between a lock_write that succeeded and its unlock.
Holding(p) == lock_held[p] /\ user[p] = "write"

\* A process between lock_write and unlock, whose lock nobody has removed, is
\* backed by the directory of its own nonce, through every interleaving of
\* attempts, unlocks, breaks, steals, token users and renames that move into
\* held (the read-back at the end of _attempt_lock, validate_token).
HolderBacked == \A p \in Proc : Holding(p) /\ ~robbed[p] => held = nonce[p]

\* Where nobody breaks locks and no token is passed on, at most one process at a
\* time is between lock_write and unlock; if locks are stolen this is about live
\* processes (_attempt_lock, unlock).
MutualExclusion ==
  Breakers = {} /\ TokenUsers = {} =>
    \A p, q \in (IF StealDead THEN alive ELSE Proc) : Holding(p) /\ Holding(q) => p = q

\* Without user intervention a live holder never loses its lock, with
\* locks.steal_dead set as well (is_lock_holder_known_dead, force_break).
LiveHolderKeepsLock ==
  Breakers = {} => \A p \in alive : Holding(p) => held = nonce[p]

\* A pending directory belongs to an attempt that is still going on or to a
\* process that died: an attempt that fails, by contention, a failed steal
\* or a timeout, leaves no mess as long as info files are readable
\* (_attempt_lock, _remove_pending_dir).
FailedAttemptLeavesNoMess ==
  ~InfoLoss => \A n \in pend : PidOf(n) \in alive =>
                  /\ nonce[PidOf(n)] = n
                  /\ pc[PidOf(n)] \in Attempting \cup Breaking

\* unlock renames away the lock it confirmed and no other ("gotta own it to
\* unlock").
UnlockTakesOwnLock ==
  [][\A p \in Proc : RenameReleasing(p) /\ held # None => held = nonce[p]]_vars

\* Every call ends: lock_write by success, an error or the deadline, unlock and
\* break_lock by themselves; a retry loop never spins for ever (wait_lock, the
\* loop of _attempt_lock).
CallsEnd == \A p \in Proc : (pc[p] # "idle") ~> (pc[p] = "idle" \/ p \notin alive)

\* A lock whose holder died does not stay in the way of a process on the same
\* machine that tries to take it with locks.steal_dead, unless the LockDir of
\* that process still has _lock_held set after a break it noticed in unlock
\* (_handle_lock_contention).
DeadLockIsStolen ==
  \A p \in Proc : \A n \in Nonce :
    (StealDead /\ pc[p] = "rename" /\ ~lock_held[p] /\ info = n /\ IsKnownDead(p, n))
      ~> (held # n \/ p \notin alive)
=============================================================================
