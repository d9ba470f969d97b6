---------------------------- MODULE LockDirProofs ----------------------------
(***************************************************************************)
(* Proofs about LockDir for any set of processes, hosts and settings.      *)
(***************************************************************************)
EXTENDS LockDir, TLAPS

\* The info file says whose directory "held" is, unless it was lost, and the
\* two come and go together.
InfoOfHeld ==
  /\ held = None <=> info = None
  /\ info \in Nonce => held = info

\* An attempt to take the lock has drawn its nonce, and keeps it while it
\* breaks the lock of a dead process on the way.
AttemptHasNonce ==
  \A p \in Proc :
    pc[p] \in Attempting \/ (pc[p] \in Breaking /\ errand[p] = "lock") => nonce[p] \in Nonce

\* The types and what they rest on.
TypeInv == TypeOK /\ AttemptHasNonce

\* What a process inside a call may have in memory.
CallState ==
  \A p \in Proc :
    /\ pc[p] \in Attempting \cup Breaking => user[p] = "free"
    /\ pc[p] = "urename" => Holding(p)
    /\ Holding(p) => nonce[p] \in Nonce

\* The inductive invariant behind HolderBacked.
BackedInv == TypeInv /\ InfoOfHeld /\ CallState /\ HolderBacked

-----------------------------------------------------------------------------
\* Type correctness.

\* The initial state is well typed (LockDir.__init__).
LEMMA InitTypeInv == Init => TypeInv
  BY LockDirAssumption
  DEF Init, TypeInv, TypeOK, AttemptHasNonce, NoDir, Returns, Info, Attempting, Breaking

\* Moving "held" aside keeps the types (unlock, force_break).
LEMMA MoveTypes ==
  ASSUME TypeOK, NEW p \in Proc, MoveHeldAside(p)
  PROVE  /\ held' = None /\ info' = None /\ junk' = {}
         /\ aside' \in [Proc -> [dir : Nonce \cup {None}, info : Info \cup {None},
                                 junk : SUBSET Nonce]]
         /\ robbed' \in [Proc -> BOOLEAN]
<1>1. [dir |-> held, info |-> info, junk |-> junk]
        \in [dir : Nonce \cup {None}, info : Info \cup {None}, junk : SUBSET Nonce]
  BY DEF TypeOK
<1>2. robbed' \in [Proc -> BOOLEAN]
  BY Zenon DEF TypeOK, MoveHeldAside
<1> QED
  BY <1>1, <1>2 DEF TypeOK, MoveHeldAside

\* Forgetting the directory moved aside keeps the types.
LEMMA DropTypes ==
  ASSUME TypeOK, NEW p \in Proc, DropAside(p)
  PROVE  aside' \in [Proc -> [dir : Nonce \cup {None}, info : Info \cup {None},
                              junk : SUBSET Nonce]]
<1>1. NoDir \in [dir : Nonce \cup {None}, info : Info \cup {None}, junk : SUBSET Nonce]
  BY DEF NoDir
<1> QED
  BY <1>1 DEF TypeOK, DropAside

\* The end of force_break keeps the types and the nonce of an attempt.
LEMMA ForceBreakEndsTypes ==
  ASSUME TypeInv, NEW p \in Proc, NEW r \in Returns, ForceBreakEnds(p, r),
         pc[p] \in Breaking, UNCHANGED <<nonce, errand>>
  PROVE  /\ pc' \in [Proc -> {"idle"} \cup Attempting \cup Breaking \cup Unlocking]
         /\ ret' \in [Proc -> Returns]
         /\ AttemptHasNonce'
  BY SMTT(30) DEF TypeInv, TypeOK, AttemptHasNonce, ForceBreakEnds, Return, Goto, Attempting, Breaking

\* Every step of every call keeps the types.
LEMMA NextTypeInv == TypeInv /\ [Next]_vars => TypeInv'
<1> SUFFICES ASSUME TypeInv, [Next]_vars PROVE TypeInv'
  OBVIOUS
<1> USE DEF TypeInv
<1>1. CASE UNCHANGED vars
  BY <1>1 DEF TypeOK, AttemptHasNonce, vars, disk, flags
<1>2. ASSUME NEW p \in alive, Call(p) PROVE TypeInv'
  <2> USE DEF TypeOK, AttemptHasNonce, Goto, Return, Returns, Peek
  <2>1. CASE LockWrite(p)
    BY <2>1 DEF LockWrite, CreatePendingDir, Attempting, Breaking, flags, Nonce
  <2>2. CASE Unlock(p)
    <3>1. TypeOK'
      BY <2>2, ZenonT(60) DEF Unlock, Unlocking, disk
    <3>2. AttemptHasNonce'
      BY <2>2 DEF Unlock, Attempting, Breaking
    <3> QED
      BY <3>1, <3>2
  <2>3. CASE BreakLock(p)
    <3>1. TypeOK'
      <4>1. seen' \in [Proc -> Info \cup {None}] /\ errand' \in [Proc -> {"lock", "break"}]
        BY <2>3 DEF BreakLock
      <4>2. pc' \in [Proc -> {"idle"} \cup Attempting \cup Breaking \cup Unlocking]
        BY <2>3 DEF BreakLock, Breaking
      <4>3. ret' \in [Proc -> Returns]
        BY <2>3 DEF BreakLock
      <4> QED
        BY <2>3, <4>1, <4>2, <4>3 DEF BreakLock, disk, flags
    <3>2. AttemptHasNonce'
      BY <2>3 DEF BreakLock, Attempting, Breaking
    <3> QED
      BY <3>1, <3>2
  <2>4. CASE LockRead(p)
    BY <2>4, ZenonT(60) DEF LockRead, Attempting, Breaking, disk
  <2>5. CASE UnlockRead(p)
    BY <2>5 DEF UnlockRead, Attempting, Breaking, disk
  <2>6. ASSUME NEW tok \in Nonce, LockWriteToken(p, tok) PROVE TypeInv'
    <3>1. CASE ValidateToken(tok)
      <4>1. TypeOK'
        <5>1. nonce' \in [Proc -> Nonce \cup {None}] /\ user' \in [Proc -> {"free", "write", "read"}]
          BY <2>6, <3>1, SMTT(30) DEF LockWriteToken
        <5>2. /\ lock_held' \in [Proc -> BOOLEAN] /\ via_token' \in [Proc -> BOOLEAN]
              /\ robbed' \in [Proc -> BOOLEAN]
          BY <2>6, <3>1 DEF LockWriteToken
        <5>3. /\ pc' \in [Proc -> {"idle"} \cup Attempting \cup Breaking \cup Unlocking]
              /\ ret' \in [Proc -> Returns]
          BY <2>6, <3>1 DEF LockWriteToken
        <5> QED
          BY <2>6, <5>1, <5>2, <5>3 DEF LockWriteToken, disk
      <4>2. AttemptHasNonce'
        BY <2>6, <3>1 DEF LockWriteToken, Attempting, Breaking
      <4> QED
        BY <4>1, <4>2
    <3>2. CASE ~ValidateToken(tok)
      BY <2>6, <3>2, ZenonT(60) DEF LockWriteToken, Attempting, Breaking, disk
    <3> QED
      BY <3>1, <3>2
  <2>7. ASSUME NEW flag \in BOOLEAN, LeaveInPlace(p, flag) PROVE TypeInv'
    BY <2>7 DEF LeaveInPlace, disk
  <2> QED
    BY <1>2, <2>1, <2>2, <2>3, <2>4, <2>5, <2>6, <2>7 DEF Call
<1>3. ASSUME NEW p \in alive, Continue(p) PROVE TypeInv'
  <2> USE DEF TypeOK, Goto, Return, Returns, Peek
  <2>1. CASE PutInfo(p)
    BY <2>1 DEF PutInfo, AttemptHasNonce, Attempting, Breaking, disk, flags
  <2>2. CASE RenamePending(p)
    <3>1. nonce[p] \in Nonce
      BY <2>2 DEF RenamePending, AttemptHasNonce, Attempting
    <3>2. TypeOK'
      BY <2>2, <3>1 DEF RenamePending, Attempting, flags, Info
    <3>3. AttemptHasNonce'
      BY <2>2, <3>1 DEF RenamePending, AttemptHasNonce, Attempting, Breaking
    <3> QED
      BY <3>2, <3>3
  <2>3. CASE PeekOther(p)
    BY <2>3, ZenonT(60) DEF PeekOther, AttemptHasNonce, Attempting, Breaking, disk, flags
  <2>4. CASE HandleLockContention(p)
    BY <2>4 DEF HandleLockContention, AttemptHasNonce, Attempting, Breaking, disk, flags
  <2>5. CASE RemovePendingDir(p)
    BY <2>5 DEF RemovePendingDir, WithoutPending, AttemptHasNonce, Attempting, Breaking, flags
  <2>6. CASE Poll(p)
    BY <2>6 DEF Poll, CreatePendingDir, AttemptHasNonce, Attempting, Breaking, flags, Nonce
  <2>7. CASE VerifyLock(p)
    BY <2>7, ZenonT(60) DEF VerifyLock, AttemptHasNonce, Attempting, Breaking, disk
  <2>8. CASE RenameReleasing(p)
    <3>1. CASE held = None
      <4>1. TypeOK'
        BY <2>8, <3>1 DEF RenameReleasing
      <4>2. AttemptHasNonce'
        BY <2>8, <3>1 DEF RenameReleasing, AttemptHasNonce, Attempting, Breaking
      <4> QED
        BY <4>1, <4>2
    <3>2. CASE held # None
      BY <2>8, <3>2, MoveTypes, ZenonT(60)
      DEF RenameReleasing, AttemptHasNonce, Attempting, Breaking, Unlocking
    <3> QED
      BY <3>1, <3>2
  <2>9. CASE DeleteReleasing(p)
    BY <2>9, DropTypes DEF DeleteReleasing, AttemptHasNonce, Attempting, Breaking, disk, flags
  <2>10. CASE ForceBreakPeek(p)
    <3>1. CASE Peek = seen[p]
      BY <2>10, <3>1 DEF ForceBreakPeek, AttemptHasNonce, Attempting, Breaking, disk, flags
    <3>2. CASE Peek # seen[p]
      BY <2>10, <3>2, ForceBreakEndsTypes DEF ForceBreakPeek, Breaking, disk, flags
    <3> QED
      BY <3>1, <3>2
  <2>11. CASE ForceBreakRename(p)
    <3>1. CASE held = None
      BY <2>11, <3>1, ForceBreakEndsTypes DEF ForceBreakRename, Breaking, flags
    <3>2. CASE held # None
      BY <2>11, <3>2, MoveTypes
      DEF ForceBreakRename, AttemptHasNonce, Attempting, Breaking, flags
    <3> QED
      BY <3>1, <3>2
  <2>12. CASE ForceBreakCheck(p)
    <3>1. CASE aside[p].info = seen[p]
      BY <2>12, <3>1 DEF ForceBreakCheck, AttemptHasNonce, Attempting, Breaking, flags
    <3>2. CASE aside[p].info # seen[p]
      BY <2>12, <3>2, ForceBreakEndsTypes, DropTypes DEF ForceBreakCheck, Breaking, flags
    <3> QED
      BY <3>1, <3>2
  <2>13. CASE ForceBreakRmdir(p)
    BY <2>13, ForceBreakEndsTypes, DropTypes DEF ForceBreakRmdir, Breaking, flags
  <2>14. CASE ForceBreakCorruptRename(p)
    <3>1. CASE held = None
      BY <2>14, <3>1, ZenonT(60) DEF ForceBreakCorruptRename, AttemptHasNonce, Attempting, Breaking, flags
    <3>2. CASE held # None
      BY <2>14, <3>2, MoveTypes
      DEF ForceBreakCorruptRename, AttemptHasNonce, Attempting, Breaking, flags
    <3> QED
      BY <3>1, <3>2
  <2>15. CASE ForceBreakCorruptCheck(p)
    <3>1. CASE aside[p].info = seen[p]
      BY <2>15, <3>1 DEF ForceBreakCorruptCheck, AttemptHasNonce, Attempting, Breaking, flags
    <3>2. CASE aside[p].info # seen[p]
      BY <2>15, <3>2, DropTypes, ZenonT(60)
      DEF ForceBreakCorruptCheck, AttemptHasNonce, Attempting, Breaking, flags
    <3> QED
      BY <3>1, <3>2
  <2> QED
    BY <1>3, <2>1, <2>2, <2>3, <2>4, <2>5, <2>6, <2>7, <2>8, <2>9, <2>10, <2>11,
       <2>12, <2>13, <2>14, <2>15 DEF Continue
<1>4. ASSUME NEW p \in alive, GiveUp(p) PROVE TypeInv'
  BY <1>4 DEF GiveUp, TypeOK, AttemptHasNonce, Attempting, Breaking, Goto, Return, Returns,
              disk, flags
<1>5. ASSUME NEW p \in alive, Crash(p) PROVE TypeInv'
  BY <1>5, DropTypes DEF Crash, TypeOK, AttemptHasNonce, Attempting, Breaking, Goto, Return,
                         Returns, Info
<1> QED
  BY <1>1, <1>2, <1>3, <1>4, <1>5 DEF Next

\* Every variable keeps its type in every behaviour of the lock.
THEOREM TypeCorrect == Spec => []TypeOK
<1>1. TypeInv => TypeOK
  BY DEF TypeInv
<1> QED
  BY <1>1, InitTypeInv, NextTypeInv, PTL DEF Spec

-----------------------------------------------------------------------------
\* Whoever holds the lock is backed by its directory.

\* The steps that begin a call leave the lock directory alone.
LEMMA CallKeepsDisk ==
  ASSUME NEW p \in Proc, Call(p)
  PROVE  UNCHANGED <<held, info>>
<1>1. CASE LockWrite(p)
  BY <1>1 DEF LockWrite
<1>2. CASE Unlock(p)
  BY <1>2 DEF Unlock, disk
<1>3. CASE BreakLock(p)
  BY <1>3 DEF BreakLock, disk
<1>4. CASE LockRead(p)
  BY <1>4 DEF LockRead, disk
<1>5. CASE UnlockRead(p)
  BY <1>5 DEF UnlockRead, disk
<1>6. ASSUME NEW tok \in Nonce, LockWriteToken(p, tok) PROVE UNCHANGED <<held, info>>
  BY <1>6 DEF LockWriteToken, disk
<1>7. ASSUME NEW flag \in BOOLEAN, LeaveInPlace(p, flag) PROVE UNCHANGED <<held, info>>
  BY <1>7 DEF LeaveInPlace, disk
<1> QED
  BY <1>1, <1>2, <1>3, <1>4, <1>5, <1>6, <1>7 DEF Call

\* Inside a call the lock directory changes in four places only: the rename
\* that takes the lock and the three that move it aside.
LEMMA ContinueChangesDisk ==
  ASSUME NEW p \in Proc, Continue(p)
  PROVE  \/ UNCHANGED <<held, info>>
         \/ RenamePending(p)
         \/ MoveHeldAside(p)
  BY DEF Continue, PutInfo, PeekOther, HandleLockContention, RemovePendingDir, Poll,
         VerifyLock, RenameReleasing, DeleteReleasing, ForceBreakPeek, ForceBreakRename,
         ForceBreakCheck, ForceBreakRmdir, ForceBreakCorruptRename, ForceBreakCorruptCheck,
         disk

\* The info file keeps saying whose directory "held" is.
LEMMA NextInfoOfHeld == TypeInv /\ InfoOfHeld /\ [Next]_vars => InfoOfHeld'
<1> SUFFICES ASSUME TypeInv, InfoOfHeld, [Next]_vars PROVE InfoOfHeld'
  OBVIOUS
<1> USE DEF InfoOfHeld
<1>1. CASE UNCHANGED <<held, info>>
  BY <1>1
<1>2. ASSUME NEW p \in alive, RenamePending(p) PROVE InfoOfHeld'
  <2>1. nonce[p] \in Nonce
    BY <1>2 DEF TypeInv, TypeOK, AttemptHasNonce, RenamePending, Attempting
  <2> QED
    BY <1>2, <2>1, LockDirAssumption DEF RenamePending, Info
<1>3. ASSUME NEW p \in alive, MoveHeldAside(p) PROVE InfoOfHeld'
  BY <1>3, LockDirAssumption DEF MoveHeldAside, Info
<1>4. ASSUME NEW p \in alive, Crash(p) PROVE InfoOfHeld'
  BY <1>4, LockDirAssumption DEF Crash, Info
<1>5. ASSUME NEW p \in alive, GiveUp(p) PROVE InfoOfHeld'
  BY <1>5 DEF GiveUp, disk
<1>6. ASSUME NEW p \in alive, Call(p) PROVE InfoOfHeld'
  BY <1>1, <1>6, CallKeepsDisk DEF TypeInv, TypeOK
<1>7. ASSUME NEW p \in alive, Continue(p) PROVE InfoOfHeld'
  BY <1>1, <1>2, <1>3, <1>7, ContinueChangesDisk DEF TypeInv, TypeOK
<1> QED
  BY <1>1, <1>4, <1>5, <1>6, <1>7 DEF Next, vars, disk

\* What a process may have in memory stays as described.
LEMMA NextCallState == TypeInv /\ CallState /\ [Next]_vars => CallState'
<1> SUFFICES ASSUME TypeInv, CallState, [Next]_vars, NEW q \in Proc
             PROVE  /\ pc'[q] \in Attempting \cup Breaking => user'[q] = "free"
                    /\ pc'[q] = "urename" => Holding(q)'
                    /\ Holding(q)' => nonce'[q] \in Nonce
  BY DEF CallState
<1> DEFINE Goal == /\ pc'[q] \in Attempting \cup Breaking => user'[q] = "free"
                   /\ pc'[q] = "urename" => Holding(q)'
                   /\ Holding(q)' => nonce'[q] \in Nonce
<1> USE DEF TypeInv, TypeOK, CallState, Holding, Attempting, Breaking
<1>1. CASE UNCHANGED vars
  BY <1>1 DEF vars, flags
<1>2. ASSUME NEW p \in alive, Call(p) PROVE Goal
  <2> USE DEF Goto, Return
  <2>1. CASE LockWrite(p)
    BY <2>1 DEF LockWrite, CreatePendingDir, flags, Nonce
  <2>2. CASE Unlock(p)
    BY <2>2 DEF Unlock
  <2>3. CASE BreakLock(p)
    BY <2>3 DEF BreakLock, flags
  <2>4. CASE LockRead(p)
    BY <2>4 DEF LockRead
  <2>5. CASE UnlockRead(p)
    BY <2>5 DEF UnlockRead
  <2>6. ASSUME NEW tok \in Nonce, LockWriteToken(p, tok) PROVE Goal
    BY <2>6 DEF LockWriteToken
  <2>7. ASSUME NEW flag \in BOOLEAN, LeaveInPlace(p, flag) PROVE Goal
    BY <2>7 DEF LeaveInPlace
  <2> QED
    BY <1>2, <2>1, <2>2, <2>3, <2>4, <2>5, <2>6, <2>7 DEF Call
<1>3. ASSUME NEW p \in alive, Continue(p) PROVE Goal
  <2> USE DEF Goto, Return
  <2>1. CASE PutInfo(p)
    BY <2>1 DEF PutInfo, flags
  <2>2. CASE RenamePending(p)
    BY <2>2 DEF RenamePending, flags
  <2>3. CASE PeekOther(p)
    BY <2>3 DEF PeekOther, flags
  <2>4. CASE HandleLockContention(p)
    BY <2>4 DEF HandleLockContention, flags
  <2>5. CASE RemovePendingDir(p)
    BY <2>5 DEF RemovePendingDir, flags
  <2>6. CASE Poll(p)
    BY <2>6 DEF Poll, CreatePendingDir, flags, Nonce
  <2>7. CASE VerifyLock(p)
    BY <2>7 DEF VerifyLock, AttemptHasNonce
  <2>8. CASE RenameReleasing(p)
    BY <2>8 DEF RenameReleasing
  <2>9. CASE DeleteReleasing(p)
    BY <2>9 DEF DeleteReleasing, flags
  <2>10. CASE ForceBreakPeek(p)
    BY <2>10 DEF ForceBreakPeek, ForceBreakEnds, flags
  <2>11. CASE ForceBreakRename(p)
    BY <2>11 DEF ForceBreakRename, ForceBreakEnds, flags
  <2>12. CASE ForceBreakCheck(p)
    BY <2>12 DEF ForceBreakCheck, ForceBreakEnds, flags
  <2>13. CASE ForceBreakRmdir(p)
    BY <2>13 DEF ForceBreakRmdir, ForceBreakEnds, flags
  <2>14. CASE ForceBreakCorruptRename(p)
    BY <2>14 DEF ForceBreakCorruptRename, flags
  <2>15. CASE ForceBreakCorruptCheck(p)
    BY <2>15 DEF ForceBreakCorruptCheck, flags
  <2> QED
    BY <1>3, <2>1, <2>2, <2>3, <2>4, <2>5, <2>6, <2>7, <2>8, <2>9, <2>10, <2>11,
       <2>12, <2>13, <2>14, <2>15 DEF Continue
<1>4. ASSUME NEW p \in alive, GiveUp(p) PROVE Goal
  BY <1>4 DEF GiveUp, Goto, Return, flags
<1>5. ASSUME NEW p \in alive, Crash(p) PROVE Goal
  BY <1>5 DEF Crash, Goto, Return
<1> QED
  BY <1>1, <1>2, <1>3, <1>4, <1>5 DEF Next

\* Whoever moves the lock aside robs every other holder, and knows it.
LEMMA MoveRobsOthers ==
  ASSUME TypeOK, HolderBacked, NEW p \in Proc, MoveHeldAside(p),
         UNCHANGED <<nonce, user>>, NEW q \in Proc \ {p}, lock_held'[q] = lock_held[q],
         Holding(q)'
  PROVE  robbed'[q]
  BY DEF HolderBacked, Holding, MoveHeldAside, TypeOK

\* The backing of the holders survives every step.
LEMMA NextHolderBacked ==
  BackedInv /\ [Next]_vars => HolderBacked'
<1> SUFFICES ASSUME BackedInv, [Next]_vars, NEW q \in Proc, Holding(q)', ~robbed'[q]
             PROVE  held' = nonce'[q]
  BY DEF HolderBacked
<1> USE DEF BackedInv, TypeInv, TypeOK, Holding
<1> DEFINE Same == UNCHANGED <<held, lock_held, user, nonce, robbed>>
<1>1. Same => held' = nonce'[q]
  BY DEF HolderBacked
<1>2. ASSUME NEW p \in alive, Call(p) PROVE held' = nonce'[q]
  <2> USE DEF HolderBacked
  <2>1. CASE LockWrite(p)
    BY <2>1 DEF LockWrite, CreatePendingDir, flags
  <2>2. CASE Unlock(p)
    BY <2>2 DEF Unlock, disk
  <2>3. CASE BreakLock(p)
    BY <2>3 DEF BreakLock, disk, flags
  <2>4. CASE LockRead(p)
    BY <2>4 DEF LockRead, disk
  <2>5. CASE UnlockRead(p)
    BY <2>5 DEF UnlockRead, disk
  <2>6. ASSUME NEW tok \in Nonce, LockWriteToken(p, tok) PROVE held' = nonce'[q]
    BY <2>6 DEF LockWriteToken, ValidateToken, Peek, InfoOfHeld, disk
  <2>7. ASSUME NEW flag \in BOOLEAN, LeaveInPlace(p, flag) PROVE held' = nonce'[q]
    BY <2>7 DEF LeaveInPlace, disk
  <2> QED
    BY <1>2, <2>1, <2>2, <2>3, <2>4, <2>5, <2>6, <2>7 DEF Call
<1>3. ASSUME NEW p \in alive, Continue(p) PROVE held' = nonce'[q]
  <2>1. CASE PutInfo(p)
    BY <2>1, <1>1 DEF PutInfo, disk, flags
  <2>2. CASE RenamePending(p)
    BY <2>2, LockDirAssumption DEF RenamePending, HolderBacked, CallState, flags, Info
  <2>3. CASE PeekOther(p)
    BY <2>3, <1>1 DEF PeekOther, disk, flags
  <2>4. CASE HandleLockContention(p)
    BY <2>4, <1>1 DEF HandleLockContention, disk, flags
  <2>5. CASE RemovePendingDir(p)
    BY <2>5, <1>1 DEF RemovePendingDir, flags
  <2>6. CASE Poll(p)
    BY <2>6 DEF Poll, CreatePendingDir, HolderBacked, CallState, Attempting, flags
  <2>7. CASE VerifyLock(p)
    BY <2>7, SMTT(30) DEF VerifyLock, IsOurs, Peek, InfoOfHeld, AttemptHasNonce, Attempting,
                HolderBacked, disk
  <2>8. CASE RenameReleasing(p)
    <3>1. CASE held = None
      BY <2>8, <3>1 DEF RenameReleasing, HolderBacked
    <3>2. CASE held # None
      <4>1. q # p
        BY <2>8, <3>2 DEF RenameReleasing
      <4>2. MoveHeldAside(p) /\ UNCHANGED <<nonce, user>> /\ lock_held'[q] = lock_held[q]
        BY <2>8, <3>2, <4>1 DEF RenameReleasing
      <4> QED
        BY <4>1, <4>2, MoveRobsOthers
    <3> QED
      BY <3>1, <3>2
  <2>9. CASE DeleteReleasing(p)
    BY <2>9 DEF DeleteReleasing, HolderBacked, disk, flags
  <2>10. CASE ForceBreakPeek(p)
    BY <2>10, <1>1 DEF ForceBreakPeek, disk, flags
  <2>11. CASE ForceBreakRename(p)
    <3>1. CASE held = None
      BY <2>11, <3>1, <1>1 DEF ForceBreakRename, flags
    <3>2. CASE held # None
      <4>1. q # p
        BY <2>11 DEF ForceBreakRename, CallState, Breaking
      <4> QED
        BY <2>11, <3>2, <4>1, MoveRobsOthers DEF ForceBreakRename, flags
    <3> QED
      BY <3>1, <3>2
  <2>12. CASE ForceBreakCheck(p)
    BY <2>12, <1>1 DEF ForceBreakCheck, flags
  <2>13. CASE ForceBreakRmdir(p)
    BY <2>13, <1>1 DEF ForceBreakRmdir, flags
  <2>14. CASE ForceBreakCorruptRename(p)
    <3>1. CASE held = None
      BY <2>14, <3>1, <1>1 DEF ForceBreakCorruptRename, flags
    <3>2. CASE held # None
      <4>1. q # p
        BY <2>14 DEF ForceBreakCorruptRename, CallState, Breaking
      <4> QED
        BY <2>14, <3>2, <4>1, MoveRobsOthers DEF ForceBreakCorruptRename, flags
    <3> QED
      BY <3>1, <3>2
  <2>15. CASE ForceBreakCorruptCheck(p)
    BY <2>15, <1>1 DEF ForceBreakCorruptCheck, flags
  <2> QED
    BY <1>3, <2>1, <2>2, <2>3, <2>4, <2>5, <2>6, <2>7, <2>8, <2>9, <2>10, <2>11,
       <2>12, <2>13, <2>14, <2>15 DEF Continue
<1>4. ASSUME NEW p \in alive, GiveUp(p) PROVE held' = nonce'[q]
  BY <1>4, <1>1 DEF GiveUp, disk, flags
<1>5. ASSUME NEW p \in alive, Crash(p) PROVE held' = nonce'[q]
  BY <1>5 DEF Crash, HolderBacked
<1>6. CASE UNCHANGED vars
  BY <1>1, <1>6 DEF vars, disk, flags
<1> QED
  BY <1>2, <1>3, <1>4, <1>5, <1>6 DEF Next

\* BackedInv holds in every reachable state.
LEMMA BackedInvariant == Spec => []BackedInv
<1>1. Init => BackedInv
  BY InitTypeInv, LockDirAssumption
  DEF Init, BackedInv, InfoOfHeld, CallState, HolderBacked, Holding, Attempting, Breaking, Info
<1>2. BackedInv /\ [Next]_vars => BackedInv'
  BY NextTypeInv, NextInfoOfHeld, NextCallState, NextHolderBacked DEF BackedInv
<1> QED
  BY <1>1, <1>2, PTL DEF Spec

\* A process between lock_write and unlock whose lock nobody removed is backed
\* by the directory of its own nonce, for any number of processes, on transports
\* whose rename moves into directories, with breaks, steals, tokens and deaths
\* (the read-back in _attempt_lock, validate_token).
THEOREM HolderIsBacked == Spec => []HolderBacked
<1>1. BackedInv => HolderBacked
  BY DEF BackedInv
<1> QED
  BY <1>1, BackedInvariant, PTL

-----------------------------------------------------------------------------
\* Mutual exclusion where nobody breaks locks and tokens are not passed on.

\* No three processes share a machine and user: a dead holder has one thief.
FewPerHost ==
  \A p, q, r \in Proc : Host[p] = Host[q] /\ Host[q] = Host[r] => p = q \/ q = r \/ p = r

NobodyInterferes == Breakers = {} /\ TokenUsers = {} /\ (StealDead => FewPerHost)

\* Every nonce is its owner's, no holder has been robbed, and who is about to
\* move a lock aside in force_break moves the one of the dead process it saw.
Undisturbed(p) ==
  /\ errand[p] = "lock" /\ pc[p] \notin {"fcrename", "fccheck"}
  /\ nonce[p] \in Nonce => PidOf(nonce[p]) = p
  /\ Holding(p) => p \in alive /\ ~robbed[p]
  /\ pc[p] \in {"fbpeek", "fbrename"} => StealDead /\ p \in alive /\ IsKnownDead(p, seen[p])
  /\ pc[p] = "fbrename" => held = seen[p]

ExclusionInv == NobodyInterferes => \A p \in Proc : Undisturbed(p)

\* Two undisturbed holders are the same process: both are backed by "held".
LEMMA OneHolder ==
  ASSUME BackedInv, NEW p \in Proc, NEW q \in Proc,
         Undisturbed(p), Undisturbed(q), Holding(p), Holding(q)
  PROVE  p = q
  BY DEF BackedInv, HolderBacked, CallState, Undisturbed

\* What unlock moves aside is its own, which no thief is after: it is alive.
LEMMA ReleaseIsOwn ==
  ASSUME BackedInv, NEW p \in Proc, Undisturbed(p), pc[p] = "urename"
  PROVE  Holding(p) /\ held = nonce[p] /\ nonce[p] \in Nonce /\ PidOf(held) = p /\ p \in alive
  BY DEF BackedInv, HolderBacked, CallState, Undisturbed

\* A dead holder's lock has one thief, and that thief robs nobody alive.
LEMMA OneThief ==
  ASSUME NobodyInterferes, BackedInv, NEW p \in Proc, NEW q \in Proc,
         Undisturbed(p), Undisturbed(q), pc[p] = "fbrename"
  PROVE  /\ held = seen[p] /\ held \in Nonce
         /\ pc[q] = "fbrename" => p = q
         /\ Holding(q) => nonce[q] # held
<1>1. held = seen[p] /\ held \in Nonce /\ StealDead /\ Host[PidOf(held)] = Host[p]
      /\ PidOf(held) \notin alive /\ p \in alive
  BY DEF Undisturbed, IsKnownDead
<1>2. PidOf(held) \in Proc
  BY <1>1 DEF Nonce, PidOf
<1>3. ASSUME pc[q] = "fbrename" PROVE p = q
  <2>1. Host[PidOf(held)] = Host[q] /\ q \in alive
    BY <1>1, <1>3 DEF Undisturbed, IsKnownDead
  <2> QED
    BY <1>1, <1>2, <2>1 DEF NobodyInterferes, FewPerHost
<1>4. ASSUME Holding(q) PROVE nonce[q] # held
  BY <1>1, <1>4 DEF Undisturbed
<1> QED
  BY <1>1, <1>3, <1>4

\* Moving the lock aside leaves everybody undisturbed.
LEMMA MoveUndisturbed ==
  ASSUME NobodyInterferes, BackedInv, \A r \in Proc : Undisturbed(r), NEW p \in alive,
         RenameReleasing(p) \/ ForceBreakRename(p), NEW q \in Proc
  PROVE  Undisturbed(q)'
<1> USE DEF Goto, Return
<1>0. TypeOK /\ p \in Proc /\ Undisturbed(p) /\ Undisturbed(q) /\ None \notin Nonce
  BY LockDirAssumption DEF BackedInv, TypeInv, TypeOK, Info
<1>1. CASE RenameReleasing(p)
  <2>0. Holding(p) /\ held = nonce[p] /\ nonce[p] \in Nonce /\ PidOf(held) = p
    BY <1>0, <1>1, ReleaseIsOwn DEF RenameReleasing
  <2>1. held # None
    BY <1>0, <2>0
  <2>2. /\ MoveHeldAside(p) /\ lock_held' = [lock_held EXCEPT ![p] = FALSE]
        /\ pc' = [pc EXCEPT ![p] = "udelete"]
        /\ UNCHANGED <<user, nonce, errand, seen, alive>>
    BY <1>1, <2>1 DEF RenameReleasing
  <2>3. ~Holding(q)'
    <3>1. Holding(q)' => q # p /\ Holding(q)
      BY <1>0, <2>2 DEF Holding, TypeOK
    <3> QED
      BY <1>0, <2>0, <3>1, OneHolder
  <2>4. pc[q] # "fbrename"
    BY <1>0, <2>0 DEF Undisturbed, IsKnownDead
  <2>5. pc'[q] \in {pc[q], "udelete"} /\ pc'[q] # "fbrename"
    BY <1>0, <2>2, <2>4 DEF TypeOK
  <2>6. IsKnownDead(q, seen[q]) => IsKnownDead(q, seen[q])'
    BY <2>2 DEF IsKnownDead
  <2> QED
    BY <1>0, <2>2, <2>3, <2>5, <2>6 DEF Undisturbed
<1>2. CASE ForceBreakRename(p)
  <2>0. pc[p] = "fbrename" /\ held # None
    BY <1>0, <1>2, OneThief DEF ForceBreakRename
  <2>1. /\ MoveHeldAside(p) /\ pc' = [pc EXCEPT ![p] = "fbcheck"]
        /\ UNCHANGED <<lock_held, user, nonce, errand, seen, alive>>
    BY <1>2, <2>0 DEF ForceBreakRename, flags
  <2>2. Holding(q)' => Holding(q) /\ nonce[q] # held
    BY <1>0, <2>0, <2>1, OneThief DEF Holding
  <2>3. Holding(q)' => ~robbed'[q]
    BY <1>0, <2>1, <2>2 DEF MoveHeldAside, Undisturbed
  <2>4. pc'[q] \in {pc[q], "fbcheck"} /\ pc'[q] # "fbrename"
    <3>1. q # p => pc[q] # "fbrename"
      BY <1>0, <2>0, OneThief
    <3> QED
      BY <1>0, <2>1, <3>1 DEF TypeOK
  <2>5. IsKnownDead(q, seen[q]) => IsKnownDead(q, seen[q])'
    BY <2>1 DEF IsKnownDead
  <2> QED
    BY <1>0, <2>1, <2>2, <2>3, <2>4, <2>5 DEF Undisturbed
<1> QED
  BY <1>1, <1>2

\* Every step leaves the processes undisturbed.
LEMMA NextExclusionInv == BackedInv /\ ExclusionInv /\ [Next]_vars => ExclusionInv'
<1> SUFFICES ASSUME BackedInv, [Next]_vars, NobodyInterferes,
                    \A r \in Proc : Undisturbed(r), NEW q \in Proc
             PROVE  Undisturbed(q)'
  BY DEF ExclusionInv, NobodyInterferes
<1>0. TypeOK /\ Undisturbed(q) /\ None \notin Nonce
  BY LockDirAssumption DEF BackedInv, TypeInv, Info
<1> USE DEF Undisturbed, Holding, IsKnownDead
<1>1. UNCHANGED <<held, alive, pc, nonce, seen, errand, lock_held, user, robbed>> => Undisturbed(q)'
  BY <1>0
<1>2. ASSUME NEW p \in alive, Call(p) PROVE Undisturbed(q)'
  <2> USE <1>0 DEF TypeOK, Goto, Return
  <2>1. CASE LockWrite(p)
    BY <2>1 DEF LockWrite, CreatePendingDir, flags, Nonce, PidOf
  <2>2. CASE Unlock(p)
    BY <2>2 DEF Unlock, disk
  <2>3. CASE LockRead(p)
    BY <2>3 DEF LockRead, disk
  <2>4. CASE UnlockRead(p)
    BY <2>4 DEF UnlockRead, disk
  <2>5. p \notin Breakers /\ p \notin TokenUsers
    BY DEF NobodyInterferes
  <2> QED
    BY <1>2, <2>1, <2>2, <2>3, <2>4, <2>5
    DEF Call, BreakLock, LockWriteToken, LeaveInPlace
<1>3. ASSUME NEW p \in alive, Continue(p) PROVE Undisturbed(q)'
  <2> USE <1>0 DEF TypeOK, Goto, Return
  <2>0. p \in Proc /\ Undisturbed(p)
    OBVIOUS
  <2>1. CASE PutInfo(p)
    BY <2>1 DEF PutInfo, flags, disk
  <2>2. CASE RenamePending(p)
    <3>1. pc[q] = "fbrename" => held # None
      OBVIOUS
    <3> QED
      BY <2>2, <3>1 DEF RenamePending, flags
  <2>3. CASE PeekOther(p)
    BY <2>3 DEF PeekOther, flags, disk
  <2>4. CASE HandleLockContention(p)
    BY <2>4 DEF HandleLockContention, flags, disk
  <2>5. CASE RemovePendingDir(p)
    BY <2>5 DEF RemovePendingDir, flags
  <2>6. CASE Poll(p)
    BY <2>6 DEF Poll, CreatePendingDir, flags, Nonce, PidOf
  <2>7. CASE VerifyLock(p)
    BY <2>7 DEF VerifyLock, disk
  <2>8. CASE RenameReleasing(p) \/ ForceBreakRename(p)
    BY <2>8, MoveUndisturbed, Zenon
  <2>9. CASE DeleteReleasing(p)
    BY <2>9 DEF DeleteReleasing, flags, disk
  <2>10. CASE ForceBreakPeek(p)
    <3>1. info = seen[p] /\ seen[p] \in Nonce => held = seen[p]
      BY DEF BackedInv, InfoOfHeld
    <3> QED
      BY <2>0, <2>10, <3>1 DEF ForceBreakPeek, ForceBreakEnds, Peek, flags, disk
  <2>11. CASE ForceBreakCheck(p)
    BY <2>0, <2>11 DEF ForceBreakCheck, ForceBreakEnds, flags
  <2>12. CASE ForceBreakRmdir(p)
    BY <2>0, <2>12 DEF ForceBreakRmdir, ForceBreakEnds, flags
  <2>13. ~ForceBreakCorruptRename(p) /\ ~ForceBreakCorruptCheck(p)
    BY <2>0 DEF ForceBreakCorruptRename, ForceBreakCorruptCheck
  <2> QED
    BY <1>3, <2>1, <2>2, <2>3, <2>4, <2>5, <2>6, <2>7, <2>8, <2>9, <2>10, <2>11, <2>12, <2>13
    DEF Continue
<1>4. ASSUME NEW p \in alive, GiveUp(p) PROVE Undisturbed(q)'
  BY <1>0, <1>4 DEF GiveUp, Goto, Return, TypeOK, flags, disk
<1>5. ASSUME NEW p \in alive, Crash(p) PROVE Undisturbed(q)'
  BY <1>0, <1>5 DEF Crash, Goto, Return, TypeOK
<1>6. CASE UNCHANGED vars
  BY <1>1, <1>6 DEF vars, flags, disk
<1> QED
  BY <1>2, <1>3, <1>4, <1>5, <1>6 DEF Next

\* Nobody disturbs anybody, at any time.
LEMMA ExclusionInvariant == Spec => [](BackedInv /\ ExclusionInv)
<1>1. Init => ExclusionInv
  <2> SUFFICES ASSUME Init, NEW p \in Proc PROVE Undisturbed(p)
    BY DEF ExclusionInv
  <2>1. pc[p] = "idle" /\ nonce[p] = None /\ user[p] = "free" /\ errand[p] = "lock"
    BY DEF Init
  <2>2. nonce[p] \notin Nonce
    BY <2>1, LockDirAssumption DEF Info
  <2> QED
    BY <2>1, <2>2 DEF Undisturbed, Holding
<1> QED
  BY <1>1, NextExclusionInv, BackedInvariant, PTL DEF Spec

\* Two processes are never both between lock_write and unlock unless somebody
\* breaks locks or passes a token on, for any number of processes and on
\* transports whose rename moves into an existing directory; locks of the dead
\* may be stolen where at most two processes share a machine and user
\* (_attempt_lock, unlock, is_lock_holder_known_dead, force_break).
THEOREM LockExcludes ==
  ASSUME StealDead => FewPerHost
  PROVE  Spec => []MutualExclusion
<1>1. BackedInv /\ ExclusionInv => MutualExclusion
  <2> SUFFICES ASSUME BackedInv, ExclusionInv, Breakers = {}, TokenUsers = {},
                      NEW p \in (IF StealDead THEN alive ELSE Proc),
                      NEW q \in (IF StealDead THEN alive ELSE Proc), Holding(p), Holding(q)
               PROVE  p = q
    BY DEF MutualExclusion
  <2>1. p \in Proc /\ q \in Proc
    BY DEF BackedInv, TypeInv, TypeOK
  <2>2. Undisturbed(p) /\ Undisturbed(q)
    BY <2>1 DEF ExclusionInv, NobodyInterferes
  <2> QED
    BY <2>1, <2>2, OneHolder
<1> QED
  BY <1>1, ExclusionInvariant, PTL

\* A live process keeps the lock it has until it gives it up itself, where no
\* user breaks locks, no token is passed on, and locks of the dead are stolen
\* at most where two processes share a machine and user; with three, the second
\* thief may take the lock of the first (is_lock_holder_known_dead, force_break).
THEOREM HolderKeepsLock ==
  ASSUME TokenUsers = {}, StealDead => FewPerHost
  PROVE  Spec => []LiveHolderKeepsLock
<1>1. BackedInv /\ ExclusionInv => LiveHolderKeepsLock
  <2> SUFFICES ASSUME BackedInv, ExclusionInv, Breakers = {}, NEW p \in alive, Holding(p)
               PROVE  held = nonce[p]
    BY DEF LiveHolderKeepsLock
  <2>1. p \in Proc
    BY DEF BackedInv, TypeInv, TypeOK
  <2>2. Undisturbed(p)
    BY <2>1 DEF ExclusionInv, NobodyInterferes
  <2> QED
    BY <2>1, <2>2 DEF Undisturbed, BackedInv, HolderBacked
<1> QED
  BY <1>1, ExclusionInvariant, PTL

\* Between confirm() and the rename of unlock the lock cannot have become
\* another's, under the same conditions: unlock moves its own lock aside
\* (unlock, "gotta own it to unlock").
THEOREM UnlockTakesOwn ==
  ASSUME Breakers = {}, TokenUsers = {}, StealDead => FewPerHost
  PROVE  Spec => UnlockTakesOwnLock
<1>1. BackedInv /\ ExclusionInv
        => [\A p \in Proc : RenameReleasing(p) /\ held # None => held = nonce[p]]_vars
  <2> SUFFICES ASSUME BackedInv, ExclusionInv, NEW p \in Proc, RenameReleasing(p)
               PROVE  held = nonce[p]
    OBVIOUS
  <2>1. Undisturbed(p)
    BY DEF ExclusionInv, NobodyInterferes
  <2> QED
    BY <2>1, ReleaseIsOwn DEF RenameReleasing
<1> QED
  BY <1>1, ExclusionInvariant, PTL DEF UnlockTakesOwnLock

-----------------------------------------------------------------------------
\* Pending directories.

\* p is in an attempt whose pending directory is on disk: before the rename
\* succeeds and until it is removed, while p breaks the lock of the dead too.
Pending(p) ==
  \/ pc[p] \in {"put", "rename", "contend", "decide", "rmpend"}
  \/ pc[p] \in {"fbpeek", "fbrename", "fbcheck", "fbrmdir"} /\ errand[p] = "lock"

\* An attempt to take the lock is on its own errand.
ErrandInv == \A p \in Proc : pc[p] \in Attempting => errand[p] = "lock"

\* The info file is readable, and every pending directory of a live process is
\* that of its present attempt.
PendingInv ==
  ~InfoLoss =>
    /\ info \notin {Empty, Corrupt}
    /\ \A n \in pend : PidOf(n) \in alive => nonce[PidOf(n)] = n /\ Pending(PidOf(n))

\* What a step of p leaves of the pending directories of others.
LEMMA OthersPending ==
  ASSUME TypeOK, NEW p \in Proc, NEW n \in pend, PidOf(n) # p, PidOf(n) \in alive,
         nonce[PidOf(n)] = n, Pending(PidOf(n)),
         nonce'[PidOf(n)] = nonce[PidOf(n)], pc'[PidOf(n)] = pc[PidOf(n)],
         errand'[PidOf(n)] = errand[PidOf(n)]
  PROVE  nonce'[PidOf(n)] = n /\ Pending(PidOf(n))'
  BY DEF Pending

\* A step of p changes only what p has in memory.
LEMMA OwnMemory ==
  ASSUME TypeOK, NEW p \in alive, Call(p) \/ Continue(p) \/ GiveUp(p) \/ Crash(p),
         NEW q \in Proc \ {p}
  PROVE  nonce'[q] = nonce[q] /\ pc'[q] = pc[q] /\ errand'[q] = errand[q]
<1> USE DEF TypeOK, Goto, Return
<1>1. CASE Call(p)
  <2>1. CASE LockWrite(p) \/ BreakLock(p)
    BY <2>1 DEF LockWrite, CreatePendingDir, BreakLock
  <2>2. CASE Unlock(p) \/ LockRead(p) \/ UnlockRead(p)
    BY <2>2 DEF Unlock, LockRead, UnlockRead
  <2>3. ASSUME NEW tok \in Nonce, LockWriteToken(p, tok)
        PROVE  nonce'[q] = nonce[q] /\ pc'[q] = pc[q] /\ errand'[q] = errand[q]
    BY <2>3 DEF LockWriteToken
  <2>4. ASSUME NEW flag \in BOOLEAN, LeaveInPlace(p, flag)
        PROVE  nonce'[q] = nonce[q] /\ pc'[q] = pc[q] /\ errand'[q] = errand[q]
    BY <2>4 DEF LeaveInPlace
  <2> QED
    BY <1>1, <2>1, <2>2, <2>3, <2>4 DEF Call
<1>2. CASE Continue(p)
  BY <1>2 DEF Continue, PutInfo, RenamePending, PeekOther, HandleLockContention,
              RemovePendingDir, Poll, CreatePendingDir, VerifyLock, RenameReleasing,
              DeleteReleasing, ForceBreakPeek, ForceBreakRename, ForceBreakCheck,
              ForceBreakRmdir, ForceBreakCorruptRename, ForceBreakCorruptCheck, ForceBreakEnds
<1>3. CASE GiveUp(p) \/ Crash(p)
  BY <1>3 DEF GiveUp, Crash
<1> QED
  BY <1>1, <1>2, <1>3

\* Only lock_write, and force_break on behalf of it, start attempts.
LEMMA NextErrandInv == TypeInv /\ ErrandInv /\ [Next]_vars => ErrandInv'
<1> SUFFICES ASSUME TypeInv, ErrandInv, [Next]_vars, NEW q \in Proc, pc'[q] \in Attempting
             PROVE  errand'[q] = "lock"
  BY DEF ErrandInv
<1> USE DEF TypeInv, TypeOK, ErrandInv, Goto, Return
<1>1. CASE UNCHANGED vars
  BY <1>1 DEF vars
<1>2. ASSUME NEW p \in alive, Call(p) \/ Continue(p) \/ GiveUp(p) \/ Crash(p)
      PROVE  errand'[q] = "lock"
  <2>1. CASE q # p
    BY <1>2, <2>1, OwnMemory
  <2>2. CASE q = p
    <3>1. CASE Call(p)
      <4>1. CASE LockWrite(p)
        BY <4>1, <2>2 DEF LockWrite
      <4>2. pc'[p] \in {"idle", "urename", "fcrename", "fbpeek"} \/ LockWrite(p)
        BY <3>1 DEF Call, Unlock, BreakLock, LockRead, UnlockRead, LockWriteToken, LeaveInPlace
      <4> QED
        BY <2>2, <4>1, <4>2 DEF Attempting
    <3>2. CASE Continue(p) /\ pc[p] \in Attempting
      BY <2>2, <3>2 DEF Continue, PutInfo, RenamePending, PeekOther, HandleLockContention,
           RemovePendingDir, Poll, VerifyLock, RenameReleasing, DeleteReleasing, ForceBreakPeek,
           ForceBreakRename, ForceBreakCheck, ForceBreakRmdir, ForceBreakCorruptRename,
           ForceBreakCorruptCheck
    <3>3. CASE Continue(p) /\ pc[p] \notin Attempting
      <4>1. CASE RenameReleasing(p) \/ DeleteReleasing(p)
        BY <2>2, <4>1 DEF RenameReleasing, DeleteReleasing, Attempting
      <4>2. CASE ForceBreakPeek(p) \/ ForceBreakRename(p) \/ ForceBreakCheck(p) \/ ForceBreakRmdir(p)
        BY <2>2, <4>2 DEF ForceBreakPeek, ForceBreakRename, ForceBreakCheck, ForceBreakRmdir,
             ForceBreakEnds, Attempting
      <4>3. CASE ForceBreakCorruptRename(p) \/ ForceBreakCorruptCheck(p)
        BY <2>2, <4>3 DEF ForceBreakCorruptRename, ForceBreakCorruptCheck, Attempting
      <4> QED
        BY <3>3, <4>1, <4>2, <4>3 DEF Continue, PutInfo, RenamePending, PeekOther,
             HandleLockContention, RemovePendingDir, Poll, VerifyLock, Attempting
    <3>4. CASE GiveUp(p) \/ Crash(p)
      BY <2>2, <3>4 DEF GiveUp, Crash, Attempting
    <3> QED
      BY <1>2, <3>1, <3>2, <3>3, <3>4
  <2> QED
    BY <2>1, <2>2
<1> QED
  BY <1>1, <1>2 DEF Next

\* A step of p adds at most a pending directory of p, that of its new attempt.
LEMMA PendingGrows ==
  ASSUME TypeOK, NEW p \in alive, Call(p) \/ Continue(p) \/ GiveUp(p) \/ Crash(p),
         NEW n \in pend', n \notin pend
  PROVE  PidOf(n) = p /\ nonce'[p] = n /\ pc'[p] = "put"
<1> USE DEF TypeOK, Goto, Return
<1>0. LockWrite(p) \/ Poll(p)
  <2>1. CASE Call(p)
    BY <2>1 DEF Call, Unlock, BreakLock, LockRead, UnlockRead, LockWriteToken, LeaveInPlace, disk
  <2>2. CASE Continue(p)
    BY <2>2 DEF Continue, PutInfo, RenamePending, PeekOther, HandleLockContention,
                RemovePendingDir, WithoutPending, VerifyLock, RenameReleasing,
                DeleteReleasing, ForceBreakPeek, ForceBreakRename, ForceBreakCheck,
                ForceBreakRmdir, ForceBreakCorruptRename, ForceBreakCorruptCheck, disk
  <2>3. CASE GiveUp(p) \/ Crash(p)
    BY <2>3 DEF GiveUp, Crash, disk
  <2> QED
    BY <2>1, <2>2, <2>3
<1>1. CreatePendingDir(p)
  BY <1>0 DEF LockWrite, Poll
<1> QED
  BY <1>1 DEF CreatePendingDir, PidOf

\* An attempt of p that goes on keeps its nonce; one that ends has no pending
\* directory any more (_attempt_lock, _remove_pending_dir, wait_lock).
LEMMA AttemptCleansUp ==
  ASSUME TypeInv, ErrandInv, PendingInv, ~InfoLoss, NEW p \in alive, Call(p) \/ Continue(p) \/ GiveUp(p),
         NEW n \in pend, n \in pend', PidOf(n) = p
  PROVE  nonce'[p] = n /\ Pending(p)'
<1>0. TypeOK /\ p \in Proc /\ nonce[p] = n /\ Pending(p) /\ info # Corrupt
  BY DEF TypeInv, TypeOK, PendingInv
<1> USE DEF Pending, TypeOK, Goto
<1>1. ~Call(p) /\ ~GiveUp(p)
  BY <1>0 DEF Call, LockWrite, Unlock, BreakLock, LockRead, UnlockRead, LockWriteToken,
              LeaveInPlace, GiveUp
<1>2. CASE PutInfo(p)
  BY <1>0, <1>2 DEF PutInfo
<1>3. CASE RenamePending(p)
  BY <1>0, <1>3 DEF RenamePending
<1>4. CASE PeekOther(p)
  BY <1>0, <1>4 DEF PeekOther, Peek
<1>5. CASE HandleLockContention(p)
  BY <1>0, <1>5 DEF HandleLockContention, ErrandInv, Attempting
<1>6. CASE RemovePendingDir(p)
  BY <1>0, <1>6 DEF RemovePendingDir, WithoutPending
<1>7. CASE ForceBreakPeek(p)
  BY <1>0, <1>7 DEF ForceBreakPeek, ForceBreakEnds
<1>8. CASE ForceBreakRename(p)
  BY <1>0, <1>8 DEF ForceBreakRename, ForceBreakEnds
<1>9. CASE ForceBreakCheck(p)
  BY <1>0, <1>9 DEF ForceBreakCheck, ForceBreakEnds
<1>10. CASE ForceBreakRmdir(p)
  BY <1>0, <1>10 DEF ForceBreakRmdir, ForceBreakEnds
<1>11. /\ ~Poll(p) /\ ~VerifyLock(p) /\ ~RenameReleasing(p) /\ ~DeleteReleasing(p)
       /\ ~ForceBreakCorruptRename(p) /\ ~ForceBreakCorruptCheck(p)
  BY <1>0 DEF Poll, VerifyLock, RenameReleasing, DeleteReleasing, ForceBreakCorruptRename,
              ForceBreakCorruptCheck
<1> QED
  BY <1>1, <1>2, <1>3, <1>4, <1>5, <1>6, <1>7, <1>8, <1>9, <1>10, <1>11 DEF Continue

\* Every step keeps the pending directories accounted for.
LEMMA NextPendingInv == TypeInv /\ ErrandInv /\ PendingInv /\ [Next]_vars => PendingInv'
<1> SUFFICES ASSUME TypeInv, ErrandInv, PendingInv, [Next]_vars, ~InfoLoss
             PROVE  /\ info' \notin {Empty, Corrupt}
                    /\ \A n \in pend' : PidOf(n) \in alive' =>
                         nonce'[PidOf(n)] = n /\ Pending(PidOf(n))'
  BY DEF PendingInv
<1>0. TypeOK /\ info \notin {Empty, Corrupt}
      /\ \A n \in pend : PidOf(n) \in alive => nonce[PidOf(n)] = n /\ Pending(PidOf(n))
  BY DEF TypeInv, PendingInv
<1>1. CASE UNCHANGED vars
  BY <1>0, <1>1 DEF vars, disk, Pending
<1>2. ASSUME NEW p \in alive, Call(p) \/ Continue(p) \/ GiveUp(p) \/ Crash(p)
      PROVE  /\ info' \notin {Empty, Corrupt}
             /\ \A n \in pend' : PidOf(n) \in alive' =>
                  nonce'[PidOf(n)] = n /\ Pending(PidOf(n))'
  <2>0. p \in Proc
    BY <1>0 DEF TypeOK
  <2>1. info' \notin {Empty, Corrupt}
    <3>1. CASE Call(p)
      BY <1>0, <2>0, <3>1, CallKeepsDisk
    <3>2. CASE RenamePending(p)
      BY <1>0, <2>0, <3>2, LockDirAssumption DEF RenamePending, TypeInv, AttemptHasNonce, Attempting, Info
    <3>3. CASE MoveHeldAside(p)
      BY <3>3, LockDirAssumption DEF MoveHeldAside, Info
    <3>4. CASE GiveUp(p) \/ Crash(p)
      BY <1>0, <3>4 DEF GiveUp, Crash, disk
    <3> QED
      BY <1>0, <1>2, <2>0, <3>1, <3>2, <3>3, <3>4, ContinueChangesDisk
  <2>2. ASSUME NEW n \in pend', PidOf(n) \in alive'
        PROVE  nonce'[PidOf(n)] = n /\ Pending(PidOf(n))'
    <3>1. CASE n \notin pend
      BY <1>0, <1>2, <3>1, PendingGrows DEF Pending
    <3>2. alive' \subseteq alive /\ (Crash(p) => p \notin alive')
      BY <1>0, <1>2 DEF Call, LockWrite, Unlock, BreakLock, LockRead, UnlockRead, LockWriteToken,
           LeaveInPlace, Continue, PutInfo, RenamePending, PeekOther, HandleLockContention,
           RemovePendingDir, Poll, VerifyLock, RenameReleasing, DeleteReleasing, ForceBreakPeek,
           ForceBreakRename, ForceBreakCheck, ForceBreakRmdir, ForceBreakCorruptRename,
           ForceBreakCorruptCheck, GiveUp, Crash
    <3>3. CASE n \in pend /\ PidOf(n) = p
      <4>1. Call(p) \/ Continue(p) \/ GiveUp(p)
        BY <1>2, <2>2, <3>2, <3>3
      <4> QED
        BY <2>2, <3>3, <4>1, AttemptCleansUp
    <3>4. CASE n \in pend /\ PidOf(n) # p
      <4>1. PidOf(n) \in Proc \ {p} /\ PidOf(n) \in alive
        BY <1>0, <2>2, <3>2, <3>4 DEF TypeOK
      <4>2. /\ nonce'[PidOf(n)] = nonce[PidOf(n)] /\ pc'[PidOf(n)] = pc[PidOf(n)]
            /\ errand'[PidOf(n)] = errand[PidOf(n)]
        BY <1>0, <1>2, <4>1, OwnMemory
      <4> QED
        BY <1>0, <2>0, <3>4, <4>1, <4>2, OthersPending
    <3> QED
      BY <3>1, <3>3, <3>4
  <2> QED
    BY <2>1, <2>2
<1> QED
  BY <1>1, <1>2 DEF Next

\* For any number of processes, with steals, breaks, tokens and renames that
\* move into "held", an attempt that is over has left no pending directory,
\* unless its process died or info files can be lost (_attempt_lock,
\* _remove_pending_dir, wait_lock).
THEOREM NoMess == Spec => []FailedAttemptLeavesNoMess
<1>1. Init => PendingInv
  BY LockDirAssumption DEF Init, PendingInv, Info
<1>2. Init => ErrandInv
  BY DEF Init, ErrandInv
<1>3. PendingInv => FailedAttemptLeavesNoMess
  BY DEF PendingInv, FailedAttemptLeavesNoMess, Pending, Attempting, Breaking
<1> QED
  BY <1>1, <1>2, <1>3, InitTypeInv, NextTypeInv, NextErrandInv, NextPendingInv, PTL DEF Spec
=============================================================================
