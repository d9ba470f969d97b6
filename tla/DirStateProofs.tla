--------------------------- MODULE DirStateProofs ---------------------------
(***************************************************************************)
(* Proofs about DirState for any set of processes and changes.             *)
(*                                                                         *)
(* A step of a process leaves the others' locks and memories alone, so     *)
(* each action comes with a lemma that says what becomes of its own        *)
(* process, field by field, and the parts of the invariant follow from it. *)
(***************************************************************************)
EXTENDS DirState, TLAPS

Mem == [header : SUBSET Change, blocks : SUBSET Change,
        state : Loaded \cup {"not in memory", "header"}]

\* What a process has in memory and how it is locked at each point of a session.
Session(p) ==
  /\ pc[p] \in {"idle", "lock", "unlock tree"} =>
       token[p] = "-" /\ os[p] = "-" /\ mem[p].state = "not in memory"
  /\ pc[p] \in {"open", "unlock"} => token[p] \in {"r", "w"}
  /\ pc[p] \in {"save", "write"} =>
       /\ token[p] \in {"w", "t"}
       /\ p \notin aborted
       /\ ~mode.hash => mem[p].state = "modified"
  /\ pc[p] = "failed" =>
       /\ token[p] \in {"r", "w"}
       /\ p \notin aborted
       /\ ~mode.hash => mem[p].state = "modified"
  /\ token[p] \in {"r", "t"} => reads[p] >= 1
  /\ mem[p].state = "modified" => token[p] = "w"
  /\ ~mode.hash => token[p] # "t"

\* The locks of the system are those that the processes think they have, unless
\* a reader has lost its own by saving.
SystemLock(p) ==
  /\ token[p] = "w" <=> os[p] = "w"
  /\ ~mode.hash /\ token[p] = "r" => os[p] = "r"

OneWriter == \A p, q \in Process : p # q /\ os[p] = "w" => os[q] = "-"

\* A session that changes the tree has the tree's lock, and nobody else has it
\* but a process that has left it behind.
TreeLocked(p) ==
  /\ HasTreeLock(p) => treeLock = p
  /\ treeLock = p /\ ~HasTreeLock(p) => p \in left

\* What p has read is what was saved, and what it has changed comes on top.
Current(p) ==
  /\ pc[p] = "write" => disk.header = mem[p].blocks
  /\ pc[p] = "open" /\ mem[p].state \in {"header", "unmodified", "hash modified"} =>
       mem[p].header = saved
  /\ pc[p] = "open" /\ mem[p].state \in {"unmodified", "hash modified"} =>
       mem[p].blocks = saved
  /\ mem[p].state = "modified" => saved \subseteq mem[p].blocks

Contents ==
  Plain =>
    /\ disk.blocks = saved
    /\ NobodySaves => disk.header = saved
    /\ \A p \in Process : Current(p)

\* The inductive invariant.
Sound ==
  /\ OneWriter
  /\ \A p \in Process : Session(p) /\ SystemLock(p) /\ TreeLocked(p)
  /\ Contents

\* Only the state of p changes.
OnlyOf(p) ==
  /\ mode' = mode
  /\ \A q \in Process \ {p} :
       /\ pc'[q] = pc[q] /\ token'[q] = token[q] /\ os'[q] = os[q]
       /\ reads'[q] = reads[q] /\ mem'[q] = mem[q]
       /\ (q \in aborted') <=> (q \in aborted)

-----------------------------------------------------------------------------

\* A step of p does nothing to the locks and the memory of another process.
LEMMA Frame ==
  ASSUME NEW p \in Process, TypeOK, Step(p)
  PROVE  OnlyOf(p)
<1> USE DEF TypeOK, OnlyOf, Unlocked
<1>1. CASE LockRead(p)
  BY <1>1 DEF LockRead
<1>2. CASE LockTree(p)
  BY <1>2 DEF LockTree
<1>3. CASE LockWrite(p)
  BY <1>3 DEF LockWrite
<1>4. CASE ReadHeader(p)
  BY <1>4 DEF ReadHeader
<1>5. CASE ReadBlocks(p)
  BY <1>5 DEF ReadBlocks
<1>6. CASE HashChanged(p)
  BY <1>6 DEF HashChanged
<1>7. CASE Abort(p)
  BY <1>7 DEF Abort
<1>8. CASE \E x \in Change : Modify(p, x)
  BY <1>8 DEF Modify
<1>9. CASE Close(p)
  BY <1>9 DEF Close
<1>10. CASE TemporaryWriteLock(p)
  BY <1>10 DEF TemporaryWriteLock
<1>11. CASE WriteHeader(p)
  BY <1>11 DEF WriteHeader
<1>12. CASE WriteBlocks(p)
  BY <1>12 DEF WriteBlocks, RestoreReadLock
<1>13. CASE Unlock(p)
  BY <1>13 DEF Unlock
<1>14. CASE UnlockTree(p)
  BY <1>14 DEF UnlockTree
<1>15. CASE Exit(p)
  BY <1>15 DEF Exit, Restart
<1>16. CASE Panic(p)
  BY <1>16 DEF Panic, Restart
<1>17. CASE Die(p)
  BY <1>17 DEF Die, Restart
<1>18. CASE BreakLock(p)
  BY <1>18 DEF BreakLock
<1>19. CASE SaveFails(p)
  <2>1. /\ token' \in {token, [token EXCEPT ![p] = "r"]} /\ os' \in {os, [os EXCEPT ![p] = "-"]}
        /\ pc' = [pc EXCEPT ![p] = "failed"] /\ UNCHANGED <<mode, reads, mem, aborted>>
    BY <1>19 DEF SaveFails, RestoreReadLock
  <2> QED
    BY <2>1
<1>20. CASE UnlockTreeFails(p)
  BY <1>20 DEF UnlockTreeFails
<1> QED
  BY <1>1, <1>2, <1>3, <1>4, <1>5, <1>6, <1>7, <1>8, <1>9, <1>10, <1>11,
     <1>12, <1>13, <1>14, <1>15, <1>16, <1>17, <1>18, <1>19, <1>20 DEF Step

\* A dirstate that is wiped is one (_wipe_state).
LEMMA WipedState ==
  NotInMemory \in Mem /\ NotInMemory.state = "not in memory"
  BY DEF NotInMemory, Mem

\* The types of the parts.
LEMMA PartTypes ==
  ASSUME TypeOK
  PROVE  /\ MaxReads \in Nat
         /\ \A p \in Process : reads[p] \in 0..MaxReads
         /\ mem \in [Process -> Mem]
         /\ disk.header \in SUBSET Change /\ disk.blocks \in SUBSET Change
<1>1. MaxReads \in Nat
  BY DirStateAssumption
<1> QED
  BY <1>1 DEF TypeOK, Mem, Image

\* A dirstate that is read or changed is one.
LEMMA Updates ==
  ASSUME NEW m \in Mem, NEW d \in SUBSET Change
  PROVE  /\ [m EXCEPT !.header = d, !.state = "header"] \in Mem
         /\ [m EXCEPT !.blocks = d, !.state = "unmodified"] \in Mem
         /\ [m EXCEPT !.blocks = d, !.state = "modified"] \in Mem
         /\ [m EXCEPT !.state = "hash modified"] \in Mem
         /\ [m EXCEPT !.state = "unmodified"] \in Mem
  BY DEF Mem, Loaded

\* Counting a read lock and giving it back stays within the bounds.
LEMMA Counting ==
  ASSUME NEW p \in Process, TypeOK
  PROVE  /\ 0 \in 0..MaxReads
         /\ reads[p] + 1 >= 1
         /\ reads[p] < MaxReads => reads[p] + 1 \in 0..MaxReads
         /\ reads[p] >= 1 => reads[p] - 1 \in 0..MaxReads
<1>1. MaxReads \in Nat /\ reads[p] \in 0..MaxReads
  BY PartTypes
<1> QED
  BY <1>1

\* A process that is followed by a new one leaves everything well typed.
LEMMA RestartTypes ==
  ASSUME NEW p \in Process, TypeOK, Restart(p), torn' \in BOOLEAN, left' \subseteq Process
  PROVE  TypeOK'
<1>1. reads' \in [Process -> 0..MaxReads]
  BY Counting DEF TypeOK, Restart
<1>2. mem' \in [Process -> Mem]
  BY WipedState DEF TypeOK, Restart, Mem
<1> QED
  BY <1>1, <1>2 DEF TypeOK, Restart, Unlocked, Mem

\* The file that is written to the end is one.
LEMMA WrittenTypes ==
  ASSUME NEW p \in Process, TypeOK, Written(p)
  PROVE  disk' \in Image /\ saved' \subseteq Change
<1>1. mem[p].blocks \in SUBSET Change
  BY DEF TypeOK
<1> QED
  BY <1>1 DEF TypeOK, Written, Image

\* Every step keeps the types.
LEMMA StepTypes ==
  ASSUME NEW p \in Process, TypeOK, Session(p), Step(p)
  PROVE  TypeOK'
<1>m. mem[p] \in Mem /\ disk.header \in SUBSET Change /\ disk.blocks \in SUBSET Change
  BY PartTypes
<1> USE DEF TypeOK, Unlocked, Mem
<1>1. CASE LockRead(p)
  <2>1. reads[p] + 1 \in 0..MaxReads
    BY <1>1, Counting DEF LockRead
  <2> QED
    BY <1>1, <2>1 DEF LockRead
<1>2. CASE LockTree(p)
  BY <1>2 DEF LockTree
<1>3. CASE LockWrite(p)
  BY <1>3 DEF LockWrite
<1>4. CASE ReadHeader(p)
  <2>1. [mem[p] EXCEPT !.header = disk.header, !.state = "header"] \in Mem
    <3> HIDE DEF TypeOK, Mem
    <3> QED
      BY <1>m, Updates
  <2> QED
    BY <1>4, <2>1 DEF ReadHeader
<1>5. CASE ReadBlocks(p)
  <2>1. [mem[p] EXCEPT !.blocks = disk.blocks, !.state = "unmodified"] \in Mem
    <3> HIDE DEF TypeOK, Mem
    <3> QED
      BY <1>m, Updates
  <2>2. mem' \in [Process -> Mem]
    <3>1. \/ mem' = [mem EXCEPT ![p] = [mem[p] EXCEPT !.blocks = disk.blocks, !.state = "unmodified"]]
          \/ mem' = [mem EXCEPT ![p] = NotInMemory]
      BY <1>5 DEF ReadBlocks
    <3> HIDE DEF Mem
    <3> QED
      BY <2>1, <3>1, WipedState, PartTypes
  <2> QED
    BY <1>5, <2>2 DEF ReadBlocks
<1>6. CASE HashChanged(p)
  <2>1. [mem[p] EXCEPT !.state = "hash modified"] \in Mem
    <3> HIDE DEF TypeOK, Mem
    <3> QED
      BY <1>m, Updates
  <2> QED
    BY <1>6, <2>1 DEF HashChanged
<1>7. CASE Abort(p)
  BY <1>7 DEF Abort
<1>8. CASE \E x \in Change : Modify(p, x)
  <2>1. PICK x \in Change : Modify(p, x)
    BY <1>8
  <2>2. [mem[p] EXCEPT !.blocks = mem[p].blocks \cup {x}, !.state = "modified"] \in Mem
    <3>1. mem[p].blocks \cup {x} \in SUBSET Change
      BY <1>m DEF Mem
    <3> HIDE DEF TypeOK, Mem
    <3> QED
      BY <1>m, <3>1, Updates
  <2> QED
    BY <2>1, <2>2 DEF Modify
<1>9. CASE Close(p)
  BY <1>9 DEF Close
<1>10. CASE TemporaryWriteLock(p)
  <2>1. pc' \in [Process -> {"idle", "lock", "open", "save", "write", "failed", "unlock", "unlock tree"}]
    BY <1>10 DEF TemporaryWriteLock
  <2>2. /\ token' \in {token, [token EXCEPT ![p] = "t"]}
        /\ writing' \in {writing, writing \cup {p}}
    <3> HIDE DEF TypeOK
    <3> QED
      BY <1>10 DEF TemporaryWriteLock
  <2>3. token' \in [Process -> {"-", "r", "w", "t"}] /\ writing' \subseteq Process
    BY <2>2
  <2> QED
    BY <1>10, <2>1, <2>2, <2>3 DEF TemporaryWriteLock
<1>11. CASE WriteHeader(p)
  <2>1. [disk EXCEPT !.header = mem[p].blocks] \in Image
    BY DEF Image
  <2> QED
    BY <1>11, <2>1 DEF WriteHeader
<1>12. CASE WriteBlocks(p)
  <2>1. disk' \in Image /\ saved' \subseteq Change
    BY <1>12, WrittenTypes DEF WriteBlocks
  <2>2. [mem[p] EXCEPT !.state = "unmodified"] \in Mem
    <3> HIDE DEF TypeOK, Mem
    <3> QED
      BY <1>m, Updates
  <2> QED
    BY <1>12, <2>1, <2>2 DEF WriteBlocks, RestoreReadLock
<1>13. CASE Unlock(p)
  <2>1. token[p] = "r" => reads[p] - 1 \in 0..MaxReads
    BY <1>13, Counting DEF Unlock, Session
  <2>2. reads' \in [Process -> 0..MaxReads]
    BY <1>13, <2>1 DEF Unlock
  <2> QED
    BY <1>13, <2>2, WipedState DEF Unlock
<1>14. CASE UnlockTree(p)
  BY <1>14 DEF UnlockTree
<1>15. CASE Exit(p)
  BY <1>15, RestartTypes DEF Exit
<1>16. CASE Panic(p)
  BY <1>16, RestartTypes DEF Panic
<1>17. CASE Die(p)
  <2>1. torn' \in BOOLEAN /\ left' \subseteq Process
    <3>1. torn' \in BOOLEAN
      BY <1>17, Zenon DEF Die
    <3>2. left' \subseteq Process
      BY <1>17 DEF Die
    <3> QED
      BY <3>1, <3>2
  <2> QED
    BY <1>17, <2>1, RestartTypes DEF Die
<1>18. CASE BreakLock(p)
  BY <1>18 DEF BreakLock
<1>19. CASE SaveFails(p)
  <2>1. /\ token' \in {token, [token EXCEPT ![p] = "r"]} /\ os' \in {os, [os EXCEPT ![p] = "-"]}
        /\ writing' \in {writing, writing \ {p}}
    BY <1>19 DEF SaveFails, RestoreReadLock
  <2>2. /\ token' \in [Process -> {"-", "r", "w", "t"}] /\ os' \in [Process -> {"-", "r", "w"}]
        /\ writing' \subseteq Process
    BY <2>1
  <2>3. disk' \in Image /\ saved' \subseteq Change
    <3>1. CASE UNCHANGED <<disk, saved>>
      BY <3>1
    <3>2. CASE Written(p)
      BY <3>2, WrittenTypes
    <3> QED
      BY <1>19, <3>1, <3>2 DEF SaveFails
  <2>4. /\ pc' = [pc EXCEPT ![p] = "failed"]
        /\ UNCHANGED <<mode, treeLock, reads, mem, aborted, torn, left>>
    BY <1>19 DEF SaveFails
  <2> QED
    BY <2>2, <2>3, <2>4
<1>20. CASE UnlockTreeFails(p)
  BY <1>20 DEF UnlockTreeFails
<1> QED
  BY <1>1, <1>2, <1>3, <1>4, <1>5, <1>6, <1>7, <1>8, <1>9, <1>10, <1>11,
     <1>12, <1>13, <1>14, <1>15, <1>16, <1>17, <1>18, <1>19, <1>20 DEF Step

\* What temporary_write_lock does to the process: it saves, or it unlocks.
LEMMA TemporaryEffect ==
  ASSUME NEW p \in Process, TypeOK, TemporaryWriteLock(p)
  PROVE  /\ pc[p] \in {"open", "failed"} /\ token[p] = "r" /\ WorthSaving(p)
         /\ \/ pc'[p] = "save" /\ token'[p] = "t"
            \/ pc'[p] = "unlock" /\ token'[p] = "r"
         /\ os'[p] = "-"
         /\ UNCHANGED <<mode, treeLock, reads, mem, aborted>>
<1>1. /\ token \in [Process -> {"-", "r", "w", "t"}] /\ os \in [Process -> {"-", "r", "w"}]
      /\ pc \in [Process -> {"idle", "lock", "open", "save", "write", "failed", "unlock", "unlock tree"}]
  BY DEF TypeOK
<1>2. os'[p] = "-" /\ UNCHANGED <<mode, treeLock, reads, mem, aborted>>
  BY <1>1 DEF TemporaryWriteLock, Unlocked
<1>3. pc[p] \in {"open", "failed"} /\ token[p] = "r" /\ WorthSaving(p)
  BY DEF TemporaryWriteLock
<1>4. \/ pc' = [pc EXCEPT ![p] = "save"] /\ token' = [token EXCEPT ![p] = "t"]
      \/ pc' = [pc EXCEPT ![p] = "unlock"] /\ token' = token
  BY DEF TemporaryWriteLock
<1> QED
  BY <1>1, <1>2, <1>3, <1>4

\* What the end of save does to it: only a temporary lock is given back.
LEMMA WrittenEffect ==
  ASSUME NEW p \in Process, TypeOK, WriteBlocks(p)
  PROVE  /\ pc[p] = "write" /\ pc'[p] = "unlock"
         /\ \/ token[p] = "t" /\ token'[p] = "r" /\ os'[p] = "-"
            \/ token[p] # "t" /\ token'[p] = token[p] /\ os'[p] = os[p]
         /\ mem'[p].state = "unmodified"
         /\ UNCHANGED <<mode, treeLock, reads, aborted>>
<1>1. /\ token \in [Process -> {"-", "r", "w", "t"}] /\ os \in [Process -> {"-", "r", "w"}]
      /\ pc \in [Process -> {"idle", "lock", "open", "save", "write", "failed", "unlock", "unlock tree"}]
      /\ mem \in [Process -> Mem]
  BY DEF TypeOK, Mem
<1>2. /\ pc[p] = "write" /\ pc'[p] = "unlock"
      /\ UNCHANGED <<mode, treeLock, reads, aborted>>
  BY <1>1 DEF WriteBlocks
<1>3. mem'[p].state = "unmodified"
  BY <1>1 DEF WriteBlocks, Mem
<1>4. \/ token[p] = "t" /\ token' = [token EXCEPT ![p] = "r"] /\ os' = [os EXCEPT ![p] = "-"]
      \/ token[p] # "t" /\ token' = token /\ os' = os
  BY DEF WriteBlocks, RestoreReadLock, Unlocked
<1> QED
  BY <1>1, <1>2, <1>3, <1>4

\* What a failing save does to it: a temporary lock is given back, no other.
LEMMA FailedEffect ==
  ASSUME NEW p \in Process, TypeOK, SaveFails(p)
  PROVE  /\ pc[p] \in {"save", "write"} /\ pc'[p] = "failed"
         /\ \/ token[p] = "t" /\ token'[p] = "r" /\ os'[p] = "-"
            \/ token[p] # "t" /\ token'[p] = token[p] /\ os'[p] = os[p]
         /\ UNCHANGED <<mode, treeLock, reads, mem, aborted, left>>
<1>1. /\ token \in [Process -> {"-", "r", "w", "t"}] /\ os \in [Process -> {"-", "r", "w"}]
      /\ pc \in [Process -> {"idle", "lock", "open", "save", "write", "failed", "unlock", "unlock tree"}]
  BY DEF TypeOK
<1>2. /\ pc[p] \in {"save", "write"} /\ pc'[p] = "failed"
      /\ UNCHANGED <<mode, treeLock, reads, mem, aborted, left>>
  BY <1>1 DEF SaveFails
<1>3. \/ token[p] = "t" /\ token' = [token EXCEPT ![p] = "r"] /\ os' = [os EXCEPT ![p] = "-"]
      \/ token[p] # "t" /\ token' = token /\ os' = os
  BY DEF SaveFails, RestoreReadLock, Unlocked
<1> QED
  BY <1>1, <1>2, <1>3

\* A step of p keeps what holds at each point of its session.
LEMMA StepSession ==
  ASSUME NEW p \in Process, TypeOK, Session(p), Step(p)
  PROVE  Session(p)'
<1> USE WipedState DEF TypeOK, Session, Unlocked, Loaded
<1>1. CASE LockRead(p)
  <2>1. reads'[p] = reads[p] + 1
    BY <1>1 DEF LockRead
  <2>2. reads'[p] >= 1
    BY <2>1, Counting
  <2> QED
    BY <1>1, <2>2 DEF LockRead
<1>2. CASE LockTree(p)
  BY <1>2 DEF LockTree
<1>3. CASE LockWrite(p)
  BY <1>3 DEF LockWrite
<1>4. CASE ReadHeader(p)
  BY <1>4 DEF ReadHeader
<1>5. CASE ReadBlocks(p)
  <2>1. mem'[p].state \in {"unmodified", "not in memory"}
    BY <1>5 DEF ReadBlocks
  <2> QED
    BY <1>5, <2>1 DEF ReadBlocks
<1>6. CASE HashChanged(p)
  BY <1>6 DEF HashChanged
<1>7. CASE Abort(p)
  BY <1>7 DEF Abort
<1>8. CASE \E x \in Change : Modify(p, x)
  BY <1>8 DEF Modify
<1>9. CASE Close(p)
  BY <1>9 DEF Close, WorthSaving
<1>10. CASE TemporaryWriteLock(p)
  <2>1. Session(p)
    OBVIOUS
  <2> HIDE DEF TypeOK, Unlocked
  <2> QED
    BY <1>10, <2>1, TemporaryEffect DEF WorthSaving
<1>11. CASE WriteHeader(p)
  BY <1>11 DEF WriteHeader
<1>12. CASE WriteBlocks(p)
  <2> HIDE DEF TypeOK, Unlocked
  <2> QED
    BY <1>12, WrittenEffect
<1>13. CASE Unlock(p)
  BY <1>13 DEF Unlock
<1>14. CASE UnlockTree(p)
  BY <1>14 DEF UnlockTree
<1>15. CASE Exit(p)
  BY <1>15 DEF Exit, Restart
<1>16. CASE Panic(p)
  BY <1>16 DEF Panic, Restart
<1>17. CASE Die(p)
  BY <1>17 DEF Die, Restart
<1>18. CASE BreakLock(p)
  BY <1>18 DEF BreakLock
<1>19. CASE SaveFails(p)
  <2> HIDE DEF TypeOK, Unlocked
  <2> QED
    BY <1>19, FailedEffect
<1>20. CASE UnlockTreeFails(p)
  BY <1>20 DEF UnlockTreeFails
<1> QED
  BY <1>1, <1>2, <1>3, <1>4, <1>5, <1>6, <1>7, <1>8, <1>9, <1>10, <1>11,
     <1>12, <1>13, <1>14, <1>15, <1>16, <1>17, <1>18, <1>19, <1>20 DEF Step

\* A step of p keeps its locks what it thinks they are.
LEMMA StepSystemLock ==
  ASSUME NEW p \in Process, TypeOK, Session(p), SystemLock(p), Step(p)
  PROVE  SystemLock(p)'
<1> USE DEF TypeOK, Session, SystemLock, Unlocked
<1>1. CASE LockRead(p)
  BY <1>1 DEF LockRead
<1>2. CASE LockTree(p)
  BY <1>2 DEF LockTree
<1>3. CASE LockWrite(p)
  BY <1>3 DEF LockWrite
<1>4. CASE ReadHeader(p)
  BY <1>4 DEF ReadHeader
<1>5. CASE ReadBlocks(p)
  BY <1>5 DEF ReadBlocks
<1>6. CASE HashChanged(p)
  BY <1>6 DEF HashChanged
<1>7. CASE Abort(p)
  BY <1>7 DEF Abort
<1>8. CASE \E x \in Change : Modify(p, x)
  BY <1>8 DEF Modify
<1>9. CASE Close(p)
  BY <1>9 DEF Close
<1>10. CASE TemporaryWriteLock(p)
  BY <1>10 DEF TemporaryWriteLock, WorthSaving
<1>11. CASE WriteHeader(p)
  BY <1>11 DEF WriteHeader
<1>12. CASE WriteBlocks(p)
  BY <1>12 DEF WriteBlocks, RestoreReadLock
<1>13. CASE Unlock(p)
  BY <1>13 DEF Unlock
<1>14. CASE UnlockTree(p)
  BY <1>14 DEF UnlockTree
<1>15. CASE Exit(p)
  BY <1>15 DEF Exit, Restart
<1>16. CASE Panic(p)
  BY <1>16 DEF Panic, Restart
<1>17. CASE Die(p)
  BY <1>17 DEF Die, Restart
<1>18. CASE BreakLock(p)
  BY <1>18 DEF BreakLock
<1>19. CASE SaveFails(p)
  <2> HIDE DEF TypeOK, Unlocked
  <2> QED
    BY <1>19, FailedEffect
<1>20. CASE UnlockTreeFails(p)
  BY <1>20 DEF UnlockTreeFails
<1> QED
  BY <1>1, <1>2, <1>3, <1>4, <1>5, <1>6, <1>7, <1>8, <1>9, <1>10, <1>11,
     <1>12, <1>13, <1>14, <1>15, <1>16, <1>17, <1>18, <1>19, <1>20 DEF Step

\* The tree's lock stays that of a session, or of a process that has died.
LEMMA StepTreeLock ==
  ASSUME NEW p \in Process, TypeOK, Session(p), \A q \in Process : TreeLocked(q), Step(p)
  PROVE  \A q \in Process : TreeLocked(q)'
<1> USE DirStateAssumption DEF TypeOK, Session, TreeLocked, HasTreeLock, Unlocked
<1>1. CASE LockRead(p)
  <2>1. treeLock' = treeLock /\ (HasTreeLock(p)' <=> HasTreeLock(p))
    BY <1>1 DEF LockRead
  <2>2. \A q \in Process \ {p} : HasTreeLock(q)' <=> HasTreeLock(q)
    BY Frame DEF OnlyOf
  <2>3. left' = left
    BY <1>1 DEF LockRead
  <2> QED
    BY <2>1, <2>2, <2>3
<1>2. CASE LockTree(p)
  BY <1>2 DEF LockTree
<1>3. CASE LockWrite(p)
  <2>1. treeLock' = treeLock /\ (HasTreeLock(p)' <=> HasTreeLock(p))
    BY <1>3 DEF LockWrite
  <2>2. \A q \in Process \ {p} : HasTreeLock(q)' <=> HasTreeLock(q)
    BY Frame DEF OnlyOf
  <2>3. left' = left
    BY <1>3 DEF LockWrite
  <2> QED
    BY <2>1, <2>2, <2>3
<1>4. CASE ReadHeader(p)
  BY <1>4 DEF ReadHeader
<1>5. CASE ReadBlocks(p)
  BY <1>5 DEF ReadBlocks
<1>6. CASE HashChanged(p)
  BY <1>6 DEF HashChanged
<1>7. CASE Abort(p)
  BY <1>7 DEF Abort
<1>8. CASE \E x \in Change : Modify(p, x)
  BY <1>8 DEF Modify
<1>9. CASE Close(p)
  BY <1>9 DEF Close
<1>10. CASE TemporaryWriteLock(p)
  <2>1. treeLock' = treeLock /\ (HasTreeLock(p)' <=> HasTreeLock(p))
    BY <1>10, TemporaryEffect
  <2>2. \A q \in Process \ {p} : HasTreeLock(q)' <=> HasTreeLock(q)
    BY Frame DEF OnlyOf
  <2>3. left' = left
    BY <1>10 DEF TemporaryWriteLock
  <2> QED
    BY <2>1, <2>2, <2>3
<1>11. CASE WriteHeader(p)
  BY <1>11 DEF WriteHeader
<1>12. CASE WriteBlocks(p)
  <2>1. treeLock' = treeLock /\ (HasTreeLock(p)' <=> HasTreeLock(p))
    BY <1>12, WrittenEffect
  <2>2. \A q \in Process \ {p} : HasTreeLock(q)' <=> HasTreeLock(q)
    BY Frame DEF OnlyOf
  <2>3. left' = left
    BY <1>12 DEF WriteBlocks
  <2> QED
    BY <2>1, <2>2, <2>3
<1>13. CASE Unlock(p)
  BY <1>13 DEF Unlock
<1>14. CASE UnlockTree(p)
  BY <1>14 DEF UnlockTree
<1>15. CASE Exit(p)
  BY <1>15 DEF Exit, Restart
<1>16. CASE Panic(p)
  BY <1>16 DEF Panic, Restart
<1>17. CASE Die(p)
  BY <1>17 DEF Die, Restart
<1>18. CASE BreakLock(p)
  BY <1>18 DEF BreakLock
<1>19. CASE SaveFails(p)
  <2>1. treeLock' = treeLock /\ left' = left /\ (HasTreeLock(p)' <=> HasTreeLock(p))
    BY <1>19, FailedEffect
  <2>2. \A q \in Process \ {p} : HasTreeLock(q)' <=> HasTreeLock(q)
    BY Frame DEF OnlyOf
  <2> QED
    BY <2>1, <2>2
<1>20. CASE UnlockTreeFails(p)
  BY <1>20 DEF UnlockTreeFails
<1> QED
  BY <1>1, <1>2, <1>3, <1>4, <1>5, <1>6, <1>7, <1>8, <1>9, <1>10, <1>11,
     <1>12, <1>13, <1>14, <1>15, <1>16, <1>17, <1>18, <1>19, <1>20 DEF Step

\* A lock of the system is only given when it may be.
LEMMA StepOneWriter ==
  ASSUME NEW p \in Process, TypeOK, OneWriter, SystemLock(p), Session(p), Step(p)
  PROVE  OneWriter'
<1> USE DEF TypeOK, OneWriter
<1>1. CASE LockRead(p)
  <2>1. \A q \in Process \ {p} : os'[q] = os[q]
    BY Frame DEF OnlyOf
  <2>2. os' = os \/ (os'[p] = "r" /\ \A q \in Process \ {p} : os[q] # "w")
    BY <1>1 DEF LockRead, CanReadLock, Others
  <2> QED
    BY <2>1, <2>2
<1>2. CASE LockTree(p)
  BY <1>2 DEF LockTree
<1>3. CASE LockWrite(p)
  <2>1. \A q \in Process \ {p} : os'[q] = os[q]
    BY Frame DEF OnlyOf
  <2>2. os'[p] = "-" \/ (os'[p] = "w" /\ \A q \in Process \ {p} : os[q] = "-")
    BY <1>3 DEF LockWrite, CanWriteLock, Others, Unlocked
  <2> HIDE DEF TypeOK
  <2> QED
    BY <2>1, <2>2
<1>4. CASE ReadHeader(p)
  BY <1>4 DEF ReadHeader
<1>5. CASE ReadBlocks(p)
  BY <1>5 DEF ReadBlocks
<1>6. CASE HashChanged(p)
  BY <1>6 DEF HashChanged
<1>7. CASE Abort(p)
  BY <1>7 DEF Abort
<1>8. CASE \E x \in Change : Modify(p, x)
  <2>1. os' = os
    BY <1>8 DEF Modify
  <2> QED
    BY <2>1
<1>9. CASE Close(p)
  BY <1>9 DEF Close
<1>10. CASE TemporaryWriteLock(p)
  <2>1. os'[p] = "-"
    BY <1>10, TemporaryEffect
  <2>2. \A q \in Process \ {p} : os'[q] = os[q]
    BY Frame DEF OnlyOf
  <2> HIDE DEF TypeOK
  <2> QED
    BY <2>1, <2>2
<1>11. CASE WriteHeader(p)
  BY <1>11 DEF WriteHeader
<1>12. CASE WriteBlocks(p)
  <2>1. os'[p] \in {os[p], "-"}
    BY <1>12, WrittenEffect
  <2>2. \A q \in Process \ {p} : os'[q] = os[q]
    BY Frame DEF OnlyOf
  <2> HIDE DEF TypeOK
  <2> QED
    BY <2>1, <2>2
<1>13. CASE Unlock(p)
  BY <1>13 DEF Unlock, Unlocked
<1>14. CASE UnlockTree(p)
  BY <1>14 DEF UnlockTree
<1>15. CASE Exit(p)
  BY <1>15 DEF Exit, Restart, Unlocked
<1>16. CASE Panic(p)
  BY <1>16 DEF Panic, Restart, Unlocked
<1>17. CASE Die(p)
  BY <1>17 DEF Die, Restart, Unlocked
<1>18. CASE BreakLock(p)
  BY <1>18 DEF BreakLock
<1>19. CASE SaveFails(p)
  <2>1. os'[p] \in {os[p], "-"}
    BY <1>19, FailedEffect
  <2>2. \A q \in Process \ {p} : os'[q] = os[q]
    BY Frame DEF OnlyOf
  <2> HIDE DEF TypeOK
  <2> QED
    BY <2>1, <2>2
<1>20. CASE UnlockTreeFails(p)
  BY <1>20 DEF UnlockTreeFails
<1> QED
  BY <1>1, <1>2, <1>3, <1>4, <1>5, <1>6, <1>7, <1>8, <1>9, <1>10, <1>11,
     <1>12, <1>13, <1>14, <1>15, <1>16, <1>17, <1>18, <1>19, <1>20 DEF Step

-----------------------------------------------------------------------------
\* What the file holds.

\* As long as readers do not save, a write-locked process is the only one that
\* has the file open (WriteLock::new, ReadLock::new).
LEMMA Alone ==
  ASSUME TypeOK, Sound, ~mode.hash, NEW p \in Process, token[p] = "w", NEW q \in Process, q # p
  PROVE  /\ token[q] = "-"
         /\ pc[q] \in {"idle", "lock", "unlock tree"}
         /\ mem[q].state = "not in memory"
<1>1. os[q] = "-"
  BY DEF Sound, SystemLock, OneWriter
<1>2. token[q] = "-"
  BY <1>1 DEF Sound, SystemLock, Session, TypeOK
<1>3. pc[q] \in {"idle", "lock", "unlock tree"}
  BY <1>2 DEF Sound, Session, TypeOK
<1> QED
  BY <1>2, <1>3 DEF Sound, Session

\* Reading and changing the state in memory (_read_header_if_needed,
\* _read_dirblocks_if_needed, _mark_modified) keep the contents right.
LEMMA MemoryStepContents ==
  ASSUME TypeOK, Sound, Plain, NEW p \in Process, pc[p] = "open",
         UNCHANGED <<mode, disk, pc, saved, torn>>,
         \A q \in Process \ {p} : mem'[q] = mem[q],
         Current(p)'
  PROVE  Contents'
  BY DEF Sound, Contents, Current, Plain, NobodySaves

\* A step that only leaves or passes by the file: nobody starts or ends writing.
LEMMA QuietStepContents ==
  ASSUME TypeOK, Sound, Plain, NEW p \in Process, OnlyOf(p),
         UNCHANGED <<disk, saved>>,
         pc[p] \notin {"write", "failed"}, pc'[p] \notin {"write", "failed", "open"},
         mem'[p] = mem[p] \/ mem'[p].state = "not in memory"
  PROVE  Contents'
<1>1. \A q \in Process : Current(q)
  BY DEF Sound, Contents
<1>2. Current(p)'
  BY <1>1 DEF Current
<1>3. ASSUME NEW q \in Process \ {p} PROVE Current(q)'
  <2>1. pc'[q] = pc[q] /\ mem'[q] = mem[q]
    BY <1>3 DEF OnlyOf
  <2> QED
    BY <1>1, <2>1 DEF Current
<1>4. NobodySaves' => NobodySaves
  BY DEF OnlyOf, NobodySaves
<1>5. /\ disk.blocks = saved
      /\ NobodySaves => disk.header = saved
  BY DEF Sound, Contents
<1> QED
  BY <1>2, <1>3, <1>4, <1>5 DEF Contents

\* A step that opens the dirstate finds nothing in memory.
LEMMA OpeningStepContents ==
  ASSUME TypeOK, Sound, Plain, NEW p \in Process, OnlyOf(p),
         UNCHANGED <<disk, saved, mem>>,
         pc[p] \in {"idle", "lock"}, pc'[p] \in {pc[p], "open", "unlock tree"}
  PROVE  Contents'
<1>1. mem[p].state = "not in memory"
  BY DEF Sound, Session
<1> QED
  BY <1>1 DEF Sound, Contents, Current, Plain, OnlyOf, NobodySaves


\* Every step keeps the file what was saved and the memories up to date.
LEMMA StepContents ==
  ASSUME NEW p \in Process, TypeOK, Sound, Step(p)
  PROVE  Contents'
<1> SUFFICES ASSUME Plain'
            PROVE  Contents'
  BY DEF Contents
<1>0. Plain /\ OnlyOf(p)
  <2>1. OnlyOf(p)
    BY Frame
  <2>2. torn => torn'
    <3>1. torn' = torn \/ Die(p)
      BY DEF Step, LockRead, LockTree, LockWrite, ReadHeader, ReadBlocks, HashChanged, Abort, Modify,
             Close, TemporaryWriteLock, WriteHeader, WriteBlocks, SaveFails, Unlock, UnlockTree,
             UnlockTreeFails, Exit, Panic, BreakLock
    <3> QED
      BY <3>1 DEF Die
  <2> QED
    BY <2>1, <2>2 DEF Plain, OnlyOf
<1>r. ASSUME Restart(p)
      PROVE  UNCHANGED <<disk, saved>> /\ pc'[p] = "idle" /\ mem'[p].state = "not in memory"
  BY <1>r, WipedState DEF Restart, TypeOK
<1>1. CASE LockRead(p)
  <2>1. UNCHANGED <<disk, saved, mem>> /\ pc[p] = "idle" /\ pc'[p] \in {pc[p], "open"}
    BY <1>1 DEF LockRead, TypeOK
  <2> QED
    BY <2>1, <1>0, OpeningStepContents
<1>2. CASE LockTree(p)
  <2>1. UNCHANGED <<disk, saved, mem>> /\ pc[p] = "idle" /\ pc'[p] = "lock"
    BY <1>2 DEF LockTree, TypeOK
  <2> QED
    BY <2>1, <1>0, QuietStepContents
<1>3. CASE LockWrite(p)
  <2>1. UNCHANGED <<disk, saved, mem>> /\ pc[p] = "lock" /\ pc'[p] \in {"open", "unlock tree"}
    BY <1>3 DEF LockWrite, TypeOK
  <2> QED
    BY <2>1, <1>0, OpeningStepContents
<1>4. CASE ReadHeader(p)
  <2>1. /\ mem'[p].state = "header" /\ mem'[p].header = disk.header
        /\ UNCHANGED <<mode, disk, pc, saved, torn>> /\ pc[p] = "open"
    BY <1>4 DEF ReadHeader, TypeOK
  <2>2. NobodySaves
    BY <2>1, <1>0, Alone DEF Sound, Session, Plain, TypeOK, NobodySaves
  <2>3. Current(p)'
    BY <2>1, <2>2, <1>0 DEF Sound, Contents, Current
  <2> QED
    BY <2>1, <2>3, <1>0, MemoryStepContents DEF OnlyOf
<1>5. CASE ReadBlocks(p)
  <2>1. /\ \/ /\ mem'[p].state = "unmodified"
              /\ mem'[p].header = mem[p].header /\ mem'[p].blocks = disk.blocks
           \/ mem'[p].state = "not in memory"
        /\ mem[p].state = "header"
        /\ UNCHANGED <<mode, disk, pc, saved, torn>> /\ pc[p] = "open"
    <3>1. mem \in [Process -> Mem]
      BY PartTypes
    <3>2. \/ mem' = [mem EXCEPT ![p].blocks = disk.blocks, ![p].state = "unmodified"]
          \/ mem' = [mem EXCEPT ![p] = NotInMemory]
      BY <1>5 DEF ReadBlocks
    <3>3. \/ /\ mem'[p].state = "unmodified"
             /\ mem'[p].header = mem[p].header /\ mem'[p].blocks = disk.blocks
          \/ mem'[p].state = "not in memory"
      <4>1. CASE mem' = [mem EXCEPT ![p].blocks = disk.blocks, ![p].state = "unmodified"]
        BY <3>1, <4>1 DEF Mem
      <4>2. CASE mem' = [mem EXCEPT ![p] = NotInMemory]
        BY <3>1, <4>2, WipedState
      <4> QED
        BY <3>2, <4>1, <4>2
    <3> QED
      BY <1>5, <3>3 DEF ReadBlocks
  <2>3. Current(p)'
    BY <2>1, <1>0 DEF Sound, Contents, Current
  <2> QED
    BY <2>1, <2>3, <1>0, MemoryStepContents DEF OnlyOf
<1>6. CASE HashChanged(p)
  <2>1. /\ mem[p].state = "unmodified" /\ mem'[p].state = "hash modified"
        /\ mem'[p].header = mem[p].header /\ mem'[p].blocks = mem[p].blocks
        /\ UNCHANGED <<mode, disk, pc, saved, torn>> /\ pc[p] = "open"
    BY <1>6 DEF HashChanged, TypeOK
  <2>3. Current(p)'
    BY <2>1, <1>0 DEF Sound, Contents, Current
  <2> QED
    BY <2>1, <2>3, <1>0, MemoryStepContents DEF OnlyOf
<1>7. CASE Abort(p)
  BY <1>7, <1>0 DEF Abort, Sound, Contents, Current, Plain, NobodySaves
<1>8. CASE \E x \in Change : Modify(p, x)
  <2>1. PICK x \in Change : Modify(p, x)
    BY <1>8
  <2>2. /\ mem[p].state \in Loaded /\ mem'[p].state = "modified"
        /\ mem'[p].blocks = mem[p].blocks \cup {x}
        /\ UNCHANGED <<mode, disk, pc, saved, torn>> /\ pc[p] = "open"
    BY <2>1 DEF Modify, TypeOK
  <2>3. Current(p)'
    BY <2>2, <1>0 DEF Sound, Contents, Current, Loaded
  <2> QED
    BY <2>2, <2>3, <1>0, MemoryStepContents DEF OnlyOf
<1>9. CASE Close(p)
  <2>1. UNCHANGED <<disk, saved, mem>> /\ pc[p] = "open" /\ pc'[p] \in {"save", "unlock"}
    BY <1>9 DEF Close, TypeOK
  <2> QED
    BY <2>1, <1>0, QuietStepContents
<1>10. CASE TemporaryWriteLock(p)
  <2>1. pc[p] \in {"open", "failed"} /\ token[p] = "r" /\ WorthSaving(p)
    BY <1>10, TemporaryEffect
  <2>2. FALSE
    BY <2>1, <1>0 DEF WorthSaving, Sound, Session, Plain
  <2> QED
    BY <2>2
<1>11. CASE WriteHeader(p)
  <2>1. /\ disk'.header = mem[p].blocks /\ disk'.blocks = disk.blocks
        /\ pc[p] \in {"save", "failed"} /\ pc'[p] = "write" /\ UNCHANGED <<mem, saved>>
    BY <1>11 DEF WriteHeader, TypeOK, Image
  <2>2. token[p] = "w" /\ mem[p].state = "modified"
    BY <2>1, <1>0 DEF Sound, Session, Plain
  <2>3. \A q \in Process \ {p} : pc[q] \in {"idle", "lock", "unlock tree"} /\ mem[q].state = "not in memory"
    BY <2>2, <1>0, Alone DEF Plain
  <2> QED
    BY <2>1, <2>2, <2>3, <1>0 DEF Sound, Contents, Current, OnlyOf, Plain, NobodySaves
<1>12. CASE WriteBlocks(p)
  <2>1. /\ disk'.header = disk.header /\ disk'.blocks = mem[p].blocks
        /\ pc[p] = "write" /\ pc'[p] = "unlock"
        /\ mem'[p].state = "unmodified"
    BY <1>12 DEF WriteBlocks, Written, TypeOK, Image
  <2>2. token[p] = "w" /\ mem[p].state = "modified" /\ p \notin aborted
    BY <2>1, <1>0 DEF Sound, Session, Plain
  <2>3. \A q \in Process \ {p} : pc[q] \in {"idle", "lock", "unlock tree"} /\ mem[q].state = "not in memory"
    BY <2>2, <1>0, Alone DEF Plain
  <2>4. saved' = mem[p].blocks
    <3>1. saved' = saved \cup mem[p].blocks
      BY <1>12, <2>2 DEF WriteBlocks, Written
    <3>2. saved \subseteq mem[p].blocks
      BY <2>2, <1>0 DEF Sound, Contents, Current
    <3> QED
      BY <3>1, <3>2
  <2>5. disk.header = mem[p].blocks
    BY <2>1, <1>0 DEF Sound, Contents, Current
  <2> QED
    BY <2>1, <2>3, <2>4, <2>5, <1>0 DEF Contents, Current, OnlyOf, NobodySaves
<1>13. CASE Unlock(p)
  <2>1. UNCHANGED <<disk, saved>> /\ pc[p] = "unlock" /\ pc'[p] \in {"unlock tree", "idle"}
    BY <1>13 DEF Unlock, TypeOK
  <2>2. mem'[p].state = "not in memory"
    BY <1>13, WipedState DEF Unlock, TypeOK
  <2> QED
    BY <2>1, <2>2, <1>0, QuietStepContents
<1>14. CASE UnlockTree(p)
  <2>1. UNCHANGED <<disk, saved, mem>> /\ pc[p] = "unlock tree" /\ pc'[p] = "idle"
    BY <1>14 DEF UnlockTree, TypeOK
  <2> QED
    BY <2>1, <1>0, QuietStepContents
<1>15. CASE Exit(p)
  BY <1>15, <1>0, <1>r, QuietStepContents DEF Exit
<1>16. CASE Panic(p)
  BY <1>16, <1>0, <1>r, QuietStepContents DEF Panic
<1>17. CASE Die(p)
  <2>1. Restart(p) /\ UNCHANGED <<disk, saved>> /\ pc'[p] = "idle" /\ mem'[p].state = "not in memory"
    BY <1>17, <1>r DEF Die
  <2>2. CASE pc[p] \notin {"write", "failed"}
    BY <2>1, <2>2, <1>0, QuietStepContents
  <2>3. CASE pc[p] \in {"write", "failed"}
    <3>1. disk.header = disk.blocks
      BY <1>17, <2>3 DEF Die, Plain
    <3>2. token[p] = "w" /\ mem[p].state = "modified"
      BY <2>3, <1>0 DEF Sound, Session, Plain
    <3>3. \A q \in Process \ {p} : pc[q] \in {"idle", "lock", "unlock tree"} /\ mem[q].state = "not in memory"
      BY <3>2, <1>0, Alone DEF Plain
    <3> QED
      BY <2>1, <3>1, <3>3, <1>0 DEF Sound, Contents, Current, OnlyOf
  <2> QED
    BY <2>2, <2>3
<1>18. CASE BreakLock(p)
  BY <1>18, <1>0 DEF BreakLock, Sound, Contents, Current, Plain, NobodySaves
<1>19. CASE SaveFails(p)
  <2>1. /\ pc[p] \in {"save", "write"} /\ pc'[p] = "failed" /\ UNCHANGED mem
        /\ \/ UNCHANGED <<disk, saved>>
           \/ pc[p] = "write" /\ Written(p)
    BY <1>19 DEF SaveFails, TypeOK
  <2>2. token[p] = "w" /\ mem[p].state = "modified" /\ p \notin aborted
    BY <2>1, <1>0 DEF Sound, Session, Plain
  <2>3. \A q \in Process \ {p} : pc[q] \in {"idle", "lock", "unlock tree"} /\ mem[q].state = "not in memory"
    BY <2>2, <1>0, Alone DEF Plain
  <2>4. disk'.blocks = saved' /\ saved' \subseteq mem[p].blocks
    <3>1. disk.blocks = saved /\ saved \subseteq mem[p].blocks
      BY <2>2, <1>0 DEF Sound, Contents, Current
    <3>2. CASE Written(p)
      <4>1. saved' = saved \cup mem[p].blocks
        BY <2>2, <3>2 DEF Written
      <4>2. disk'.blocks = mem[p].blocks
        BY <3>2 DEF Written, TypeOK, Image
      <4> QED
        BY <3>1, <4>1, <4>2
    <3> QED
      BY <2>1, <3>1, <3>2
  <2> QED
    BY <2>1, <2>2, <2>3, <2>4, <1>0 DEF Contents, Current, OnlyOf, NobodySaves
<1>20. CASE UnlockTreeFails(p)
  <2>1. UNCHANGED <<disk, saved, mem>> /\ pc[p] = "unlock tree" /\ pc'[p] = "idle"
    BY <1>20 DEF UnlockTreeFails, TypeOK
  <2> QED
    BY <2>1, <1>0, QuietStepContents
<1> QED
  BY <1>1, <1>2, <1>3, <1>4, <1>5, <1>6, <1>7, <1>8, <1>9, <1>10, <1>11,
     <1>12, <1>13, <1>14, <1>15, <1>16, <1>17, <1>18, <1>19, <1>20 DEF Step

-----------------------------------------------------------------------------
\* Theorems.

\* The invariant holds initially.
LEMMA InitSound == Init => TypeOK /\ Sound
<1> SUFFICES ASSUME Init PROVE TypeOK /\ Sound
  OBVIOUS
<1>1. \A p \in Process : /\ pc[p] = "idle" /\ token[p] = "-" /\ os[p] = "-"
                         /\ mem[p] = NotInMemory /\ mem[p].state = "not in memory"
  BY WipedState DEF Init
<1>2. reads \in [Process -> 0..MaxReads]
  <2>1. MaxReads \in Nat
    BY DirStateAssumption
  <2>2. 0 \in 0..MaxReads
    BY <2>1
  <2> QED
    BY <2>2 DEF Init
<1>3. mem \in [Process -> Mem]
  BY WipedState DEF Init
<1>4. TypeOK
  BY <1>2, <1>3 DEF Init, TypeOK, Mem, Image
<1>5. Contents
  BY <1>1 DEF Init, Contents, Current
<1>6. \A p \in Process : Session(p) /\ SystemLock(p)
  BY <1>1 DEF Session, SystemLock
<1>7. \A p \in Process : TreeLocked(p)
  BY <1>1, DirStateAssumption DEF Init, TreeLocked, HasTreeLock
<1> QED
  BY <1>1, <1>4, <1>5, <1>6, <1>7 DEF Sound, OneWriter

\* Every step keeps the invariant.
LEMMA NextSound == TypeOK /\ Sound /\ [Next]_vars => TypeOK' /\ Sound'
<1> SUFFICES ASSUME TypeOK, Sound, [Next]_vars PROVE TypeOK' /\ Sound'
  OBVIOUS
<1>1. CASE UNCHANGED vars
  <2>1. TypeOK'
    BY <1>1 DEF TypeOK, vars
  <2>2. OneWriter' /\ \A p \in Process : Session(p)' /\ SystemLock(p)' /\ TreeLocked(p)'
    BY <1>1 DEF vars, Sound, OneWriter, Session, SystemLock, TreeLocked, HasTreeLock
  <2>3. Contents'
    BY <1>1 DEF vars, Sound, Contents, Current, Plain, NobodySaves
  <2> QED
    BY <2>1, <2>2, <2>3 DEF Sound
<1>2. CASE Next
  <2>1. PICK p \in Process : Step(p)
    BY <1>2 DEF Next
  <2>2. Session(p) /\ SystemLock(p) /\ OneWriter /\ \A q \in Process : TreeLocked(q)
    BY DEF Sound
  <2>3. TypeOK' /\ OneWriter' /\ Contents' /\ OnlyOf(p)
    BY <2>1, <2>2, StepTypes, StepOneWriter, StepContents, Frame
  <2>4. \A q \in Process : Session(q)' /\ SystemLock(q)'
    <3>1. Session(p)' /\ SystemLock(p)'
      BY <2>1, <2>2, StepSession, StepSystemLock
    <3>2. ASSUME NEW q \in Process \ {p}
          PROVE  Session(q)' /\ SystemLock(q)'
      <4>1. Session(q) /\ SystemLock(q)
        BY DEF Sound
      <4>2. /\ mode' = mode /\ pc'[q] = pc[q] /\ token'[q] = token[q] /\ os'[q] = os[q]
            /\ reads'[q] = reads[q] /\ mem'[q] = mem[q] /\ (q \in aborted' <=> q \in aborted)
        BY <2>3 DEF OnlyOf
      <4> QED
        BY <4>1, <4>2 DEF Session, SystemLock
    <3> QED
      BY <3>1, <3>2
  <2>5. \A q \in Process : TreeLocked(q)'
    BY <2>1, <2>2, StepTreeLock
  <2> QED
    BY <2>3, <2>4, <2>5 DEF Sound
<1> QED
  BY <1>1, <1>2

\* The invariant holds in every behaviour.
LEMMA AlwaysSound == Spec => [](TypeOK /\ Sound)
  BY InitSound, NextSound, PTL DEF Spec

\* Every variable keeps its type; a count of read locks never gets below 0
\* (ReadLock::unlock).
THEOREM TypeCorrect == Spec => []TypeOK
  BY AlwaysSound, PTL

\* Writers exclude each other, and readers that do not save, for any number of
\* processes, deaths and broken locks (fcntl-locks.rs, WorkingTree4).
THEOREM WritersAreAlone == Spec => []WriterAlone
<1>1. TypeOK /\ Sound => WriterAlone
  <2> SUFFICES ASSUME TypeOK, Sound, NEW p \in Process, token[p] = "w",
                      NEW q \in Others(p)
               PROVE  os[p] = "w" /\ token[q] # "w" /\ (~mode.hash => token[q] = "-")
    BY DEF WriterAlone, Sound, SystemLock
  <2>1. q \in Process /\ q # p
    BY DEF Others
  <2>2. os[p] = "w" /\ os[q] = "-"
    BY <2>1 DEF Sound, SystemLock, OneWriter
  <2>3. token[q] # "w"
    BY <2>1, <2>2 DEF Sound, SystemLock
  <2> QED
    BY <2>1, <2>2, <2>3, Alone
<1> QED
  BY <1>1, AlwaysSound, PTL

\* Unless readers save or a process ends with the file half written, the file is
\* what was saved, also where saves fail and are repeated (DirState.save).
THEOREM NothingUnsavedNothingLost == Spec => []DiskIsWhatWasSaved
<1>1. Sound => DiskIsWhatWasSaved
  BY DEF Sound, Contents, DiskIsWhatWasSaved
<1> QED
  BY <1>1, AlwaysSound, PTL

\* Under the same conditions what a locked process has read is whole and stays
\* up to date (DirState._read_header, _read_dirblocks).
THEOREM MemoryStaysCurrent == Spec => []MemoryIsCurrent
<1>1. Sound => MemoryIsCurrent
  BY DEF Sound, Contents, Current, MemoryIsCurrent
<1> QED
  BY <1>1, AlwaysSound, PTL

\* A session keeps its locks until it is over, refused locks, aborted changes and
\* panics leave none, and a save that fails leaves them all with the session; the
\* tree's lock outlives a session only where its process ended or LockDir.unlock
\* failed (WorkingTree4.lock_read, _lock_self_write and unlock).
THEOREM LocksAreGivenBack == Spec => []LocksGivenBack
<1>1. Sound => LocksGivenBack
  BY DEF Sound, Session, TreeLocked, LocksGivenBack
<1> QED
  BY <1>1, AlwaysSound, PTL

=============================================================================
