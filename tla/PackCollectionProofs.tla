------------------------- MODULE PackCollectionProofs -------------------------
(***************************************************************************)
(* Proofs about PackCollection, for any number of processes, revisions and *)
(* packs.  All but type correctness assume that no two packers give their  *)
(* packs the same name: the run PackCollide shows that without the         *)
(* assumption they fail.                                                   *)
(*                                                                         *)
(* The argument rests on who may publish a pack.  A pack that a process    *)
(* has finished and not yet saved is known to that process alone, so       *)
(* nobody else can list it, combine it or move it away; and a pack that    *)
(* was combined is moved away only after it left pack-names, where no      *)
(* other process can put it back because it is in nobody's additions.      *)
(***************************************************************************)
EXTENDS PackCollection, TLAPS

-----------------------------------------------------------------------------
\* The inductive invariant, in parts.

\* p has written pack-names and has not yet updated its list in memory.
Saved(p) == pc[p] \in {"clear", "unlock"}

\* The packs p has made and not yet listed in pack-names.
Added(p) == IF Saved(p) THEN {} ELSE mem[p] \ load[p]

\* The packs p has replaced and not yet removed from pack-names.
Removed(p) == IF Saved(p) THEN {} ELSE load[p] \ mem[p]

\* The packs p has in its variables.
Known(p) == mem[p] \cup load[p] \cup src[p] \cup gone[p] \cup merged[p]

\* Unlisted packs are on disk, and only their maker knows them.
AdditionsPrivate ==
  \A p \in Proc :
    /\ Added(p) \subseteq packs
    /\ Added(p) \cap names = {}
    /\ \A q \in Proc \ {p} : Added(p) \cap Known(q) = {}

\* Who saves has the mutex, and its merged list is up to date.
SaveInv ==
  \A p \in Proc :
    /\ pc[p] \in {"diff", "put", "clear", "unlock"} => mutex = p
    /\ pc[p] = "put" => merged[p] = DiffPackNames(p)
    /\ Saved(p) => names = merged[p] /\ load[p] = merged[p]
    /\ pc[p] = "obsolete" => mem[p] = load[p]

\* The packs p combines: its own list has them until they are replaced, and
\* from then on the next save takes them off the list.
SourcesInv ==
  \A p \in Proc :
    /\ pc[p] \in {"copy", "finish"} => src[p] \subseteq mem[p]
    /\ pc[p] \in {"lock", "diff", "put"} =>
         src[p] \cap mem[p] = {} /\ (src[p] \ load[p]) \cap names = {}
    /\ pc[p] = "clear" => src[p] \cap names = {}
    /\ gone[p] # {} => pc[p] \in {"unlock", "obsolete"}
    /\ gone[p] \cap names = {}

\* What p takes off the list is still in the packs that p puts on it.
ReplacedInv ==
  \A p \in Proc : Revs(Removed(p)) \subseteq Revs(Added(p))

\* The revision being committed is in the new packs, then on the list.
CommitInv ==
  \A p \in Proc : job[p] = "commit" =>
    /\ pc[p] \in {"plan", "copy", "finish", "lock", "diff", "put"} => cur[p] \in Revs(Added(p))
    /\ pc[p] \in {"clear", "unlock", "obsolete"} => cur[p] \in Revs(names)

Inv ==
  /\ TypeOK
  /\ NamesBacked
  /\ AdditionsPrivate
  /\ SaveInv
  /\ SourcesInv
  /\ MissingPackIsRetried
  /\ ReplacedInv
  /\ CommitInv

\* The packs p will list or move away.
Held(p) ==
  Added(p) \cup gone[p] \cup (IF pc[p] \in {"lock", "diff", "put", "clear"} THEN src[p] ELSE {})

\* Unless operations are interrupted, every file in packs/ is listed, or some
\* process will list it or move it away.
PacksAccounted ==
  /\ obsolete \cap packs = {}
  /\ \A n \in packs \ names : \E p \in Proc : n \in Held(p)

\* Unless operations are interrupted, a process between two operations has
\* nothing unsaved, and what it takes off the list is what it moves away.
NothingUnsaved ==
  \A p \in Proc :
    /\ pc[p] \in {"idle", "open"} => Added(p) = {}
    /\ pc[p] \in {"idle", "open", "plan", "copy", "finish"} => Removed(p) = {}
    /\ pc[p] \in {"plan", "copy", "finish"} =>
         (job[p] = "pack" /\ Added(p) = {}) \/ job[p] = "commit"
    /\ pc[p] \in {"copy", "finish"} => clear[p] /\ (job[p] = "commit" => Cardinality(src[p]) # 1)
    /\ pc[p] \in {"lock", "diff", "put"} =>
         Removed(p) \subseteq src[p] /\ (clear[p] \/ src[p] = {})

TidyInv == Inv /\ (~mode.faulty => PacksAccounted /\ NothingUnsaved)

-----------------------------------------------------------------------------
\* Type correctness.

\* A step keeps every variable in its type.
LEMMA TypeStep ==
  ASSUME TypeOK, [Next]_vars
  PROVE  TypeOK'
<1> USE PackAssumption DEF TypeOK, Points, memory, locals, disk
<1>1. CASE UNCHANGED vars
  BY <1>1 DEF vars
<1>2. ASSUME NEW p \in Proc, Step(p), UNCHANGED mode
      PROVE  TypeOK'
  <2> mode' = mode
    BY <1>2
  <2>1. CASE Lock(p)
    BY <2>1 DEF Lock, ReloadPackNames, DiffPackNames, Return, DropLocals, Goto
  <2>2. CASE Unlock(p)
    BY <2>2 DEF Unlock, Goto
  <2>3. CASE ReadMissing(p)
    BY <2>3, ZenonT(60) DEF ReadMissing, RetryWithNewPacks, ReloadPackNames, DiffPackNames, Return,
         DropLocals, Goto
  <2>4. CASE CommitWriteGroup(p)
    BY <2>4 DEF CommitWriteGroup, NewPack, Goto
  <2>5. CASE PackRepository(p)
    BY <2>5 DEF PackRepository, Goto
  <2>6. CASE Plan(p)
    <3>1. PICK S \in SUBSET mem[p] :
            /\ src' = [src EXCEPT ![p] = S]
            /\ pc' = [pc EXCEPT ![p] = "lock"] \/ pc' = [pc EXCEPT ![p] = "copy"]
      BY <2>6 DEF Plan, Plans, Goto
    <3>2. PICK b \in BOOLEAN : clear' = [clear EXCEPT ![p] = b]
      BY <2>6 DEF Plan
    <3> QED
      BY <2>6, <3>1, <3>2 DEF Plan
  <2>7. CASE CopyPacks(p)
    <3>1. CASE src[p] \subseteq packs
      BY <2>7, <3>1 DEF CopyPacks, Goto
    <3>2. CASE ~(src[p] \subseteq packs) /\ ReloadChanges(p)
      BY <2>7, <3>2 DEF CopyPacks, RetryWithNewPacks, ReloadPackNames, DiffPackNames, Goto
    <3>3. CASE ~(src[p] \subseteq packs) /\ ~ReloadChanges(p)
      <4>1. DiffPackNames(p) \in SUBSET Pack
        BY DEF DiffPackNames
      <4>2. mem' \in [Proc -> SUBSET Pack] /\ load' \in [Proc -> SUBSET Pack]
        BY <2>7, <3>3, <4>1 DEF CopyPacks, RetryWithNewPacks, ReloadPackNames
      <4>3. Return(p, "NoSuchFile") /\ UNCHANGED <<disk, mutex>>
        BY <2>7, <3>3 DEF CopyPacks, RetryWithNewPacks
      <4> QED
        BY <4>2, <4>3 DEF Return, DropLocals, Goto
    <3> QED
      BY <3>1, <3>2, <3>3
  <2>8. CASE FinishUnchanged(p)
    BY <2>8 DEF FinishUnchanged, CleanObsolete, Return, DropLocals, Goto
  <2>9. CASE FinishPack(p)
    <3>1. PICK n \in Pack :
            /\ packs' = packs \cup {n}
            /\ IF n \in mem[p]
               THEN Return(p, "AlreadyExists") /\ UNCHANGED mem
               ELSE /\ mem' = [mem EXCEPT ![p] = ReplaceSources(p, n)]
                    /\ Goto(p, "lock")
                    /\ UNCHANGED <<locals, ret>>
      BY <2>9 DEF FinishPack, NewNames
    <3>2. CASE n \in mem[p]
      BY <2>9, <3>1, <3>2, ZenonT(60) DEF FinishPack, Return, DropLocals, Goto
    <3>3. CASE n \notin mem[p]
      BY <2>9, <3>1, <3>3 DEF FinishPack, ReplaceSources, Goto
    <3> QED
      BY <3>2, <3>3
  <2>10. CASE LockNames(p)
    BY <2>10 DEF LockNames, Goto
  <2>11. CASE LockNamesFails(p)
    BY <2>11 DEF LockNamesFails, Return, DropLocals, Goto
  <2>12. CASE ReadNames(p)
    BY <2>12 DEF ReadNames, DiffPackNames, Goto
  <2>13. CASE PutNames(p)
    BY <2>13 DEF PutNames, Goto
  <2>14. CASE ClearObsolete(p)
    BY <2>14 DEF ClearObsolete, ToMove, Goto
  <2>15. CASE UnlockNames(p)
    BY <2>15 DEF UnlockNames, Goto
  <2>16. CASE ObsoletePack(p)
    BY <2>16 DEF ObsoletePack
  <2>17. CASE Finish(p)
    BY <2>17 DEF Finish, CleanObsolete, Return, DropLocals, Goto
  <2>18. CASE Crash(p)
    BY <2>18 DEF Crash, DropLocals, Goto
  <2> QED
    BY <1>2, <2>1, <2>2, <2>3, <2>4, <2>5, <2>6, <2>7, <2>8, <2>9, <2>10, <2>11, <2>12, <2>13,
         <2>14, <2>15, <2>16, <2>17, <2>18 DEF Step
<1> QED
  BY <1>1, <1>2 DEF Next

\* Every variable of every process keeps its type.
THEOREM TypeCorrect == Spec => []TypeOK
<1>1. Init => TypeOK
  BY PackAssumption DEF Init, TypeOK, Points
<1> QED
  BY <1>1, TypeStep, PTL DEF Spec

-----------------------------------------------------------------------------
\* What a step does to the lists in memory.

\* The variables of q are left alone.
Same(q) ==
  /\ pc'[q] = pc[q]
  /\ mem'[q] = mem[q]
  /\ load'[q] = load[q]
  /\ src'[q] = src[q]
  /\ merged'[q] = merged[q]
  /\ gone'[q] = gone[q]
  /\ job'[q] = job[q]
  /\ cur'[q] = cur[q]
  /\ ret'[q] = ret[q]

\* p changes neither disk nor what it has added.
Quiet(p) ==
  /\ UNCHANGED <<names, packs>>
  /\ Added(p)' = Added(p)
  /\ Removed(p)' \subseteq Removed(p)
  /\ Known(p)' \subseteq Known(p) \cup names

\* p makes a new pack, in place of others or not.
Adds(p) ==
  \E n \in Pack :
    /\ Fresh(n)
    /\ names' = names
    /\ packs' = packs \cup {n}
    /\ Added(p)' \subseteq Added(p) \cup {n}
    /\ Known(p)' \subseteq Known(p) \cup {n}
    /\ Revs(Added(p)) \subseteq Revs(Added(p)')
    /\ Revs(Removed(p)') \subseteq Revs(Added(p)')

\* p has nothing of its own any more.
Settles(p) ==
  /\ pc'[p] \in {"idle", "obsolete"}
  /\ UNCHANGED <<names, packs>>
  /\ Added(p)' = {}
  /\ Removed(p)' = {}
  /\ Known(p)' \subseteq Known(p)

\* p writes its changes to pack-names.
Saves(p) ==
  /\ pc[p] = "put"
  /\ packs' = packs
  /\ names' = (names \ Removed(p)) \cup Added(p)
  /\ Added(p)' = {}
  /\ Removed(p)' = {}
  /\ Known(p)' \subseteq Known(p)

\* p moves a pack away.
Moves(p) ==
  /\ pc[p] = "obsolete"
  /\ \E n \in gone[p] : packs' = packs \ {n}
  /\ names' = names
  /\ Added(p)' = Added(p)
  /\ Removed(p)' = Removed(p)
  /\ Known(p)' \subseteq Known(p)

\* The revisions of a union.
LEMMA RevsCup ==
  ASSUME NEW S, NEW T
  PROVE  /\ Revs(S \cup T) = Revs(S) \cup Revs(T)
         /\ S \subseteq T => Revs(S) \subseteq Revs(T)
BY DEF Revs

\* The revisions of packs that come from two sets.
LEMMA RevsSplit ==
  ASSUME NEW S, NEW A, NEW B, S \subseteq A \cup B
  PROVE  Revs(S) \subseteq Revs(A) \cup Revs(B)
BY DEF Revs

\* A step leaves the variables of the other processes alone.
LEMMA OthersSame ==
  ASSUME TypeOK, NEW p \in Proc, Step(p)
  PROVE  \A q \in Proc \ {p} : Same(q)
<1> TAKE q \in Proc \ {p}
<1> USE DEF TypeOK, Same, disk, memory, locals
<1>1. CASE Lock(p)
  BY <1>1 DEF Lock, ReloadPackNames, Return, DropLocals, Goto
<1>2. CASE Unlock(p)
  BY <1>2 DEF Unlock, Goto
<1>3. CASE ReadMissing(p)
  BY <1>3 DEF ReadMissing, RetryWithNewPacks, ReloadPackNames, Return, DropLocals, Goto
<1>4. CASE CommitWriteGroup(p)
  BY <1>4 DEF CommitWriteGroup, Goto
<1>5. CASE PackRepository(p)
  BY <1>5 DEF PackRepository, Goto
<1>6. CASE Plan(p)
  BY <1>6 DEF Plan, Goto
<1>7. CASE CopyPacks(p)
  BY <1>7 DEF CopyPacks, RetryWithNewPacks, ReloadPackNames, Return, DropLocals, Goto
<1>8. CASE FinishUnchanged(p)
  BY <1>8 DEF FinishUnchanged, Return, DropLocals, Goto
<1>9. CASE FinishPack(p)
  BY <1>9 DEF FinishPack, Return, DropLocals, Goto
<1>10. CASE LockNames(p)
  BY <1>10 DEF LockNames, Goto
<1>11. CASE LockNamesFails(p)
  BY <1>11 DEF LockNamesFails, Return, DropLocals, Goto
<1>12. CASE ReadNames(p)
  BY <1>12 DEF ReadNames, Goto
<1>13. CASE PutNames(p)
  BY <1>13 DEF PutNames, Goto
<1>14. CASE ClearObsolete(p)
  BY <1>14 DEF ClearObsolete, Goto
<1>15. CASE UnlockNames(p)
  BY <1>15 DEF UnlockNames, Goto
<1>16. CASE ObsoletePack(p)
  BY <1>16 DEF ObsoletePack
<1>17. CASE Finish(p)
  BY <1>17 DEF Finish, Return, DropLocals, Goto
<1>18. CASE Crash(p)
  BY <1>18 DEF Crash, DropLocals, Goto
<1> QED
  BY <1>1, <1>2, <1>3, <1>4, <1>5, <1>6, <1>7, <1>8, <1>9, <1>10, <1>11, <1>12, <1>13, <1>14,
       <1>15, <1>16, <1>17, <1>18 DEF Step

\* Every step has one of five effects on the lists.
LEMMA StepEffect ==
  ASSUME Inv, ~Collide, NEW p \in Proc, Step(p)
  PROVE  Quiet(p) \/ Adds(p) \/ Settles(p) \/ Saves(p) \/ Moves(p)
<1> USE DEF Inv, TypeOK, disk, memory, locals
<1>1. CASE Lock(p)
  BY <1>1 DEF Quiet, Added, Removed, Saved, Known, AdditionsPrivate, Lock, ReloadPackNames,
       DiffPackNames, Return, DropLocals, Goto
<1>2. CASE Unlock(p)
  BY <1>2 DEF Quiet, Added, Removed, Saved, Known, AdditionsPrivate, Unlock, Goto
<1>3. CASE ReadMissing(p)
  BY <1>3 DEF Quiet, Added, Removed, Saved, Known, AdditionsPrivate, ReadMissing,
       RetryWithNewPacks, ReloadPackNames, DiffPackNames, Return, DropLocals, Goto
<1>4. CASE CommitWriteGroup(p)
  <2>1. PICK n \in Pack :
          /\ Fresh(n)
          /\ packs' = packs \cup {n}
          /\ mem' = [mem EXCEPT ![p] = @ \cup {n}]
    BY <1>4 DEF CommitWriteGroup, NewPack
  <2>2. n \notin load[p]
    BY <2>1 DEF Fresh
  <2>3. Added(p)' = Added(p) \cup {n} /\ Removed(p)' = Removed(p)
    BY <1>4, <2>1, <2>2 DEF CommitWriteGroup, Goto, Added, Removed, Saved, Fresh
  <2>4. Known(p)' \subseteq Known(p) \cup {n} /\ names' = names
    BY <1>4, <2>1 DEF CommitWriteGroup, Known
  <2>5. Revs(Added(p)) \subseteq Revs(Added(p)')
    BY <2>3, RevsCup
  <2> QED
    BY <2>1, <2>3, <2>4, <2>5 DEF Adds, ReplacedInv
<1>5. CASE PackRepository(p)
  BY <1>5 DEF Quiet, Added, Removed, Saved, Known, AdditionsPrivate, PackRepository, Goto
<1>6. CASE Plan(p)
  BY <1>6 DEF Quiet, Added, Removed, Saved, Known, AdditionsPrivate, Plan, Plans, Goto
<1>7. CASE CopyPacks(p)
  BY <1>7 DEF Quiet, Added, Removed, Saved, Known, AdditionsPrivate, CopyPacks,
       RetryWithNewPacks, ReloadPackNames, DiffPackNames, Return, DropLocals, Goto
<1>8. CASE FinishUnchanged(p)
  BY <1>8 DEF Quiet, Added, Removed, Saved, Known, AdditionsPrivate, FinishUnchanged, Return,
       DropLocals, Goto
<1>9. CASE FinishPack(p)
  <2>1. PICK n \in Pack :
          /\ Fresh(n)
          /\ n.revs = Revs(src[p])
          /\ packs' = packs \cup {n}
          /\ IF n \in mem[p]
             THEN Return(p, "AlreadyExists") /\ UNCHANGED mem
             ELSE /\ mem' = [mem EXCEPT ![p] = ReplaceSources(p, n)]
                  /\ Goto(p, "lock")
                  /\ UNCHANGED <<locals, ret>>
    BY <1>9 DEF FinishPack, NewNames
  <2>2. n \notin mem[p] /\ n \notin load[p] /\ n \notin src[p]
    BY <2>1 DEF Fresh
  <2>3. mem' = [mem EXCEPT ![p] = (mem[p] \cup {n}) \ src[p]] /\ pc' = [pc EXCEPT ![p] = "lock"]
    BY <2>1, <2>2 DEF ReplaceSources, Goto
  <2>4. /\ Added(p)' = (Added(p) \ src[p]) \cup {n}
        /\ Removed(p)' \subseteq Removed(p) \cup src[p]
    BY <1>9, <2>2, <2>3 DEF FinishPack, Added, Removed, Saved
  <2>5. Revs(Added(p)') = Revs(Added(p) \ src[p]) \cup Revs(src[p])
    <3>1. Revs({n}) = Revs(src[p])
      BY <2>1 DEF Revs
    <3> QED
      BY <2>4, <3>1, RevsCup
  <2>6. Revs(Added(p)) \subseteq Revs(Added(p)')
    <3>1. Revs(Added(p)) \subseteq Revs(Added(p) \ src[p]) \cup Revs(src[p])
      BY RevsSplit
    <3> QED
      BY <2>5, <3>1
  <2>7. Revs(Removed(p)') \subseteq Revs(Added(p)')
    <3>1. Revs(Removed(p)') \subseteq Revs(Removed(p)) \cup Revs(src[p])
      BY <2>4, RevsSplit
    <3> QED
      BY <2>5, <2>6, <3>1 DEF ReplacedInv
  <2>8. Known(p)' \subseteq Known(p) \cup {n} /\ names' = names
    BY <1>9, <2>1, <2>2, <2>3 DEF FinishPack, Known
  <2> QED
    BY <2>1, <2>4, <2>6, <2>7, <2>8 DEF Adds
<1>10. CASE LockNames(p)
  BY <1>10 DEF Quiet, Added, Removed, Saved, Known, AdditionsPrivate, LockNames, Goto
<1>11. CASE LockNamesFails(p)
  BY <1>11 DEF Quiet, Added, Removed, Saved, Known, AdditionsPrivate, LockNamesFails, Return,
       DropLocals, Goto
<1>12. CASE ReadNames(p)
  BY <1>12 DEF Quiet, Added, Removed, Saved, Known, AdditionsPrivate, ReadNames, DiffPackNames, Goto
<1>13. CASE PutNames(p)
  BY <1>13 DEF Saves, Added, Removed, Saved, Known, AdditionsPrivate, PutNames, DiffPackNames,
       SaveInv, Goto
<1>14. CASE ClearObsolete(p)
  BY <1>14 DEF Quiet, Added, Removed, Saved, Known, AdditionsPrivate, ClearObsolete, ToMove, Goto
<1>15. CASE UnlockNames(p)
  BY <1>15 DEF Settles, Added, Removed, Saved, Known, AdditionsPrivate, UnlockNames, SaveInv, Goto
<1>16. CASE ObsoletePack(p)
  BY <1>16 DEF Moves, Added, Removed, Saved, Known, AdditionsPrivate, ObsoletePack
<1>17. CASE Finish(p)
  BY <1>17 DEF Quiet, Added, Removed, Saved, Known, AdditionsPrivate, Finish, Return, DropLocals,
       Goto
<1>18. CASE Crash(p)
  BY <1>18 DEF Settles, Added, Removed, Saved, Known, AdditionsPrivate, Crash, DropLocals, Goto
<1> QED
  BY <1>1, <1>2, <1>3, <1>4, <1>5, <1>6, <1>7, <1>8, <1>9, <1>10, <1>11, <1>12, <1>13, <1>14,
       <1>15, <1>16, <1>17, <1>18 DEF Step

-----------------------------------------------------------------------------
\* The parts of the invariant are preserved.

\* No process learns of the unlisted packs of another.
LEMMA AdditionsStep ==
  ASSUME Inv, ~Collide, NEW p \in Proc, Step(p)
  PROVE  AdditionsPrivate' /\ NamesBacked'
<1>1. \A q \in Proc \ {p} : Added(q)' = Added(q) /\ Known(q)' = Known(q)
  BY OthersSame DEF Inv, Same, Added, Saved, Known
<1>2. Added(p) \subseteq Known(p)
  BY DEF Added, Known
<1> USE DEF Inv, AdditionsPrivate, NamesBacked
<1>3. CASE Quiet(p)
  BY <1>1, <1>2, <1>3 DEF Quiet
<1>4. CASE Adds(p)
  <2>1. PICK n \in Pack :
          /\ Fresh(n)
          /\ names' = names
          /\ packs' = packs \cup {n}
          /\ Added(p)' \subseteq Added(p) \cup {n}
          /\ Known(p)' \subseteq Known(p) \cup {n}
    BY <1>4 DEF Adds
  <2>2. n \notin names /\ n \notin packs /\ \A q \in Proc : n \notin Known(q)
    BY <2>1 DEF Fresh, Known
  <2> QED
    BY <1>1, <1>2, <2>1, <2>2
<1>5. CASE Settles(p)
  BY <1>1, <1>2, <1>5 DEF Settles
<1>6. CASE Saves(p)
  BY <1>1, <1>2, <1>6 DEF Saves
<1>7. CASE Moves(p)
  <2>1. PICK n \in gone[p] : packs' = packs \ {n}
    BY <1>7 DEF Moves
  <2>2. n \notin names /\ n \in Known(p)
    BY DEF SourcesInv, Known
  <2>3. Added(p) = {}
    BY <1>7 DEF Moves, SaveInv, Added
  <2> QED
    BY <1>1, <1>2, <1>7, <2>1, <2>2, <2>3 DEF Moves
<1> QED
  BY <1>3, <1>4, <1>5, <1>6, <1>7, StepEffect

\* What a process takes off the list stays in what it puts on.
LEMMA ReplacedStep ==
  ASSUME Inv, ~Collide, NEW p \in Proc, Step(p)
  PROVE  ReplacedInv'
<1>1. \A q \in Proc \ {p} : Added(q)' = Added(q) /\ Removed(q)' = Removed(q)
  BY OthersSame DEF Inv, Same, Added, Removed, Saved
<1>2. \A q \in Proc \ {p} : Revs(Removed(q)') \subseteq Revs(Added(q)')
  BY <1>1 DEF Inv, ReplacedInv
<1>3. Revs(Removed(p)') \subseteq Revs(Added(p)')
  <2>1. CASE Quiet(p) \/ Moves(p)
    BY <2>1, RevsCup DEF Quiet, Moves, Inv, ReplacedInv
  <2>2. CASE Adds(p)
    BY <2>2 DEF Adds
  <2>3. CASE Settles(p) \/ Saves(p)
    BY <2>3 DEF Settles, Saves, Revs
  <2> QED
    BY <2>1, <2>2, <2>3, StepEffect
<1> QED
  BY <1>2, <1>3 DEF ReplacedInv, Revs

\* No save loses a revision.
LEMMA RevisionsStay ==
  ASSUME Inv, ~Collide, NEW p \in Proc, Step(p)
  PROVE  Revs(names) \subseteq Revs(names')
<1>1. CASE Saves(p)
  <2>2. Revs(names) \subseteq Revs(names \ Removed(p)) \cup Revs(Removed(p))
    BY RevsSplit
  <2>1. Revs(names') = Revs(names \ Removed(p)) \cup Revs(Added(p))
    BY <1>1, RevsCup DEF Saves
  <2> QED
    BY <2>1, <2>2 DEF Inv, ReplacedInv
<1>2. CASE names' = names
  BY <1>2 DEF Revs
<1> QED
  BY <1>1, <1>2, StepEffect DEF Quiet, Adds, Settles, Moves

\* Who saves has the mutex, and its merged list is up to date.
LEMMA SaveStep ==
  ASSUME Inv, NEW p \in Proc, Step(p)
  PROVE  SaveInv'
<1> USE PackAssumption DEF Inv, TypeOK, SaveInv, Saved, disk, memory, locals
<1>1. CASE Lock(p)
  BY <1>1, OthersSame DEF Same, DiffPackNames, Lock, Return, DropLocals, Goto
<1>2. CASE Unlock(p)
  BY <1>2, OthersSame DEF Same, DiffPackNames, Unlock, Goto
<1>3. CASE ReadMissing(p)
  BY <1>3, OthersSame DEF Same, DiffPackNames, ReadMissing, RetryWithNewPacks, Return,
       DropLocals, Goto
<1>4. CASE CommitWriteGroup(p)
  BY <1>4, OthersSame DEF Same, DiffPackNames, CommitWriteGroup, Goto
<1>5. CASE PackRepository(p)
  BY <1>5, OthersSame DEF Same, DiffPackNames, PackRepository, Goto
<1>6. CASE Plan(p)
  BY <1>6, OthersSame DEF Same, DiffPackNames, Plan, Goto
<1>7. CASE CopyPacks(p)
  BY <1>7, OthersSame DEF Same, DiffPackNames, CopyPacks, RetryWithNewPacks, Return, DropLocals,
       Goto
<1>8. CASE FinishUnchanged(p)
  BY <1>8, OthersSame DEF Same, DiffPackNames, FinishUnchanged, Return, DropLocals, Goto
<1>9. CASE FinishPack(p)
  BY <1>9, OthersSame DEF Same, DiffPackNames, FinishPack, Return, DropLocals, Goto
<1>10. CASE LockNames(p)
  BY <1>10, OthersSame DEF Same, DiffPackNames, LockNames, MutexFree, Goto
<1>11. CASE LockNamesFails(p)
  BY <1>11, OthersSame DEF Same, DiffPackNames, LockNamesFails, Return, DropLocals, Goto
<1>12. CASE ReadNames(p)
  BY <1>12, OthersSame DEF Same, DiffPackNames, ReadNames, Goto
<1>13. CASE PutNames(p)
  BY <1>13, OthersSame DEF Same, DiffPackNames, PutNames, Goto
<1>14. CASE ClearObsolete(p)
  BY <1>14, OthersSame DEF Same, DiffPackNames, ClearObsolete, Goto
<1>15. CASE UnlockNames(p)
  BY <1>15, OthersSame DEF Same, DiffPackNames, UnlockNames, Goto
<1>16. CASE ObsoletePack(p)
  BY <1>16, OthersSame DEF Same, DiffPackNames, ObsoletePack
<1>17. CASE Finish(p)
  BY <1>17, OthersSame DEF Same, DiffPackNames, Finish, Return, DropLocals, Goto
<1>18. CASE Crash(p)
  BY <1>18, OthersSame DEF Same, DiffPackNames, Crash, DropLocals, Goto
<1> QED
  BY <1>1, <1>2, <1>3, <1>4, <1>5, <1>6, <1>7, <1>8, <1>9, <1>10, <1>11, <1>12, <1>13, <1>14,
       <1>15, <1>16, <1>17, <1>18 DEF Step

\* The packs that are combined leave the list before they are moved away.
LEMMA SourcesStep ==
  ASSUME Inv, ~Collide, NEW p \in Proc, Step(p)
  PROVE  SourcesInv'
<1> USE DEF Inv, TypeOK, SourcesInv, Saved, disk, memory, locals
<1>1. CASE Lock(p)
  BY <1>1, OthersSame DEF Same, Lock, Return, DropLocals, Goto
<1>2. CASE Unlock(p)
  BY <1>2, OthersSame DEF Same, Unlock, Goto
<1>3. CASE ReadMissing(p)
  BY <1>3, OthersSame DEF Same, ReadMissing, RetryWithNewPacks, Return, DropLocals, Goto
<1>4. CASE CommitWriteGroup(p)
  BY <1>4, OthersSame DEF Same, CommitWriteGroup, Goto
<1>5. CASE PackRepository(p)
  BY <1>5, OthersSame DEF Same, PackRepository, Goto
<1>6. CASE Plan(p)
  BY <1>6, OthersSame DEF Same, Plan, Plans, Goto
<1>7. CASE CopyPacks(p)
  BY <1>7, OthersSame DEF Same, CopyPacks, RetryWithNewPacks, Return, DropLocals, Goto
<1>8. CASE FinishUnchanged(p)
  BY <1>8, OthersSame DEF Same, FinishUnchanged, Return, DropLocals, Goto
<1>9. CASE FinishPack(p)
  <2>1. PICK n \in Pack :
          /\ Fresh(n)
          /\ IF n \in mem[p]
             THEN Return(p, "AlreadyExists") /\ UNCHANGED mem
             ELSE /\ mem' = [mem EXCEPT ![p] = ReplaceSources(p, n)]
                  /\ Goto(p, "lock")
                  /\ UNCHANGED <<locals, ret>>
    BY <1>9 DEF FinishPack, NewNames
  <2>2. n \notin mem[p] /\ n \notin src[p]
    BY <2>1 DEF Fresh
  <2>3. mem' = [mem EXCEPT ![p] = (mem[p] \cup {n}) \ src[p]] /\ pc' = [pc EXCEPT ![p] = "lock"]
    BY <2>1, <2>2 DEF ReplaceSources, Goto
  <2>4. UNCHANGED <<names, load, src, gone>>
    BY <1>9, <2>1, <2>2 DEF FinishPack
  <2>5. (src[p] \ load[p]) \cap names = {}
    BY <1>9 DEF FinishPack, AdditionsPrivate, Added
  <2> QED
    BY <1>9, <2>3, <2>4, <2>5, OthersSame DEF FinishPack, Same
<1>10. CASE LockNames(p)
  BY <1>10, OthersSame DEF Same, LockNames, MutexFree, Goto
<1>11. CASE LockNamesFails(p)
  BY <1>11, OthersSame DEF Same, LockNamesFails, Return, DropLocals, Goto
<1>12. CASE ReadNames(p)
  BY <1>12, OthersSame DEF Same, ReadNames, DiffPackNames, Goto
<1>13. CASE PutNames(p)
  <2>1. names' = (names \ Removed(p)) \cup Added(p)
    BY <1>13 DEF PutNames, SaveInv, DiffPackNames, Added, Removed
  <2>2. src[p] \cap names' = {} /\ gone[p] = {}
    BY <1>13, <2>1 DEF PutNames, Added, Removed
  <2>3. \A q \in Proc \ {p} : (src[q] \cup gone[q]) \cap names' \subseteq names
    BY <2>1 DEF AdditionsPrivate, Known
  <2>4. \A q \in Proc \ {p} : pc[q] # "clear"
    BY <1>13 DEF PutNames, SaveInv
  <2>5. UNCHANGED <<mem, src, gone>> /\ pc'[p] \in {"clear", "unlock"}
    BY <1>13 DEF PutNames, Goto
  <2> QED
    BY <2>2, <2>3, <2>4, <2>5, OthersSame DEF Same
<1>14. CASE ClearObsolete(p)
  BY <1>14, OthersSame DEF Same, ClearObsolete, ToMove, Goto
<1>15. CASE UnlockNames(p)
  BY <1>15, OthersSame DEF Same, UnlockNames, Goto
<1>16. CASE ObsoletePack(p)
  BY <1>16, OthersSame DEF Same, ObsoletePack
<1>17. CASE Finish(p)
  BY <1>17, OthersSame DEF Same, Finish, Return, DropLocals, Goto
<1>18. CASE Crash(p)
  BY <1>18, OthersSame DEF Same, Crash, DropLocals, Goto
<1> QED
  BY <1>1, <1>2, <1>3, <1>4, <1>5, <1>6, <1>7, <1>8, <1>9, <1>10, <1>11, <1>12, <1>13, <1>14,
       <1>15, <1>16, <1>17, <1>18 DEF Step

\* A pack that is gone is on no list that was just read.
LEMMA RetryStep ==
  ASSUME Inv, NEW p \in Proc, Step(p)
  PROVE  MissingPackIsRetried'
<1> USE DEF Inv, TypeOK, MissingPackIsRetried, memory, locals
<1>1. ~Saved(p) => DiffPackNames(p) \subseteq packs
  BY DEF NamesBacked, AdditionsPrivate, Added, DiffPackNames
<1>2. \A q \in Proc \ {p} : ret'[q] # "NoSuchFile"
  BY OthersSame DEF Same
<1>3. ret'[p] # "NoSuchFile"
  <2>1. CASE ReadMissing(p)
    <3>1. DiffPackNames(p) # mem[p]
      BY <2>1, <1>1 DEF ReadMissing, Saved
    <3> QED
      BY <2>1, <3>1 DEF ReadMissing, RetryWithNewPacks, ReloadChanges
  <2>2. CASE CopyPacks(p) /\ ~(src[p] \subseteq packs)
    <3>1. DiffPackNames(p) # mem[p]
      BY <2>2, <1>1 DEF CopyPacks, Saved, SourcesInv
    <3> QED
      BY <2>2, <3>1 DEF CopyPacks, RetryWithNewPacks, ReloadChanges
  <2>3. CASE CopyPacks(p) /\ src[p] \subseteq packs
    BY <2>3 DEF CopyPacks
  <2>4. CASE Lock(p) \/ FinishUnchanged(p) \/ LockNamesFails(p) \/ Finish(p) \/ Crash(p)
    BY <2>4 DEF Lock, FinishUnchanged, LockNamesFails, Finish, Crash, Return
  <2>5. CASE FinishPack(p)
    BY <2>5 DEF FinishPack, Return
  <2>6. CASE ret' = ret
    BY <2>6
  <2> QED
    BY <2>1, <2>2, <2>3, <2>4, <2>5, <2>6
    DEF Step, Unlock, CommitWriteGroup, PackRepository, Plan, LockNames, ReadNames, PutNames,
        ClearObsolete, UnlockNames, ObsoletePack
<1> QED
  BY <1>2, <1>3

\* The revision being committed is never dropped on the way to pack-names.
LEMMA CommitStep ==
  ASSUME Inv, ~Collide, NEW p \in Proc, Step(p)
  PROVE  CommitInv'
<1> USE DEF Inv, TypeOK, disk, memory, locals
<1> DEFINE Before == {"plan", "copy", "finish", "lock", "diff", "put"}
           After == {"clear", "unlock", "obsolete"}
<1>1. \A q \in Proc \ {p} : Same(q) /\ Added(q)' = Added(q)
  BY OthersSame, ZenonT(60) DEF Same, Added, Saved
<1>2. Revs(names) \subseteq Revs(names')
  BY RevisionsStay
<1>3. ASSUME NEW q \in Proc \ {p}, job'[q] = "commit"
      PROVE  /\ pc'[q] \in Before => cur'[q] \in Revs(Added(q)')
             /\ pc'[q] \in After => cur'[q] \in Revs(names')
  BY <1>1, <1>2, <1>3 DEF CommitInv, Same
<1>4. ASSUME job'[p] = "commit"
      PROVE  /\ pc'[p] \in Before => cur'[p] \in Revs(Added(p)')
             /\ pc'[p] \in After => cur'[p] \in Revs(names')
  <2>1. CASE CommitWriteGroup(p)
    <3>1. PICK r \in Rev, n \in Pack :
            /\ n.revs = {r}
            /\ Fresh(n)
            /\ mem' = [mem EXCEPT ![p] = @ \cup {n}]
            /\ cur' = [cur EXCEPT ![p] = r]
      BY <2>1 DEF CommitWriteGroup, NewPack
    <3>2. n \in Added(p)'
      BY <2>1, <3>1 DEF CommitWriteGroup, Goto, Added, Saved, Fresh
    <3>3. pc'[p] = "plan"
      BY <2>1 DEF CommitWriteGroup, Goto
    <3> QED
      BY <3>1, <3>2, <3>3 DEF Revs
  <2>2. CASE FinishPack(p)
    <3>1. PICK n \in Pack :
            /\ IF n \in mem[p]
               THEN Return(p, "AlreadyExists") /\ UNCHANGED mem
               ELSE /\ mem' = [mem EXCEPT ![p] = ReplaceSources(p, n)]
                    /\ Goto(p, "lock")
                    /\ UNCHANGED <<locals, ret>>
      BY <2>2 DEF FinishPack, NewNames
    <3>2. pc'[p] = "lock" /\ UNCHANGED <<cur, job>>
      BY <1>4, <3>1 DEF Return, DropLocals, Goto
    <3>3. cur[p] \in Revs(Added(p))
      BY <1>4, <2>2, <3>2 DEF FinishPack, CommitInv
    <3>4. Revs(Added(p)) \subseteq Revs(Added(p)')
      BY <2>2, <3>2, StepEffect DEF FinishPack, Quiet, Adds, Settles, Saves, Moves, Revs
    <3> QED
      BY <3>2, <3>3, <3>4
  <2>3. CASE PutNames(p)
    <3>1. names' = (names \ Removed(p)) \cup Added(p)
      BY <2>3 DEF PutNames, SaveInv, DiffPackNames, Added, Removed, Saved
    <3>2. cur[p] \in Revs(Added(p))
      BY <1>4, <2>3 DEF PutNames, CommitInv
    <3>3. pc'[p] \notin Before /\ cur'[p] = cur[p]
      BY <2>3 DEF PutNames, Goto
    <3> QED
      BY <3>1, <3>2, <3>3 DEF Revs
  <2>4. CASE Lock(p) \/ FinishUnchanged(p) \/ LockNamesFails(p) \/ Finish(p) \/ Crash(p) \/ PackRepository(p)
    BY <1>4, <2>4 DEF Lock, FinishUnchanged, LockNamesFails, Finish, Crash, PackRepository, Return,
                      DropLocals
  <2>5. CASE Unlock(p) \/ ReadMissing(p)
    BY <1>4, <2>5 DEF Unlock, ReadMissing, RetryWithNewPacks, Return, DropLocals, Goto
  <2>6. CASE CopyPacks(p)
    <3>1. pc'[p] \in Before /\ UNCHANGED <<names, packs, cur, job>>
      BY <1>4, <2>6 DEF CopyPacks, RetryWithNewPacks, Return, DropLocals, Goto
    <3>2. Added(p)' = Added(p)
      BY <2>6, <3>1, StepEffect DEF CopyPacks, Quiet, Adds, Settles, Saves, Moves, Fresh
    <3> QED
      BY <1>4, <2>6, <3>1, <3>2 DEF CopyPacks, CommitInv
  <2>7. CASE Plan(p) \/ LockNames(p) \/ ReadNames(p)
    <3>1. pc[p] \in Before /\ pc'[p] \in Before /\ UNCHANGED <<mem, load, cur, job>>
      BY <2>7 DEF Plan, LockNames, ReadNames, Goto
    <3> QED
      BY <1>4, <3>1 DEF CommitInv, Added, Saved
  <2>8. CASE ClearObsolete(p) \/ UnlockNames(p) \/ ObsoletePack(p)
    <3>1. pc[p] \in After /\ pc'[p] \in After /\ UNCHANGED <<names, cur, job>>
      BY <2>8 DEF ClearObsolete, UnlockNames, ObsoletePack, Goto
    <3> QED
      BY <1>4, <3>1 DEF CommitInv
  <2> QED
    BY <2>1, <2>2, <2>3, <2>4, <2>5, <2>6, <2>7, <2>8 DEF Step
<1> QED
  BY <1>3, <1>4 DEF CommitInv

-----------------------------------------------------------------------------
\* No pack is left behind.

\* A step of an uninterrupted process leaves nothing unsaved when it ends.
LEMMA UnsavedStep ==
  ASSUME TidyInv, ~Collide, ~mode.faulty, NEW p \in Proc, Step(p)
  PROVE  NothingUnsaved'
<1> USE DEF TidyInv, Inv, TypeOK, NothingUnsaved, Added, Removed, Saved, disk, memory, locals
<1>0. ret'[p] # "NoSuchFile"
  BY RetryStep DEF MissingPackIsRetried
<1>1. CASE Lock(p)
  BY <1>0, <1>1, OthersSame DEF Same, AdditionsPrivate, Lock, ReloadPackNames, DiffPackNames,
       Return, DropLocals, Goto
<1>2. CASE Unlock(p)
  BY <1>0, <1>2, OthersSame DEF Same, AdditionsPrivate, Unlock, Goto
<1>3. CASE ReadMissing(p)
  BY <1>0, <1>3, OthersSame DEF Same, AdditionsPrivate, ReadMissing, RetryWithNewPacks,
       ReloadPackNames, DiffPackNames, Return, DropLocals, Goto
<1>4. CASE CommitWriteGroup(p)
  BY <1>0, <1>4, OthersSame DEF Same, AdditionsPrivate, CommitWriteGroup, NewPack, Fresh, Goto
<1>5. CASE PackRepository(p)
  BY <1>0, <1>5, OthersSame DEF Same, AdditionsPrivate, PackRepository, Goto
<1>6. CASE Plan(p)
  BY <1>0, <1>6, OthersSame DEF Same, AdditionsPrivate, Plan, Plans, Goto
<1>7. CASE CopyPacks(p)
  BY <1>0, <1>7, OthersSame DEF Same, AdditionsPrivate, CopyPacks, RetryWithNewPacks,
       ReloadPackNames, DiffPackNames, Return, DropLocals, Goto
<1>8. CASE FinishUnchanged(p)
  BY <1>0, <1>8, OthersSame DEF Same, AdditionsPrivate, FinishUnchanged, Return, DropLocals, Goto
<1>9. CASE FinishPack(p)
  <2>1. PICK n \in Pack :
          /\ Fresh(n)
          /\ IF n \in mem[p]
             THEN Return(p, "AlreadyExists") /\ UNCHANGED mem
             ELSE /\ mem' = [mem EXCEPT ![p] = ReplaceSources(p, n)]
                  /\ Goto(p, "lock")
                  /\ UNCHANGED <<locals, ret>>
    BY <1>9 DEF FinishPack, NewNames
  <2>2. n \notin mem[p]
    BY <2>1 DEF Fresh
  <2>3. mem' = [mem EXCEPT ![p] = (mem[p] \cup {n}) \ src[p]] /\ pc' = [pc EXCEPT ![p] = "lock"]
    BY <2>1, <2>2 DEF ReplaceSources, Goto
  <2>4. UNCHANGED <<load, src, clear>>
    BY <1>9, <2>1, <2>2 DEF FinishPack
  <2> QED
    BY <1>9, <2>3, <2>4, OthersSame DEF FinishPack, Same
<1>10. CASE LockNames(p)
  BY <1>0, <1>10, OthersSame DEF Same, AdditionsPrivate, LockNames, Goto
<1>11. CASE LockNamesFails(p)
  BY <1>0, <1>11, OthersSame DEF Same, AdditionsPrivate, LockNamesFails
<1>12. CASE ReadNames(p)
  BY <1>0, <1>12, OthersSame DEF Same, AdditionsPrivate, ReadNames, Goto
<1>13. CASE PutNames(p)
  BY <1>0, <1>13, OthersSame DEF Same, AdditionsPrivate, PutNames, Goto
<1>14. CASE ClearObsolete(p)
  BY <1>0, <1>14, OthersSame DEF Same, AdditionsPrivate, ClearObsolete, Goto
<1>15. CASE UnlockNames(p)
  BY <1>0, <1>15, OthersSame DEF Same, AdditionsPrivate, UnlockNames, SaveInv, Goto
<1>16. CASE ObsoletePack(p)
  BY <1>0, <1>16, OthersSame DEF Same, AdditionsPrivate, ObsoletePack
<1>17. CASE Finish(p)
  BY <1>0, <1>17, OthersSame DEF Same, AdditionsPrivate, Finish, SaveInv, Return, DropLocals, Goto
<1>18. CASE Crash(p)
  BY <1>0, <1>18, OthersSame DEF Same, AdditionsPrivate, Crash
<1> QED
  BY <1>1, <1>2, <1>3, <1>4, <1>5, <1>6, <1>7, <1>8, <1>9, <1>10, <1>11, <1>12, <1>13, <1>14,
       <1>15, <1>16, <1>17, <1>18 DEF Step

\* A step of an uninterrupted process keeps track of every pack.
LEMMA AccountedStep ==
  ASSUME TidyInv, ~Collide, ~mode.faulty, NEW p \in Proc, Step(p)
  PROVE  PacksAccounted'
<1> USE DEF TidyInv, Inv, TypeOK, disk, memory, locals
<1>a. \A q \in Proc \ {p} : Held(q)' = Held(q)
  BY OthersSame DEF Same, Held, Added, Saved
<1>b. ASSUME obsolete' \cap packs' = {},
             \A n \in packs' \ names' : n \in Held(p)' \/ (n \in packs \ names /\ n \notin Held(p))
      PROVE  PacksAccounted'
  BY <1>a, <1>b DEF PacksAccounted
<1>c. ret'[p] # "NoSuchFile"
  BY RetryStep DEF MissingPackIsRetried
<1>1. CASE Lock(p)
  BY <1>b, <1>c, <1>1 DEF PacksAccounted, NothingUnsaved, AdditionsPrivate, SourcesInv, Held,
       Added, Removed, Saved, Lock, ReloadPackNames, DiffPackNames, Return, DropLocals, Goto
<1>2. CASE Unlock(p)
  BY <1>b, <1>c, <1>2 DEF PacksAccounted, NothingUnsaved, AdditionsPrivate, SourcesInv, Held,
       Added, Removed, Saved, Unlock, Goto
<1>3. CASE ReadMissing(p)
  BY <1>b, <1>c, <1>3 DEF PacksAccounted, NothingUnsaved, AdditionsPrivate, SourcesInv, Held,
       Added, Removed, Saved, ReadMissing, RetryWithNewPacks, ReloadPackNames, DiffPackNames,
       Return, DropLocals, Goto
<1>4. CASE CommitWriteGroup(p)
  BY <1>b, <1>c, <1>4 DEF PacksAccounted, NothingUnsaved, AdditionsPrivate, SourcesInv, Held,
       Added, Removed, Saved, CommitWriteGroup, NewPack, Fresh, Goto
<1>5. CASE PackRepository(p)
  BY <1>b, <1>c, <1>5 DEF PacksAccounted, NothingUnsaved, AdditionsPrivate, SourcesInv, Held,
       Added, Removed, Saved, PackRepository, Goto
<1>6. CASE Plan(p)
  BY <1>b, <1>c, <1>6 DEF PacksAccounted, NothingUnsaved, AdditionsPrivate, SourcesInv, Held,
       Added, Removed, Saved, Plan, Plans, Goto
<1>7. CASE CopyPacks(p)
  BY <1>b, <1>c, <1>7 DEF PacksAccounted, NothingUnsaved, AdditionsPrivate, SourcesInv, Held,
       Added, Removed, Saved, CopyPacks, RetryWithNewPacks, ReloadPackNames, DiffPackNames,
       Return, DropLocals, Goto
<1>8. CASE FinishUnchanged(p)
  BY <1>b, <1>c, <1>8 DEF PacksAccounted, NothingUnsaved, AdditionsPrivate, SourcesInv, Held,
       Added, Removed, Saved, FinishUnchanged, CleanObsolete, Return, DropLocals, Goto
<1>9. CASE FinishPack(p)
  BY <1>b, <1>c, <1>9 DEF PacksAccounted, NothingUnsaved, AdditionsPrivate, SourcesInv, Held,
       Added, Removed, Saved, FinishPack, NewNames, Fresh, ReplaceSources, Return, DropLocals, Goto
<1>10. CASE LockNames(p)
  BY <1>b, <1>c, <1>10 DEF PacksAccounted, NothingUnsaved, AdditionsPrivate, SourcesInv, Held,
       Added, Removed, Saved, LockNames, Goto
<1>11. CASE LockNamesFails(p)
  BY <1>b, <1>c, <1>11 DEF PacksAccounted, NothingUnsaved, AdditionsPrivate, SourcesInv, Held,
       Added, Removed, Saved, LockNamesFails
<1>12. CASE ReadNames(p)
  BY <1>b, <1>c, <1>12 DEF PacksAccounted, NothingUnsaved, AdditionsPrivate, SourcesInv, Held,
       Added, Removed, Saved, ReadNames, Goto
<1>13. CASE PutNames(p)
  BY <1>b, <1>c, <1>13 DEF PacksAccounted, NothingUnsaved, AdditionsPrivate, SourcesInv, Held,
       Added, Removed, Saved, PutNames, SaveInv, DiffPackNames, Goto
<1>14. CASE ClearObsolete(p)
  BY <1>b, <1>c, <1>14 DEF PacksAccounted, NothingUnsaved, AdditionsPrivate, SourcesInv, Held,
       Added, Removed, Saved, ClearObsolete, ToMove, Goto
<1>15. CASE UnlockNames(p)
  BY <1>b, <1>c, <1>15 DEF PacksAccounted, NothingUnsaved, AdditionsPrivate, SourcesInv, Held,
       Added, Removed, Saved, UnlockNames, SaveInv, Goto
<1>16. CASE ObsoletePack(p)
  BY <1>b, <1>c, <1>16 DEF PacksAccounted, NothingUnsaved, AdditionsPrivate, SourcesInv, Held,
       Added, Removed, Saved, ObsoletePack
<1>17. CASE Finish(p)
  BY <1>b, <1>c, <1>17 DEF PacksAccounted, NothingUnsaved, AdditionsPrivate, SourcesInv, Held,
       Added, Removed, Saved, Finish, CleanObsolete, SaveInv, Return, DropLocals, Goto
<1>18. CASE Crash(p)
  BY <1>b, <1>c, <1>18 DEF PacksAccounted, NothingUnsaved, AdditionsPrivate, SourcesInv, Held,
       Added, Removed, Saved, Crash
<1> QED
  BY <1>1, <1>2, <1>3, <1>4, <1>5, <1>6, <1>7, <1>8, <1>9, <1>10, <1>11, <1>12, <1>13, <1>14,
       <1>15, <1>16, <1>17, <1>18 DEF Step

-----------------------------------------------------------------------------
\* The theorems.

\* The invariant is inductive.
LEMMA InvStep ==
  ASSUME Inv, ~Collide, [Next]_vars
  PROVE  Inv'
<1>1. CASE UNCHANGED vars
  BY <1>1 DEF vars, disk, memory, locals, Inv, TypeOK, NamesBacked, AdditionsPrivate, SaveInv,
              SourcesInv, MissingPackIsRetried, ReplacedInv, CommitInv, Added, Removed, Saved,
              Known, DiffPackNames, Revs
<1>2. ASSUME NEW p \in Proc, Step(p), UNCHANGED mode
      PROVE  Inv'
  <2>1. TypeOK'
    BY <1>2, TypeStep DEF Inv, Next
  <2> QED
    BY <1>2, <2>1, AdditionsStep, ReplacedStep, SaveStep, SourcesStep, RetryStep, CommitStep DEF Inv
<1> QED
  BY <1>1, <1>2 DEF Next

\* The initial state, of an empty repository, satisfies the invariant.
LEMMA InvInit == Init => Inv
<1> SUFFICES ASSUME Init PROVE Inv
  OBVIOUS
<1>1. TypeOK
  BY PackAssumption DEF Init, TypeOK, Points
<1>2. ReplacedInv /\ CommitInv
  BY DEF Init, ReplacedInv, CommitInv, Removed, Saved, Revs
<1> QED
  BY <1>1, <1>2 DEF Init, Inv, NamesBacked, AdditionsPrivate, SaveInv, SourcesInv,
                    MissingPackIsRetried, Added, Saved, Known

\* So is the stronger one of uninterrupted processes.
LEMMA TidyStep ==
  ASSUME TidyInv, ~Collide, [Next]_vars
  PROVE  TidyInv'
<1>1. Inv'
  BY InvStep DEF TidyInv
<1>2. CASE UNCHANGED vars
  BY <1>1, <1>2 DEF vars, disk, memory, locals, TidyInv, PacksAccounted, NothingUnsaved, Held,
                    Added, Removed, Saved
<1>3. CASE Next
  BY <1>1, <1>3, UnsavedStep, AccountedStep DEF Next, TidyInv
<1> QED
  BY <1>2, <1>3

\* As long as no two packers produce the same name, every pack that pack-names
\* lists is in packs/, whatever processes commit, repack, fail and die.
THEOREM ListedPacksExist ==
  ASSUME ~Collide
  PROVE  Spec => []NamesBacked
<1>1. Inv => NamesBacked
  BY DEF Inv
<1> QED
  BY <1>1, InvInit, InvStep, PTL DEF Spec

\* Under the same assumption a vanished pack never becomes an error: the
\* reload always brings a list without it.
THEOREM RetriesSucceed ==
  ASSUME ~Collide
  PROVE  Spec => []MissingPackIsRetried
<1>1. Inv => MissingPackIsRetried
  BY DEF Inv
<1> QED
  BY <1>1, InvInit, InvStep, PTL DEF Spec

\* Under the same assumption no step makes a revision unreachable.
THEOREM NoRevisionLost ==
  ASSUME ~Collide
  PROVE  Spec => ReachableStays
<1>1. Inv /\ Inv' /\ [Next]_vars => [Revs(names \cap packs) \subseteq Revs(names' \cap packs')]_vars
  <2> SUFFICES ASSUME Inv, Inv', NEW p \in Proc, Step(p)
               PROVE  Revs(names \cap packs) \subseteq Revs(names' \cap packs')
    BY DEF Next
  <2>1. names \cap packs = names /\ names' \cap packs' = names'
    BY DEF Inv, NamesBacked
  <2> QED
    BY <2>1, RevisionsStay
<1> QED
  BY <1>1, InvInit, InvStep, PTL DEF Spec, ReachableStays

\* Under the same assumption a commit that has returned is published.
THEOREM CommitsArePublished ==
  ASSUME ~Collide
  PROVE  Spec => CommitIsPublished
<1>1. Inv => \A p \in Proc : Finish(p) /\ job[p] = "commit" => cur[p] \in Revs(names \cap packs)
  <2> SUFFICES ASSUME Inv, NEW p \in Proc, Finish(p), job[p] = "commit"
               PROVE  cur[p] \in Revs(names \cap packs)
    OBVIOUS
  <2>1. names \cap packs = names
    BY DEF Inv, NamesBacked
  <2> QED
    BY <2>1 DEF Inv, CommitInv, Finish
<1> QED
  BY <1>1, InvInit, InvStep, PTL DEF Spec, CommitIsPublished

\* Under the same assumption, and if nothing is interrupted, packs/ holds what
\* pack-names lists and no more whenever no operation is under way.
THEOREM PacksDirectoryTidy ==
  ASSUME ~Collide
  PROVE  Spec => []NothingLeftBehind
<1>1. Init => TidyInv
  <2>1. Init => PacksAccounted /\ NothingUnsaved
    BY DEF Init, PacksAccounted, NothingUnsaved, Added, Removed, Saved
  <2> QED
    BY <2>1, InvInit DEF TidyInv
<1>2. TidyInv => NothingLeftBehind
  <2> SUFFICES ASSUME TidyInv, ~mode.faulty, \A p \in Proc : pc[p] \in {"idle", "open"}
               PROVE  packs = names
    BY DEF NothingLeftBehind
  <2>1. \A p \in Proc : Held(p) = {}
    BY DEF TidyInv, Inv, NothingUnsaved, SourcesInv, Held
  <2> QED
    BY <2>1 DEF TidyInv, Inv, NamesBacked, PacksAccounted
<1> QED
  BY <1>1, <1>2, TidyStep, PTL DEF Spec
=============================================================================
