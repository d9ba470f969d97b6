---------------------------- MODULE TreeTransform ----------------------------
(***************************************************************************)
(* InventoryTreeTransform.apply and _FileMover (breezy/bzr/transform.py,   *)
(* breezy/transform.py): how merge, update and revert change the files of  *)
(* a working tree.                                                         *)
(*                                                                         *)
(* An item is a file or a directory with its contents; a transform id that *)
(* replaces contents is two items, one deleted and one new.  New items are *)
(* made in the limbo directory.  apply first moves what is deleted or      *)
(* renamed out of the tree, children first, then moves what is new or      *)
(* renamed into it, parents first; if a rename fails it undoes the renames *)
(* in reverse order, and only when all have succeeded does it delete and   *)
(* record the inventory.  The tree is locked from beginning to end.        *)
(***************************************************************************)
EXTENDS Sequences, SequencesExt

CONSTANTS
  Dir, File,              \* items
  Name,                   \* file names
  Root, Limbo, Deletion,  \* the tree, .bzr/checkout/limbo and pending-deletion
  None                    \* no place

Item == Dir \cup File

ASSUME TransformAssumption ==
  /\ Dir \cap File = {}
  /\ {Root, Limbo, Deletion} \cap Item = {}
  /\ Limbo # Deletion /\ Root \notin {Limbo, Deletion}

Place == [dir : Dir \cup {Root}, name : Name]
TempPlace == [dir : {Limbo, Deletion}, name : Item]

ASSUME NoneAssumption == None \notin Place \cup TempPlace

VARIABLES
  old,     \* where each item is in the tree before (constant)
  new,     \* where each shall be (constant)
  missing, \* versioned files that are not on the disk (constant)
  loc,     \* where each item is on the disk
  limbo,   \* _limbo_files: the place in limbo given to each item
  past,    \* _FileMover.past_renames
  phase,   \* what apply is doing
  todo,    \* the items this phase has still to look at
  failed   \* the phases in which a system call has failed

vars == <<old, new, missing, loc, limbo, past, phase, todo, failed>>
input == <<old, new, missing>>

-----------------------------------------------------------------------------
\* Layouts and paths.

\* No directory holds two items of a name.
NoDuplicates(layout) ==
  \A i, j \in Item : layout[i] # None /\ layout[i] = layout[j] => i = j

\* No item is its own ancestor.
NoLoops(layout) ==
  \A P \in SUBSET Item : P # {} => \E i \in P : layout[i] = None \/ layout[i].dir \notin P

\* Parents are there, and are directories.
ParentsExist(layout) ==
  \A i \in Item : layout[i] # None => layout[i].dir = Root \/ layout[layout[i].dir] # None

\* _check_malformed: _duplicate_entries, _parent_loops and
\* _parent_type_conflicts find nothing.
WellFormed(layout) == NoDuplicates(layout) /\ NoLoops(layout) /\ ParentsExist(layout)

\* The path that the layout gives d, below the directory base, leads to d on
\* the disk.
Leads(layout, base, d) ==
  \/ d = base
  \/ \E P \in SUBSET Item :
       /\ d \in P
       /\ \A i \in P : loc[i] # None /\ loc[i] = layout[i] /\ layout[i].dir \in P \cup {base}

\* An item that does not exist before, and one that shall not exist after.
IsNew(i) == old[i] = None
IsDeleted(i) == new[i] = None

\* An item the transform does not touch: delete_contents passes over a file
\* that is not there.
Stays(i) == new[i] = old[i] \/ (IsDeleted(i) /\ i \in missing)

\* Mutant: limbo is the tree itself.
LimboInTree(i) == [dir |-> Root, name |-> i]

\* The place of i in limbo: its own if the directory it goes to is new and
\* already made, and no other item has the name there.
LimboPlace(i) ==
  IF /\ new[i] # None /\ new[i].dir \in Dir /\ IsNew(new[i].dir) /\ limbo[new[i].dir] # None
     /\ \A j \in Item \ {i} : limbo[j] # new[i]
  THEN new[i]
  ELSE [dir |-> Limbo, name |-> i]

NeedsRename(i) == limbo[i] # None /\ limbo[i].dir = Limbo

-----------------------------------------------------------------------------
\* The file system (external).

Inside(d) == {i \in Item : loc[i] # None /\ loc[i].dir = d}

\* The item at place p.
At(p) == {i \in Item : loc[i] = p}

\* os.rename: a file replaces a file, otherwise the target must not exist.
CanRename(i, p) == At(p) \ {i} = {} \/ (i \in File /\ At(p) \subseteq File)

Renamed(i, p) == [j \in Item |-> IF j = i THEN p ELSE IF loc[j] = p THEN None ELSE loc[j]]

-----------------------------------------------------------------------------
\* The transform.

\* Begin the next phase with items S.
Begin(next, S) == phase' = next /\ todo' = S

\* create_file and create_directory: the contents of a new item in limbo.
Create(i) ==
  /\ phase = "build"
  /\ i \in todo
  /\ limbo' = [limbo EXCEPT ![i] = LimboPlace(i)]
  /\ loc' = [loc EXCEPT ![i] = LimboPlace(i)]
  /\ todo' = todo \ {i}
  /\ UNCHANGED <<input, past, phase, failed>>

LimboItems == {i \in Item : limbo[i] # None}

Existing == {i \in Item : old[i] # None}

\* apply checks the layout; MalformedTransform ends it.
Check ==
  /\ phase = "build"
  /\ todo = {}
  /\ IF WellFormed(new) THEN Begin("removals", Existing) ELSE Begin("finalize", LimboItems)
  /\ UNCHANGED <<input, loc, limbo, past, failed>>

\* mover.rename succeeds.
Rename(i, p) ==
  /\ CanRename(i, p)
  /\ loc' = Renamed(i, p)
  /\ past' = Append(past, [item |-> i, from |-> loc[i], to |-> p])

\* Sorted paths in reverse: children come before their parents.
ChildFirst(i) == \A j \in todo : old[j].dir # i

\* Mutant: the contents are deleted at once.
DeleteAtOnce(i) ==
  /\ Leads(old, Root, i)
  /\ loc' = [loc EXCEPT ![i] = None]
  /\ UNCHANGED <<limbo, past>>

\* pre_delete: not to exist is an error.
PreDelete(i) ==
  /\ Leads(old, Root, i)
  /\ Rename(i, [dir |-> Deletion, name |-> i])
  /\ UNCHANGED limbo

\* An item that moves goes to limbo: not to exist is no error.
MoveOut(i) ==
  /\ limbo' = [limbo EXCEPT ![i] = LimboPlace(i)]
  /\ IF Leads(old, Root, i) THEN Rename(i, LimboPlace(i)) ELSE UNCHANGED <<loc, past>>

\* One round of _apply_removals.
TakeOut(i) ==
  /\ phase = "removals"
  /\ i \in todo
  /\ ChildFirst(i)
  /\ \/ Stays(i) /\ UNCHANGED <<loc, past, limbo>>
     \/ ~Stays(i) /\ IsDeleted(i) /\ PreDelete(i)
     \/ ~Stays(i) /\ ~IsDeleted(i) /\ MoveOut(i)
  /\ todo' = todo \ {i}
  /\ UNCHANGED <<input, phase, failed>>

RemovalsDone ==
  /\ phase = "removals"
  /\ todo = {}
  /\ Begin("insertions", {i \in Item : ~IsDeleted(i)})
  /\ UNCHANGED <<input, loc, limbo, past, failed>>

\* Mutant: in any order.
AnyOrder(i) == TRUE

\* Sorted paths: parents come before their children.
InsertsNext(i) == new[i].dir \notin todo

\* _apply_insertions: from limbo to the path the item shall have.  That it does
\* not exist, or the directory, is no error.
MoveIn(i) ==
  /\ phase = "insertions"
  /\ i \in todo
  /\ InsertsNext(i)
  /\ IF NeedsRename(i) /\ loc[i] = limbo[i] /\ Leads(new, Root, new[i].dir)
     THEN Rename(i, new[i])
     ELSE UNCHANGED <<loc, past>>
  /\ todo' = todo \ {i}
  /\ UNCHANGED <<input, limbo, phase, failed>>

\* All renames are done.
InsertionsDone ==
  /\ phase = "insertions"
  /\ todo = {}
  /\ limbo' = [i \in Item |-> IF NeedsRename(i) THEN None ELSE limbo[i]]
  /\ Begin("deletions", {i \in Item : loc[i] # None /\ loc[i].dir = Deletion})
  /\ UNCHANGED <<input, loc, past, failed>>

\* apply_deletions.
Delete(i) ==
  /\ phase = "deletions"
  /\ i \in todo
  /\ Inside(i) = {}
  /\ loc' = [loc EXCEPT ![i] = None]
  /\ todo' = todo \ {i}
  /\ UNCHANGED <<input, limbo, past, phase, failed>>

DeletionsDone ==
  /\ phase = "deletions"
  /\ todo = {}
  /\ Begin("inventory", {})
  /\ UNCHANGED <<input, loc, limbo, past, failed>>

\* apply_inventory_delta.
ApplyInventory ==
  /\ phase = "inventory"
  /\ Begin("recorded", LimboItems)
  /\ UNCHANGED <<input, loc, limbo, past, failed>>

\* Mutant: the renames are undone in the order they were made.
InOrder == past

\* reversed(past_renames).
UndoOrder == Reverse(past)

\* Mutant: nothing is undone.
FailWithoutUndo ==
  /\ phase \in {"build", "removals", "insertions", "deletions", "inventory"}
  /\ failed' = failed \cup {phase}
  /\ Begin("finalize", LimboItems)
  /\ UNCHANGED <<input, loc, limbo, past>>

\* A system call fails.  Renames are undone; when one cannot be undone, and after
\* a failed deletion or inventory, the transform only ends.
Fail ==
  /\ phase \in {"build", "removals", "insertions", "rollback", "deletions", "inventory"}
  /\ failed' = failed \cup {phase}
  /\ IF phase \in {"removals", "insertions"}
     THEN Begin("rollback", {}) /\ past' = UndoOrder
     ELSE Begin("finalize", LimboItems) /\ UNCHANGED past
  /\ UNCHANGED <<input, loc, limbo>>

\* rollback undoes a rename.
Rollback ==
  /\ phase = "rollback"
  /\ past # <<>>
  /\ loc[past[1].item] = past[1].to
  /\ CanRename(past[1].item, past[1].from)
  /\ loc' = Renamed(past[1].item, past[1].from)
  /\ past' = Tail(past)
  /\ UNCHANGED <<input, limbo, phase, todo, failed>>

RollbackDone ==
  /\ phase = "rollback"
  /\ past = <<>>
  /\ Begin("finalize", LimboItems)
  /\ UNCHANGED <<input, loc, limbo, past, failed>>

\* finalize deletes what is still at a place in limbo, children first; a
\* directory that is not empty ends that.
Finalize(i) ==
  /\ phase \in {"finalize", "recorded"}
  /\ i \in todo
  /\ \A j \in todo : limbo[j].dir # i
  /\ IF Leads(limbo, Limbo, i)
     THEN IF Inside(i) = {} THEN loc' = [loc EXCEPT ![i] = None] /\ todo' = todo \ {i}
          ELSE todo' = {} /\ UNCHANGED loc
     ELSE todo' = todo \ {i} /\ UNCHANGED loc
  /\ UNCHANGED <<input, limbo, past, phase, failed>>

\* Mutant: the tree is unlocked only if all went well.
UnlockOnSuccess ==
  /\ phase = "recorded"
  /\ todo = {}
  /\ phase' = "applied"
  /\ UNCHANGED <<input, loc, limbo, past, todo, failed>>

\* The tree is unlocked.
Unlock ==
  /\ phase \in {"finalize", "recorded"}
  /\ todo = {}
  /\ phase' = IF phase = "recorded" THEN "applied" ELSE "ended"
  /\ UNCHANGED <<input, loc, limbo, past, todo, failed>>

Layout == [Item -> Place \cup {None}]

\* Any well-formed tree, any wanted layout, and any files missing.
Init ==
  /\ old \in {layout \in Layout : WellFormed(layout)}
  /\ new \in Layout
  /\ missing \in SUBSET {i \in File : old[i] # None}
  /\ loc = [i \in Item |-> IF i \in missing THEN None ELSE old[i]]
  /\ limbo = [i \in Item |-> None]
  /\ past = <<>>
  /\ phase = "build"
  /\ todo = {i \in Item : IsNew(i) /\ ~IsDeleted(i)}
  /\ failed = {}

Next ==
  \/ \E i \in Item : Create(i) \/ TakeOut(i) \/ MoveIn(i) \/ Delete(i) \/ Finalize(i)
  \/ Check \/ RemovalsDone \/ InsertionsDone \/ DeletionsDone \/ ApplyInventory
  \/ Fail \/ Rollback \/ RollbackDone \/ Unlock

\* One process runs the transform to its end.
Spec == Init /\ [][Next]_vars /\ WF_vars(Next)

-----------------------------------------------------------------------------
\* Properties.

Phases == {"build", "removals", "insertions", "rollback", "deletions", "inventory",
           "recorded", "finalize", "applied", "ended"}

\* Every variable has its type; what is on the disk is at a path of the tree or
\* at a name of limbo or pending-deletion.
TypeOK ==
  /\ old \in Layout /\ new \in Layout
  /\ missing \subseteq File
  /\ loc \in [Item -> Place \cup TempPlace \cup {None}]
  /\ limbo \in [Item -> Place \cup TempPlace \cup {None}]
  /\ \A k \in 1..Len(past) :
       past[k] \in [item : Item, from : Place \cup TempPlace, to : Place \cup TempPlace]
  /\ phase \in Phases
  /\ todo \subseteq Item
  /\ failed \subseteq Phases

\* Clearing up after a failure has failed too.
Damaged == failed \cap {"rollback", "deletions", "inventory"} # {}

\* Whenever the process may die, and whichever renames fail, no file the user
\* wants to keep is destroyed, and none at all before every rename has
\* succeeded; the exception is a rollback that fails, after which finalize
\* deletes what is left in limbo (_FileMover, DiskTreeTransform.finalize).
NothingLost ==
  \A i \in Existing \ missing :
    loc[i] = None =>
      \/ "rollback" \in failed
      \/ /\ IsDeleted(i)
         /\ failed \cap {"build", "removals", "insertions"} = {}
         /\ phase \notin {"build", "removals", "insertions", "rollback"}

\* A transform that could clear up leaves nothing in limbo and pending-deletion,
\* where it would keep every later transform from starting ("ExistingLimbo",
\* InventoryTreeTransform.__init__).
NothingLeft ==
  phase \in {"applied", "ended"} /\ ~Damaged =>
    \A i \in Item : loc[i] # None => Leads(loc, Root, i)

\* Every rename can be undone when its turn comes: the file is where it was put,
\* and its former directory is back and has its name free
\* (_FileMover.rollback, _apply_removals, _apply_insertions).
UndoPossible ==
  phase = "rollback" /\ past # <<>> =>
    /\ loc[past[1].item] = past[1].to
    /\ At(past[1].from) = {}
    /\ past[1].from.dir = Limbo \/ Leads(old, Root, past[1].from.dir)

\* The items that can be reached in the tree.
Visible == [i \in Item |-> IF loc[i] # None /\ Leads(loc, Root, i) THEN loc[i] ELSE None]

WithoutMissing(layout) == [i \in Item |-> IF i \in missing THEN None ELSE layout[i]]

Unlocked == phase \in {"applied", "ended"}

Abstract == INSTANCE AtomicTransform WITH
  files <- IF Unlocked THEN Visible ELSE WithoutMissing(old),
  wanted <- WithoutMissing(new),
  inventory <- IF phase = "applied" THEN new ELSE old,
  target <- new,
  outcome <- IF phase = "applied" THEN "applied"
             ELSE IF phase # "ended" THEN "none"
             ELSE IF Damaged THEN "damaged" ELSE "unchanged"

\* To whoever takes the tree's lock afterwards, the transform was atomic: the
\* phases of apply with their rollback implement AtomicTransform.
TransformIsAtomic == Abstract!ASpec

\* Whatever fails, the transform ends and unlocks the tree (the finally clause
\* of DiskTreeTransform.finalize).
TransformEnds == <>Unlocked
=============================================================================
