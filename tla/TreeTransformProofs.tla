------------------------- MODULE TreeTransformProofs -------------------------
(***************************************************************************)
(* Proofs about TreeTransform for any sets of items and names, any tree,   *)
(* any wanted layout and any failures.                                     *)
(*                                                                         *)
(* The renames that are not undone, in the order they were made, determine *)
(* where every item is; rollback takes the last one off.  Around that, one *)
(* invariant per phase of apply.                                           *)
(***************************************************************************)
EXTENDS TreeTransform, TLAPS

Anywhere == Place \cup TempPlace

Move == [item : Item, from : Anywhere, to : Anywhere]

\* The names of an item in limbo and in pending-deletion.
InLimbo(i) == [dir |-> Limbo, name |-> i]
InDeletion(i) == [dir |-> Deletion, name |-> i]

\* What the transform makes, and what there shall be.
Made == {i \in Item : IsNew(i) /\ ~IsDeleted(i)}
Wanted == {i \in Item : ~IsDeleted(i)}

\* The renames that are not undone, oldest first.
History == IF phase = "rollback" THEN Reverse(past) ELSE past

-----------------------------------------------------------------------------
\* Places.

\* A place in limbo is of an item that is wanted: its own name, or the wanted
\* one below a new directory that has a place itself.
LimboSound ==
  \A i \in Item :
    limbo[i] # None =>
      /\ i \in Wanted
      /\ \/ limbo[i] = InLimbo(i)
         \/ limbo[i] = new[i] /\ new[i].dir \in Made /\ limbo[new[i].dir] # None

\* Where an item is before any rename, and when it is out of the tree.
Start(i) == IF IsNew(i) THEN limbo[i] ELSE IF i \in missing THEN None ELSE old[i]
Home(i) == IF IsDeleted(i) THEN InDeletion(i) ELSE limbo[i]

\* A rename into the tree comes from limbo; any other is one out of the tree.
Inward(m) == m.from.dir = Limbo

\* h has a rename of i out of the tree, or into it.
WentOut(h, i) == \E k \in 1..Len(h) : h[k].item = i /\ ~Inward(h[k])
WentIn(h, i) == \E k \in 1..Len(h) : h[k].item = i /\ Inward(h[k])

\* What is renamed is not missing, and goes from its old place to its home or
\* from limbo to its new place.
MoveSound(m) ==
  /\ m \in Move
  /\ m.item \notin missing
  /\ \/ ~IsNew(m.item) /\ m.from = old[m.item] /\ m.to = Home(m.item)
     \/ ~IsDeleted(m.item) /\ limbo[m.item] = InLimbo(m.item) /\ m.from = InLimbo(m.item) /\ m.to = new[m.item]

\* The directories that lead to the old place of what rename k took out had
\* not been touched then.
Trail(h, k) ==
  \E P \in SUBSET (Existing \ missing) :
    /\ h[k].from.dir \in P \cup {Root}
    /\ \A j \in P : old[j].dir \in P \cup {Root}
    /\ \A l \in 1..k : h[l].item \notin P

\* No item goes the same way twice, all go out before any comes in, and children
\* go out before their parents.
HistorySound(h) ==
  /\ \A k \in 1..Len(h) : MoveSound(h[k])
  /\ \A k, l \in 1..Len(h) : h[k].item = h[l].item /\ (Inward(h[k]) <=> Inward(h[l])) => k = l
  /\ \A k, l \in 1..Len(h) : k < l /\ Inward(h[k]) => Inward(h[l])
  /\ \A k \in 1..Len(h) :
       Inward(h[k]) /\ ~IsNew(h[k].item) => \E l \in 1..(k - 1) : h[l].item = h[k].item
  /\ \A k \in 1..Len(h) : ~Inward(h[k]) => Trail(h, k)

\* The renames say where everything is.
Placed(h) ==
  \A i \in Item :
    loc[i] = IF WentIn(h, i) THEN new[i] ELSE IF WentOut(h, i) THEN Home(i) ELSE Start(i)

-----------------------------------------------------------------------------
\* The phases.

\* What is new has a place in limbo once it is made.
Building ==
  /\ past = <<>>
  /\ todo \subseteq Made
  /\ \A i \in Item : limbo[i] # None <=> i \in Made \ todo

\* What is still to be taken out has not been touched, nor have its parents.
Removing ==
  /\ WellFormed(new)
  /\ todo \subseteq Existing
  /\ \A i \in todo : old[i].dir \in todo \cup {Root}
  /\ \A k \in 1..Len(past) : past[k].item \notin todo /\ ~Stays(past[k].item) /\ ~Inward(past[k])
  /\ \A i \in Existing \ todo : i \notin missing /\ ~Stays(i) => WentOut(past, i)
  /\ \A i \in Item : limbo[i] # None <=> i \in Made \/ (i \in Wanted \ todo /\ ~Stays(i))

\* What is still to be brought in is in limbo or in its place; all the rest that
\* is wanted is in its place.
Inserting ==
  /\ WellFormed(new)
  /\ todo \subseteq Wanted
  /\ \A i \in Wanted \ todo : new[i].dir \notin todo
  /\ \A k \in 1..Len(past) : ~Stays(past[k].item)
  /\ \A k \in 1..Len(past) : Inward(past[k]) => past[k].item \notin todo
  /\ \A i \in Existing \ missing : ~Stays(i) => WentOut(past, i)
  /\ \A i \in Item : limbo[i] # None <=> i \in Made \/ (i \in Wanted /\ ~Stays(i))
  /\ \A i \in Wanted \ (todo \cup missing) : loc[i] = new[i]

\* All that is wanted is in place, what is deleted waits for its deletion, and
\* no place in limbo is left.
Renamings ==
  /\ WellFormed(new)
  /\ \A i \in Item : limbo[i] # None => limbo[i] = new[i]
  /\ \A i \in Wanted \ missing : loc[i] = new[i]
  /\ \A i \in missing : loc[i] = None
  /\ \A i \in Item \ Wanted : loc[i] \in {None, InDeletion(i)}

\* Everything is as before, but for what is still to be cleared out of limbo.
Undone ==
  /\ LimboSound
  /\ \A i \in Existing : loc[i] = Start(i)
  /\ \A i \in Item \ Existing :
       /\ i \notin todo => loc[i] = None
       /\ i \in todo => loc[i] # None /\ loc[i] = limbo[i] /\ limbo[i].dir \in (todo \ Existing) \cup {Limbo}

Early == {"build", "removals", "insertions"}

\* Which phases may have failed.
Failures ==
  /\ phase \notin {"rollback", "finalize", "ended"} => failed = {}
  /\ phase = "rollback" => failed \subseteq Early
  /\ phase \in {"finalize", "ended"} =>
       "rollback" \in failed \/ failed \subseteq Early \/ failed \in {{"deletions"}, {"inventory"}}

\* The inductive invariant.
TransformInv ==
  /\ TypeOK /\ past \in Seq(Move)
  /\ WellFormed(old)
  /\ missing \subseteq Existing
  /\ Failures
  /\ phase \in Early \cup {"rollback"} => LimboSound /\ HistorySound(History) /\ Placed(History)
  /\ phase = "build" => Building
  /\ phase = "removals" => Removing
  /\ phase = "insertions" => Inserting
  /\ phase \in {"deletions", "inventory", "recorded", "applied"} => Renamings
  /\ phase \in {"finalize", "ended"} /\ failed \in {{"deletions"}, {"inventory"}} => Renamings
  /\ phase = "deletions" => todo = {i \in Item : loc[i] = InDeletion(i)}
  /\ phase \in {"inventory", "recorded", "applied"} => \A i \in Item : loc[i] # InDeletion(i)
  /\ phase \in {"finalize", "ended"} /\ failed \subseteq Early => Undone
  /\ phase \in {"applied", "ended"} => todo = {}

-----------------------------------------------------------------------------
\* Places and sequences.

\* Names in limbo and in pending-deletion are no places of the tree, and every
\* item has its own.
LEMMA PlaceFacts ==
  /\ \A i \in Item : /\ InLimbo(i) \in TempPlace /\ InDeletion(i) \in TempPlace
                     /\ InLimbo(i).dir = Limbo /\ InDeletion(i).dir = Deletion
                     /\ InLimbo(i) # None /\ InDeletion(i) # None
  /\ \A i, j \in Item : /\ InLimbo(i) = InLimbo(j) => i = j
                        /\ InDeletion(i) = InDeletion(j) => i = j
                        /\ InLimbo(i) # InDeletion(j)
  /\ \A p \in Place : /\ p.dir \in Dir \cup {Root} /\ p.dir # Limbo /\ p.dir # Deletion /\ p # None
                      /\ \A i \in Item : p # InLimbo(i) /\ p # InDeletion(i)
<1>1. \A i \in Item : /\ InLimbo(i) \in TempPlace /\ InDeletion(i) \in TempPlace
                      /\ InLimbo(i).dir = Limbo /\ InDeletion(i).dir = Deletion
                      /\ InLimbo(i).name = i /\ InDeletion(i).name = i
  BY DEF InLimbo, InDeletion, TempPlace
<1>2. \A p \in Place : p.dir \in Dir \cup {Root} /\ p.dir # Limbo /\ p.dir # Deletion /\ p # None
  BY TransformAssumption, NoneAssumption DEF Place, Item
<1>3. Limbo # Deletion /\ None \notin TempPlace
  BY TransformAssumption, NoneAssumption
<1> QED
  BY <1>1, <1>2, <1>3

\* The layouts of a state are layouts, and no directory is missing.
LEMMA LayoutFacts ==
  ASSUME TypeOK
  PROVE  /\ \A i \in Item : /\ old[i] # None => old[i] \in Place
                            /\ new[i] # None => new[i] \in Place
         /\ Root \notin Item /\ Limbo \notin Item /\ Deletion \notin Item /\ Root # Limbo
         /\ Dir \subseteq Item /\ \A d \in Dir : d \notin missing
  BY TransformAssumption DEF TypeOK, Layout, Item

\* Appending a rename.
LEMMA AppendFacts ==
  ASSUME NEW h \in Seq(Move), NEW m \in Move
  PROVE  /\ Append(h, m) \in Seq(Move) /\ Len(Append(h, m)) = Len(h) + 1 /\ Len(h) \in Nat
         /\ \A k \in 1..Len(h) : Append(h, m)[k] = h[k]
         /\ Append(h, m)[Len(h) + 1] = m
  OBVIOUS

\* Reversing a sequence of renames, as rollback does.
LEMMA ReverseFacts ==
  ASSUME NEW h \in Seq(Move)
  PROVE  /\ Reverse(h) \in Seq(Move) /\ Len(Reverse(h)) = Len(h) /\ Len(h) \in Nat
         /\ \A k \in 1..Len(h) : Reverse(h)[k] = h[(Len(h) - k) + 1]
<1>1. Len(h) \in Nat /\ \A k \in 1..Len(h) : h[k] \in Move
  OBVIOUS
<1>2. \A k \in 1..Len(h) : (Len(h) - k) + 1 \in 1..Len(h)
  BY <1>1
<1>3. Reverse(h) \in [1..Len(h) -> Move]
  BY <1>1, <1>2 DEF Reverse
<1>4. Reverse(h) \in Seq(Move)
  BY <1>1, <1>3
<1>5. Len(Reverse(h)) = Len(h)
  BY <1>1, <1>3, <1>4
<1> QED
  BY <1>1, <1>4, <1>5 DEF Reverse

\* Reversed twice it is what it was.
LEMMA ReverseTwice == ASSUME NEW h \in Seq(Move) PROVE Reverse(Reverse(h)) = h
<1>1. /\ Reverse(h) \in Seq(Move) /\ Len(Reverse(h)) = Len(h) /\ Len(h) \in Nat
      /\ \A k \in 1..Len(h) : Reverse(h)[k] = h[(Len(h) - k) + 1]
  BY ReverseFacts
<1>2. /\ Reverse(Reverse(h)) \in Seq(Move) /\ Len(Reverse(Reverse(h))) = Len(h)
      /\ \A k \in 1..Len(h) : Reverse(Reverse(h))[k] = Reverse(h)[(Len(h) - k) + 1]
  BY <1>1, ReverseFacts
<1>3. \A k \in 1..Len(h) : /\ (Len(h) - k) + 1 \in 1..Len(h)
                           /\ (Len(h) - ((Len(h) - k) + 1)) + 1 = k
  BY <1>1
<1>4. \A k \in 1..Len(h) : Reverse(Reverse(h))[k] = h[k]
  BY <1>1, <1>2, <1>3
<1>5. Reverse(Reverse(h)) \in [1..Len(h) -> Move] /\ h \in [1..Len(h) -> Move]
  BY <1>2
<1> DEFINE R == Reverse(Reverse(h))
           n == Len(h)
<1>6. R \in [1..n -> Move] /\ h \in [1..n -> Move] /\ \A k \in 1..n : R[k] = h[k]
  BY <1>4, <1>5
<1> HIDE DEF R, n
<1>7. R = h
  <2>1. R = [k \in 1..n |-> R[k]] /\ h = [k \in 1..n |-> h[k]]
    BY <1>6, Zenon
  <2>2. [k \in 1..n |-> R[k]] = [k \in 1..n |-> h[k]]
    BY <1>6, Zenon
  <2> QED
    BY <2>1, <2>2, Zenon
<1> QED
  BY <1>7 DEF R

\* Undoing the first of the reversed renames takes the last one off.
LEMMA TailFacts ==
  ASSUME NEW s \in Seq(Move), s # <<>>
  PROVE  /\ Tail(s) \in Seq(Move) /\ Len(s) \in Nat \ {0}
         /\ Len(Reverse(Tail(s))) = Len(s) - 1 /\ Len(Reverse(s)) = Len(s)
         /\ Reverse(s) \in Seq(Move) /\ Reverse(Tail(s)) \in Seq(Move)
         /\ \A k \in 1..(Len(s) - 1) : Reverse(Tail(s))[k] = Reverse(s)[k]
         /\ Reverse(s)[Len(s)] = s[1]
<1>1. Tail(s) \in Seq(Move) /\ Len(s) \in Nat \ {0} /\ Len(Tail(s)) = Len(s) - 1
  OBVIOUS
<1>2. \A k \in 1..Len(Tail(s)) : Tail(s)[k] = s[k + 1]
  OBVIOUS
<1>3. /\ Reverse(s) \in Seq(Move) /\ Len(Reverse(s)) = Len(s)
      /\ \A k \in 1..Len(s) : Reverse(s)[k] = s[(Len(s) - k) + 1]
  BY ReverseFacts
<1>4. /\ Reverse(Tail(s)) \in Seq(Move) /\ Len(Reverse(Tail(s))) = Len(s) - 1
      /\ \A k \in 1..(Len(s) - 1) : Reverse(Tail(s))[k] = Tail(s)[((Len(s) - 1) - k) + 1]
  BY <1>1, ReverseFacts
<1>5. ASSUME NEW k \in 1..(Len(s) - 1) PROVE Reverse(Tail(s))[k] = Reverse(s)[k]
  <2>1. ((Len(s) - 1) - k) + 1 \in 1..Len(Tail(s)) /\ (((Len(s) - 1) - k) + 1) + 1 = (Len(s) - k) + 1
    BY <1>1
  <2>2. k \in 1..Len(s)
    BY <1>1
  <2> QED
    BY <1>2, <1>3, <1>4, <2>1, <2>2
<1>6. Len(s) \in 1..Len(s) /\ (Len(s) - Len(s)) + 1 = 1
  BY <1>1
<1> QED
  BY <1>1, <1>3, <1>4, <1>5, <1>6

\* What went out and in, after one more rename.
LEMMA WentAfter ==
  ASSUME NEW h \in Seq(Move), NEW m \in Move, NEW j
  PROVE  /\ WentOut(Append(h, m), j) <=> WentOut(h, j) \/ (m.item = j /\ ~Inward(m))
         /\ WentIn(Append(h, m), j) <=> WentIn(h, j) \/ (m.item = j /\ Inward(m))
<1>1. /\ Len(Append(h, m)) = Len(h) + 1 /\ Len(h) \in Nat
      /\ \A k \in 1..Len(h) : Append(h, m)[k] = h[k]
      /\ Append(h, m)[Len(h) + 1] = m
  BY AppendFacts
<1>2. \A k : k \in 1..(Len(h) + 1) <=> k \in 1..Len(h) \/ k = Len(h) + 1
  BY <1>1
<1> QED
  BY <1>1, <1>2 DEF WentOut, WentIn

\* And before the last one.
LEMMA WentBefore ==
  ASSUME NEW h, NEW g, Len(h) \in Nat \ {0}, Len(g) = Len(h) - 1,
         \A k \in 1..Len(g) : g[k] = h[k], NEW j
  PROVE  /\ WentOut(h, j) <=> WentOut(g, j) \/ (h[Len(h)].item = j /\ ~Inward(h[Len(h)]))
         /\ WentIn(h, j) <=> WentIn(g, j) \/ (h[Len(h)].item = j /\ Inward(h[Len(h)]))
<1>1. \A k : k \in 1..Len(h) <=> k \in 1..Len(g) \/ k = Len(h)
  OBVIOUS
<1> QED
  BY <1>1 DEF WentOut, WentIn

-----------------------------------------------------------------------------
\* The beginning: build and check.

\* Initially nothing has been renamed, and nothing is in limbo.
LEMMA InitInv == Init => TransformInv
<1> SUFFICES ASSUME Init PROVE TransformInv
  OBVIOUS
<1>1. /\ old \in Layout /\ new \in Layout /\ WellFormed(old) /\ missing \subseteq File
      /\ missing \subseteq Existing /\ Item = Dir \cup File
  BY DEF Init, Existing, Item
<1>2. loc \in [Item -> Place \cup TempPlace \cup {None}] /\ limbo \in [Item -> Place \cup TempPlace \cup {None}]
  BY <1>1 DEF Init, Layout
<1>3. Len(past) = 0 /\ past \in Seq(Move) /\ past = <<>>
  BY DEF Init
<1>4. TypeOK
  BY <1>1, <1>2, <1>3 DEF Init, TypeOK, Phases
<1>5. History = past /\ \A k : k \notin 1..Len(past)
  BY <1>3 DEF Init, History
<1>6. HistorySound(History)
  BY <1>5 DEF HistorySound
<1>7. Placed(History)
  <2>1. \A i \in Item : loc[i] = Start(i)
    BY <1>1 DEF Init, Start, IsNew, Existing
  <2>2. \A i : ~WentIn(past, i) /\ ~WentOut(past, i)
    BY <1>5 DEF WentIn, WentOut
  <2> QED
    BY <1>5, <2>1, <2>2 DEF Placed
<1>8. LimboSound /\ Building /\ Failures
  BY DEF Init, LimboSound, Building, Failures, Made
<1> QED
  BY <1>1, <1>3, <1>4, <1>6, <1>7, <1>8 DEF TransformInv, Init, Early

\* The place an item gets in limbo.
LEMMA LimboPlaceFacts ==
  ASSUME TypeOK, LimboSound, NEW i \in Wanted
  PROVE  /\ LimboPlace(i) \in Anywhere /\ LimboPlace(i) # None
         /\ \/ LimboPlace(i) = InLimbo(i)
            \/ LimboPlace(i) = new[i] /\ new[i].dir \in Made /\ limbo[new[i].dir] # None
<1>1. i \in Item /\ new[i] # None /\ new[i] \in Place
  BY LayoutFacts DEF Wanted, IsDeleted
<1>2. \A d \in Dir : IsNew(d) /\ limbo[d] # None => d \in Made
  BY LayoutFacts DEF LimboSound, Made, Wanted
<1> QED
  BY <1>1, <1>2, PlaceFacts DEF LimboPlace, Anywhere, InLimbo

\* More places in limbo do not disturb those that are given.
LEMMA LimboKept ==
  ASSUME TypeOK, LimboSound, NEW i \in Wanted, UNCHANGED input, limbo' = [limbo EXCEPT ![i] = LimboPlace(i)]
  PROVE  /\ LimboSound' /\ limbo' \in [Item -> Place \cup TempPlace \cup {None}]
         /\ limbo'[i] = LimboPlace(i) /\ \A j \in Item \ {i} : limbo'[j] = limbo[j]
<1>1. /\ LimboPlace(i) \in Anywhere /\ LimboPlace(i) # None
      /\ \/ LimboPlace(i) = InLimbo(i)
         \/ LimboPlace(i) = new[i] /\ new[i].dir \in Made /\ limbo[new[i].dir] # None
  BY LimboPlaceFacts
<1>2. i \in Item /\ old' = old /\ new' = new /\ Made' = Made /\ Wanted' = Wanted
  BY DEF Wanted, Made, input, IsNew, IsDeleted
<1>3. /\ limbo' \in [Item -> Place \cup TempPlace \cup {None}]
      /\ limbo'[i] = LimboPlace(i) /\ \A j \in Item \ {i} : limbo'[j] = limbo[j]
  BY <1>1, <1>2 DEF TypeOK, Anywhere
<1>4. \A d \in Item : limbo[d] # None => limbo'[d] # None
  BY <1>1, <1>3
<1>5. Made \subseteq Item
  BY DEF Made
<1>6. LimboSound'
  <2> SUFFICES ASSUME NEW j \in Item, limbo'[j] # None
               PROVE  /\ j \in Wanted
                      /\ \/ limbo'[j] = InLimbo(j)
                         \/ limbo'[j] = new[j] /\ new[j].dir \in Made /\ limbo'[new[j].dir] # None
    BY <1>2 DEF LimboSound, InLimbo
  <2>1. CASE j = i
    BY <1>1, <1>3, <1>4, <1>5, <2>1
  <2>2. CASE j # i
    BY <1>3, <1>4, <1>5, <2>2 DEF LimboSound
  <2> QED
    BY <2>1, <2>2
<1> QED
  BY <1>3, <1>6

\* Types, when what changes has its type.
LEMMA TypeKept ==
  ASSUME TypeOK, UNCHANGED input, loc' \in [Item -> Anywhere \cup {None}],
         limbo' \in [Item -> Anywhere \cup {None}], past' \in Seq(Move), phase' \in Phases,
         todo' \subseteq Item, failed' \subseteq Phases
  PROVE  TypeOK'
<1>1. \A k \in 1..Len(past') : past'[k] \in Move
  OBVIOUS
<1> QED
  BY <1>1 DEF TypeOK, input, Anywhere, Move

\* The parts of the invariant that only depend on the input.
LEMMA InputKept ==
  ASSUME TransformInv, UNCHANGED input
  PROVE  /\ WellFormed(old)' /\ missing' \subseteq Existing'
         /\ Existing' = Existing /\ Made' = Made /\ Wanted' = Wanted
         /\ old' = old /\ new' = new /\ missing' = missing
         /\ \A i : Stays(i)' <=> Stays(i)
         /\ WellFormed(new)' <=> WellFormed(new)
  BY DEF TransformInv, input, Existing, Made, Wanted, IsNew, IsDeleted, Stays, WellFormed, NoDuplicates,
         NoLoops, ParentsExist

\* Before any rename everything is where it starts.
LEMMA NoHistory ==
  ASSUME past = <<>>, phase # "rollback"
  PROVE  /\ HistorySound(History) /\ \A j : ~WentIn(History, j) /\ ~WentOut(History, j)
         /\ Placed(History) <=> \A i \in Item : loc[i] = Start(i)
<1>1. History = <<>> /\ \A k : k \notin 1..Len(<<>>)
  BY DEF History
<1>2. \A j : ~WentIn(History, j) /\ ~WentOut(History, j)
  BY <1>1 DEF WentIn, WentOut
<1> QED
  BY <1>1, <1>2 DEF HistorySound, Placed

\* A new item in limbo.
LEMMA CreateInv == ASSUME TransformInv, NEW i \in Item, Create(i) PROVE TransformInv'
<1>1. /\ TypeOK /\ LimboSound /\ Building /\ Failures /\ past \in Seq(Move) /\ past = <<>>
      /\ phase = "build" /\ i \in todo /\ i \in Made /\ i \in Wanted
      /\ UNCHANGED <<input, past, phase, failed>> /\ todo' = todo \ {i}
      /\ limbo' = [limbo EXCEPT ![i] = LimboPlace(i)] /\ loc' = [loc EXCEPT ![i] = LimboPlace(i)]
  BY DEF Create, TransformInv, Early, Building, Made, Wanted
<1>2. /\ LimboSound' /\ limbo' \in [Item -> Anywhere \cup {None}]
      /\ limbo'[i] = LimboPlace(i) /\ \A j \in Item \ {i} : limbo'[j] = limbo[j]
  BY <1>1, LimboKept DEF Anywhere
<1>3. LimboPlace(i) \in Anywhere /\ LimboPlace(i) # None
  BY <1>1, LimboPlaceFacts
<1>4. /\ loc' \in [Item -> Anywhere \cup {None}]
      /\ loc'[i] = LimboPlace(i) /\ \A j \in Item \ {i} : loc'[j] = loc[j]
  BY <1>1, <1>3 DEF TypeOK, Anywhere
<1>5. TypeOK'
  <2>1. todo' \subseteq Item /\ phase' \in Phases /\ failed' \subseteq Phases
    BY <1>1 DEF TypeOK
  <2> QED
    BY <1>1, <1>2, <1>4, <2>1, TypeKept
<1>6. Placed(History)' /\ HistorySound(History)'
  <2>1. \A j \in Item : loc[j] = Start(j)
    BY <1>1, NoHistory DEF TransformInv, Early
  <2>2. \A j \in Item : loc'[j] = Start(j)'
    BY <1>1, <1>2, <1>4, <2>1, InputKept DEF Start, IsNew, Made
  <2>3. past' = <<>> /\ phase' # "rollback"
    BY <1>1
  <2>4. History' = <<>> /\ \A k : k \notin 1..Len(<<>>)
    BY <2>3 DEF History
  <2>5. \A j : ~WentIn(History', j) /\ ~WentOut(History', j)
    BY <2>4 DEF WentIn, WentOut
  <2> QED
    BY <2>2, <2>4, <2>5 DEF HistorySound, Placed
<1>7. Building'
  BY <1>1, <1>2, <1>3, InputKept DEF Building, Made
<1>8. Failures'
  BY <1>1 DEF Failures
<1> QED
  BY <1>1, <1>2, <1>5, <1>6, <1>7, <1>8, InputKept DEF TransformInv, Early

\* The end of a transform that has done nothing, or has undone everything.
LEMMA UndoneFrom ==
  ASSUME TransformInv, LimboSound, \A j \in Item : loc[j] = Start(j),
         UNCHANGED <<input, loc, limbo>>, todo' = LimboItems
  PROVE  Undone'
<1>1. LimboSound'
  BY InputKept DEF LimboSound, InLimbo
<1>2. \A j \in Item : loc'[j] = loc[j] /\ Start(j)' = Start(j) /\ limbo'[j] = limbo[j]
  BY InputKept DEF Start, IsNew
<1>3. \A j \in Item \ Existing : loc[j] = limbo[j]
  BY DEF Start, Existing, IsNew
<1>4. \A j \in LimboItems : limbo[j].dir \in (LimboItems \ Existing) \cup {Limbo}
  BY PlaceFacts DEF LimboSound, LimboItems, Made, Existing, IsNew
<1>5. \A j \in Item : j \in LimboItems <=> limbo[j] # None
  BY DEF LimboItems
<1>6. ASSUME NEW j \in Item \ Existing
      PROVE  /\ j \notin todo' => loc'[j] = None
             /\ j \in todo' => /\ loc'[j] # None /\ loc'[j] = limbo'[j]
                               /\ limbo'[j].dir \in (todo' \ Existing) \cup {Limbo}
  BY <1>2, <1>3, <1>4, <1>5
<1>7. Existing \subseteq Item /\ Existing' = Existing
  BY InputKept DEF Existing
<1> QED
  BY <1>1, <1>2, <1>6, <1>7 DEF Undone

\* The check of the layout: on with apply, or to the end with nothing done.
LEMMA CheckInv == ASSUME TransformInv, Check PROVE TransformInv'
<1>1. /\ TypeOK /\ LimboSound /\ Building /\ Failures /\ past \in Seq(Move) /\ past = <<>>
      /\ phase = "build" /\ todo = {} /\ WellFormed(old) /\ failed = {}
      /\ UNCHANGED <<input, loc, limbo, past, failed>>
  BY DEF Check, TransformInv, Early, Building, Failures
<1>2. \A j \in Item : loc[j] = Start(j) /\ (limbo[j] # None <=> j \in Made)
  BY <1>1, NoHistory DEF TransformInv, Early, Building
<1>3. CASE WellFormed(new) /\ phase' = "removals" /\ todo' = Existing
  <2>1. TypeOK'
    BY <1>1, <1>3 DEF TypeOK, input, Existing, Phases
  <2>2. HistorySound(History)' /\ Placed(History)'
    <3>1. History' = <<>> /\ \A k : k \notin 1..Len(<<>>)
      BY <1>1, <1>3 DEF History
    <3>2. \A j : ~WentIn(History', j) /\ ~WentOut(History', j)
      BY <3>1 DEF WentIn, WentOut
    <3>3. \A j \in Item : loc'[j] = Start(j)'
      BY <1>1, <1>2, InputKept DEF Start, IsNew
    <3> QED
      BY <3>1, <3>2, <3>3 DEF HistorySound, Placed
  <2>3. LimboSound'
    BY <1>1, InputKept DEF LimboSound, InLimbo
  <2>4. Removing'
    <3>1. \A j \in Existing : old[j].dir \in Existing \cup {Root}
      BY <1>1, LayoutFacts, PlaceFacts DEF WellFormed, ParentsExist, Existing
    <3>2. \A j \in Item : j \in Wanted \ Existing => j \in Made
      BY DEF Made, Wanted, Existing, IsNew
    <3>3. \A k : k \notin 1..Len(past')
      BY <1>1
    <3> QED
      BY <1>1, <1>2, <1>3, <3>1, <3>2, <3>3, InputKept DEF Removing
  <2>5. Failures'
    BY <1>1, <1>3 DEF Failures
  <2> QED
    BY <1>1, <1>3, <2>1, <2>2, <2>3, <2>4, <2>5, InputKept DEF TransformInv, Early
<1>4. CASE phase' = "finalize" /\ todo' = LimboItems
  <2>1. TypeOK'
    BY <1>1, <1>4 DEF TypeOK, input, LimboItems, Phases
  <2>2. Failures'
    BY <1>1, <1>4 DEF Failures, Early
  <2>3. Undone'
    BY <1>1, <1>2, <1>4, UndoneFrom
  <2> QED
    BY <1>1, <1>4, <2>1, <2>2, <2>3, InputKept DEF TransformInv, Early
<1> QED
  BY <1>3, <1>4 DEF Check, Begin

-----------------------------------------------------------------------------
\* Removals.

\* What is still to be taken out has not moved, and its path leads to it unless
\* it is missing.
LEMMA RemovalFacts ==
  ASSUME TransformInv, phase = "removals", NEW i \in todo
  PROVE  /\ i \in Item /\ i \in Existing /\ old[i] \in Place /\ i \notin Made
         /\ History = past /\ Removing /\ LimboSound /\ HistorySound(past) /\ Placed(past)
         /\ ~WentOut(past, i) /\ \A j : ~WentIn(past, j)
         /\ loc[i] = IF i \in missing THEN None ELSE old[i]
         /\ Leads(old, Root, i) <=> i \notin missing
<1>1. /\ TypeOK /\ Removing /\ LimboSound /\ History = past /\ HistorySound(past) /\ Placed(past)
      /\ todo \subseteq Existing /\ missing \subseteq Existing
  BY DEF TransformInv, Early, History, Removing
<1>2. \A j \in todo : j \in Item /\ j \in Existing /\ old[j] \in Place /\ old[j] # None /\ j \notin Made
  BY <1>1, LayoutFacts DEF Existing, Made, IsNew
<1>3. \A j : ~WentIn(past, j)
  BY <1>1 DEF Removing, WentIn
<1>4. \A j \in todo : ~WentOut(past, j)
  BY <1>1 DEF Removing, WentOut
<1>5. \A j \in todo : loc[j] = IF j \in missing THEN None ELSE old[j]
  BY <1>1, <1>2, <1>3, <1>4 DEF Placed, Start, IsNew
<1>6. i \notin missing => Leads(old, Root, i)
  <2> SUFFICES ASSUME i \notin missing PROVE Leads(old, Root, i)
    OBVIOUS
  <2> DEFINE P == todo \ missing
  <2>1. P \in SUBSET Item /\ i \in P
    BY <1>2
  <2>2. \A j \in P : old[j].dir \in P \cup {Root}
    BY <1>1, <1>2, LayoutFacts, PlaceFacts DEF Removing
  <2>3. \A j \in P : loc[j] # None /\ loc[j] = old[j]
    BY <1>2, <1>5
  <2> HIDE DEF P
  <2> QED
    BY <2>1, <2>2, <2>3 DEF Leads
<1>7. i \in missing => ~Leads(old, Root, i)
  BY <1>1, <1>2, <1>5, LayoutFacts DEF Leads
<1> QED
  BY <1>1, <1>2, <1>3, <1>4, <1>5, <1>6, <1>7

\* The place an item is taken to is free: its own name, or the wanted one below a
\* new directory, where nothing of the old tree is.
LEMMA RemovalFree ==
  ASSUME TransformInv, phase = "removals", NEW i \in todo, NEW p,
         p = InDeletion(i) \/ (i \in Wanted /\ p = LimboPlace(i)),
         NEW j \in Item, j # i
  PROVE  loc[j] # p
<1>1. /\ i \in Item /\ TypeOK /\ LimboSound /\ Removing /\ Placed(past) /\ WellFormed(old) /\ WellFormed(new)
      /\ \A q : ~WentIn(past, q)
  BY RemovalFacts DEF TransformInv, Removing
<1>2. loc[j] \in {None, InDeletion(j), limbo[j], old[j]}
  BY <1>1 DEF Placed, Home, Start
<1>3. \/ p = InDeletion(i) \/ p = InLimbo(i)
      \/ p = new[i] /\ new[i] # None /\ new[i] \in Place /\ new[i].dir \in Made
  BY <1>1, LimboPlaceFacts, LayoutFacts DEF Wanted, IsDeleted
<1>4. limbo[j] # None => limbo[j] = InLimbo(j) \/ (limbo[j] = new[j] /\ new[j] # None /\ new[j] \in Place)
  BY <1>1, LayoutFacts DEF LimboSound, Wanted, IsDeleted
<1>5. old[j] # None => old[j] \in Place /\ old[j].dir \notin Made
  <2>1. old[j] # None => old[j].dir = Root \/ old[old[j].dir] # None
    BY <1>1 DEF WellFormed, ParentsExist
  <2> QED
    BY <1>1, <2>1, LayoutFacts DEF Made, IsNew
<1>6. new[j] # None /\ new[i] # None /\ new[i] = new[j] => i = j
  BY <1>1 DEF WellFormed, NoDuplicates
<1>7. p # None
  BY <1>1, <1>3, PlaceFacts
<1>8. CASE p = InDeletion(i) \/ p = InLimbo(i)
  BY <1>1, <1>2, <1>4, <1>5, <1>7, <1>8, PlaceFacts
<1>9. CASE p = new[i] /\ new[i] # None /\ new[i] \in Place /\ new[i].dir \in Made
  BY <1>2, <1>4, <1>5, <1>6, <1>9, PlaceFacts
<1> QED
  BY <1>3, <1>8, <1>9

\* What has been renamed is no more to be taken out.
LEMMA RemovedItems ==
  ASSUME past \in Seq(Move), Removing
  PROVE  \A k \in 1..Len(past) : past[k].item \in Item \ todo
<1>1. \A k \in 1..Len(past) : past[k] \in Move
  OBVIOUS
<1>2. \A k \in 1..Len(past) : past[k].item \in Item
  BY <1>1 DEF Move
<1> QED
  BY <1>2 DEF Removing

\* An item that is passed over, because it stays or is missing.
LEMMA PassedOver ==
  ASSUME TransformInv, phase = "removals", NEW i \in todo, Stays(i) \/ i \in missing, ChildFirst(i),
         UNCHANGED <<input, loc, past, phase, failed>>, todo' = todo \ {i},
         limbo' \in [Item -> Anywhere \cup {None}], LimboSound',
         \A j \in Item \ {i} : limbo'[j] = limbo[j], limbo'[i] # None <=> i \in Wanted /\ ~Stays(i)
  PROVE  TransformInv'
<1>1. /\ i \in Item /\ i \in Existing /\ i \notin Made /\ TypeOK /\ Removing /\ HistorySound(past)
      /\ Placed(past) /\ ~WentOut(past, i) /\ past \in Seq(Move) /\ Failures
      /\ \A j : ~WentIn(past, j)
  BY RemovalFacts DEF TransformInv
<1>2. TypeOK'
  <2>1. loc' \in [Item -> Anywhere \cup {None}] /\ todo' \subseteq Item /\ phase' \in Phases /\ failed' \subseteq Phases
    BY <1>1 DEF TypeOK, Anywhere
  <2> QED
    BY <1>1, <2>1, TypeKept
<1>3. History' = past /\ past' = past
  BY DEF History
<1>4. \A k \in 1..Len(past) : past[k].item \in Item \ {i}
  BY <1>1, RemovedItems
<1>5. HistorySound(History)'
  <2>1. \A k \in 1..Len(past) : MoveSound(past[k])'
    BY <1>1, <1>4, InputKept DEF HistorySound, MoveSound, Home, IsNew, IsDeleted, InLimbo, InDeletion
  <2>2. \A k \in 1..Len(past) : ~Inward(past[k]) => Trail(past, k)'
    BY <1>1, <1>3, InputKept DEF HistorySound, Trail
  <2> QED
    BY <1>1, <1>3, <2>1, <2>2, InputKept DEF HistorySound, IsNew
<1>6. Placed(History)'
  <2>1. \A j \in Item \ {i} : Home(j)' = Home(j) /\ Start(j)' = Start(j)
    BY InputKept DEF Home, Start, IsDeleted, IsNew, InDeletion
  <2>2. Start(i)' = Start(i)
    BY <1>1, InputKept DEF Start, IsNew, Existing
  <2> QED
    BY <1>1, <1>3, <2>1, <2>2 DEF Placed
<1>7. Removing'
  <2>1. \A j \in todo' : old[j].dir \in todo' \cup {Root}
    BY <1>1 DEF Removing, ChildFirst
  <2>2. \A j \in Item : limbo'[j] # None <=> j \in Made \/ (j \in Wanted \ todo' /\ ~Stays(j))
    BY <1>1 DEF Removing
  <2>3. \A j \in Existing \ todo' : j \notin missing /\ ~Stays(j) => WentOut(past, j)
    BY <1>1 DEF Removing
  <2> QED
    BY <1>1, <1>3, <2>1, <2>2, <2>3, InputKept DEF Removing
<1>8. Failures'
  BY <1>1 DEF Failures
<1> QED
  BY <1>1, <1>2, <1>5, <1>6, <1>7, <1>8, InputKept DEF TransformInv, Early

\* An item is taken out of the tree, to its home.
LEMMA TakenOut ==
  ASSUME TransformInv, phase = "removals", NEW i \in todo, ~Stays(i), i \notin missing, ChildFirst(i),
         UNCHANGED <<input, phase, failed>>, todo' = todo \ {i},
         limbo' \in [Item -> Anywhere \cup {None}], LimboSound',
         \A j \in Item \ {i} : limbo'[j] = limbo[j], limbo'[i] # None <=> i \in Wanted,
         NEW p \in Anywhere, p = Home(i)', \A j \in Item \ {i} : loc[j] # p,
         loc' = Renamed(i, p), past' = Append(past, [item |-> i, from |-> loc[i], to |-> p])
  PROVE  TransformInv'
<1>1. /\ i \in Item /\ i \in Existing /\ i \notin Made /\ TypeOK /\ Removing /\ HistorySound(past)
      /\ Placed(past) /\ ~WentOut(past, i) /\ past \in Seq(Move) /\ Failures /\ old[i] \in Place
      /\ loc[i] = old[i] /\ \A j : ~WentIn(past, j)
  BY RemovalFacts DEF TransformInv
<1>m. PICK m \in Move : m = [item |-> i, from |-> old[i], to |-> p]
  BY <1>1 DEF Move, Anywhere
<1>n. PICK n \in Nat : n = Len(past)
  BY <1>1
<1>2. m \in Move /\ m.item = i /\ m.from = old[i] /\ m.to = p /\ ~Inward(m)
  BY <1>1, <1>m, PlaceFacts DEF Inward
<1>3. past' = Append(past, m)
  BY <1>1, <1>m
<1>4. /\ past' \in Seq(Move) /\ Len(past') = n + 1 /\ n \in Nat
      /\ \A k \in 1..n : past'[k] = past[k]
      /\ past'[n + 1] = m
  BY <1>1, <1>2, <1>3, <1>n, AppendFacts
<1>5. \A k : k \in 1..(n + 1) <=> k \in 1..n \/ k = n + 1
  BY <1>4
<1>6. loc'[i] = p /\ \A j \in Item \ {i} : loc'[j] = loc[j]
  BY <1>1 DEF Renamed
<1>7. TypeOK'
  <2>1. loc' \in [Item -> Anywhere \cup {None}]
    BY <1>1 DEF TypeOK, Anywhere, Renamed
  <2>2. todo' \subseteq Item /\ phase' \in Phases /\ failed' \subseteq Phases
    BY <1>1 DEF TypeOK
  <2> QED
    BY <1>1, <1>4, <2>1, <2>2, TypeKept
<1>8. History' = past'
  BY DEF History
<1>9. \A k \in 1..n : past[k].item \in Item \ todo /\ ~Inward(past[k])
  BY <1>1, <1>n, RemovedItems DEF Removing
<1>10. HistorySound(History)'
  <2>1. ASSUME NEW k \in 1..n PROVE MoveSound(past[k])'
    <3>1. MoveSound(past[k]) /\ past'[k] = past[k]
      BY <1>1, <1>4, <1>n DEF HistorySound
    <3>2. limbo'[past[k].item] = limbo[past[k].item]
      BY <1>9
    <3> QED
      BY <3>1, <3>2, InputKept DEF MoveSound, Home, IsNew, IsDeleted, InLimbo, InDeletion
  <2>2. MoveSound(m)'
    BY <1>1, <1>2, InputKept DEF MoveSound, IsNew, Existing
  <2>3. \A k, l \in 1..(n + 1) : past'[k].item = past'[l].item => k = l
    BY <1>1, <1>2, <1>4, <1>5, <1>9, <1>n DEF HistorySound
  <2>4. \A k \in 1..(n + 1) : ~Inward(past'[k])
    BY <1>2, <1>4, <1>5, <1>9
  <2>5. \A k \in 1..n : Trail(past, k)
    BY <1>1, <1>9, <1>n DEF HistorySound
  <2>6. ASSUME NEW k \in 1..n PROVE Trail(past, k)'
    <3>1. PICK P \in SUBSET (Existing \ missing) :
            /\ past[k].from.dir \in P \cup {Root}
            /\ \A j \in P : old[j].dir \in P \cup {Root}
            /\ \A l \in 1..k : past[l].item \notin P
      BY <2>5 DEF Trail
    <3>2. \A l \in 1..k : l \in 1..n
      BY <1>4
    <3> QED
      BY <1>4, <3>1, <3>2, InputKept DEF Trail
  <2>7. Trail(past, n + 1)'
    <3> DEFINE P == (todo \ {i}) \ missing
    <3>1. P \in SUBSET (Existing \ missing)
      BY <1>1 DEF Removing
    <3>2. old[i].dir \in P \cup {Root} /\ \A j \in P : old[j].dir \in P \cup {Root}
      <4>1. \A j \in todo : old[j].dir \in todo \cup {Root} /\ old[j].dir # i /\ old[j] \in Place
        BY <1>1, LayoutFacts DEF Removing, ChildFirst, Existing
      <4> QED
        BY <1>1, <4>1, LayoutFacts, PlaceFacts
    <3>3. \A l \in 1..(n + 1) : past'[l].item \notin P
      BY <1>2, <1>4, <1>5, <1>9
    <3> HIDE DEF P
    <3> QED
      BY <1>2, <1>4, <3>1, <3>2, <3>3, InputKept DEF Trail
  <2>8. \A k \in 1..(n + 1) : MoveSound(past[k])' /\ Trail(past, k)'
    BY <1>4, <1>5, <2>1, <2>2, <2>6, <2>7
  <2> QED
    BY <1>4, <1>8, <2>3, <2>4, <2>8 DEF HistorySound
<1>11. \A j : ~WentIn(past', j) /\ (WentOut(past', j) <=> WentOut(past, j) \/ j = i)
  BY <1>1, <1>2, <1>3, WentAfter
<1>12. Placed(History)'
  <2>1. \A j \in Item \ {i} : Home(j)' = Home(j) /\ Start(j)' = Start(j)
    BY InputKept DEF Home, Start, IsDeleted, IsNew, InDeletion
  <2> QED
    BY <1>1, <1>6, <1>8, <1>11, <2>1 DEF Placed
<1>13. Removing'
  <2>1. \A j \in todo' : old[j].dir \in todo' \cup {Root}
    BY <1>1 DEF Removing, ChildFirst
  <2>2. \A j \in Item : limbo'[j] # None <=> j \in Made \/ (j \in Wanted \ todo' /\ ~Stays(j))
    BY <1>1 DEF Removing
  <2>3. \A j \in Existing \ todo' : j \notin missing /\ ~Stays(j) => WentOut(past', j)
    BY <1>1, <1>11 DEF Removing
  <2>4. \A k \in 1..(n + 1) : past'[k].item \notin todo' /\ ~Stays(past'[k].item) /\ ~Inward(past'[k])
    BY <1>1, <1>2, <1>4, <1>5, <1>9, <1>n DEF Removing
  <2> QED
    BY <1>1, <1>4, <2>1, <2>2, <2>3, <2>4, InputKept DEF Removing
<1>14. Failures'
  BY <1>1 DEF Failures
<1> QED
  BY <1>1, <1>4, <1>7, <1>10, <1>12, <1>13, <1>14, InputKept DEF TransformInv, Early

\* One round of _apply_removals.
LEMMA TakeOutInv == ASSUME TransformInv, NEW i \in Item, TakeOut(i) PROVE TransformInv'
<1>1. /\ phase = "removals" /\ i \in todo /\ ChildFirst(i) /\ todo' = todo \ {i}
      /\ UNCHANGED <<input, phase, failed>> /\ TypeOK /\ past \in Seq(Move)
  BY DEF TakeOut, TransformInv
<1>2. /\ i \in Item /\ i \in Existing /\ i \notin Made /\ LimboSound /\ Removing
      /\ Leads(old, Root, i) <=> i \notin missing
  BY <1>1, RemovalFacts
<1>3. limbo[i] = None
  BY <1>1, <1>2 DEF Removing
<1>5. CASE Stays(i) /\ UNCHANGED <<loc, past, limbo>>
  <2>1. LimboSound' /\ limbo' \in [Item -> Anywhere \cup {None}]
    BY <1>1, <1>2, <1>5, InputKept DEF LimboSound, InLimbo, TypeOK, Anywhere
  <2> QED
    BY <1>1, <1>3, <1>5, <2>1, PassedOver
<1>6. CASE ~Stays(i) /\ IsDeleted(i) /\ PreDelete(i)
  <2>1. i \notin missing /\ i \notin Wanted
    BY <1>6 DEF Stays, Wanted
  <2>2. /\ UNCHANGED limbo /\ loc' = Renamed(i, InDeletion(i))
        /\ past' = Append(past, [item |-> i, from |-> loc[i], to |-> InDeletion(i)])
    BY <1>6 DEF PreDelete, Rename, InDeletion
  <2>3. LimboSound' /\ limbo' \in [Item -> Anywhere \cup {None}]
    BY <1>1, <1>2, <2>2, InputKept DEF LimboSound, InLimbo, TypeOK, Anywhere
  <2>4. InDeletion(i) \in Anywhere /\ InDeletion(i) = Home(i)'
    BY <1>1, <1>6, PlaceFacts, InputKept DEF Home, IsDeleted, InDeletion, Anywhere
  <2>5. \A j \in Item \ {i} : loc[j] # InDeletion(i)
    BY <1>1, RemovalFree
  <2> QED
    BY <1>1, <1>3, <1>6, <2>1, <2>2, <2>3, <2>4, <2>5, TakenOut
<1>7. CASE ~Stays(i) /\ ~IsDeleted(i) /\ MoveOut(i)
  <2>1. i \in Wanted /\ limbo' = [limbo EXCEPT ![i] = LimboPlace(i)]
    BY <1>7 DEF Wanted, MoveOut
  <2>2. /\ LimboSound' /\ limbo' \in [Item -> Anywhere \cup {None}]
        /\ limbo'[i] = LimboPlace(i) /\ \A j \in Item \ {i} : limbo'[j] = limbo[j]
    BY <1>1, <1>2, <2>1, LimboKept DEF Anywhere
  <2>3. LimboPlace(i) \in Anywhere /\ LimboPlace(i) # None
    BY <1>1, <1>2, <2>1, LimboPlaceFacts
  <2>4. CASE i \in missing
    <3>1. UNCHANGED <<loc, past>>
      BY <1>2, <1>7, <2>4 DEF MoveOut
    <3> QED
      BY <1>1, <1>7, <2>1, <2>2, <2>3, <2>4, <3>1, PassedOver
  <2>5. CASE i \notin missing
    <3>1. /\ loc' = Renamed(i, LimboPlace(i))
          /\ past' = Append(past, [item |-> i, from |-> loc[i], to |-> LimboPlace(i)])
      BY <1>2, <1>7, <2>5 DEF MoveOut, Rename
    <3>2. LimboPlace(i) = Home(i)'
      BY <1>1, <1>7, <2>2, InputKept DEF Home, IsDeleted
    <3>3. \A j \in Item \ {i} : loc[j] # LimboPlace(i)
      BY <1>1, <2>1, RemovalFree
    <3> QED
      BY <1>1, <1>7, <2>1, <2>2, <2>3, <2>5, <3>1, <3>2, <3>3, TakenOut
  <2> QED
    BY <2>4, <2>5
<1> QED
  BY <1>5, <1>6, <1>7 DEF TakeOut

\* A step between phases that renames nothing.
LEMMA HistoryCarried ==
  ASSUME TransformInv, phase \in Early \cup {"rollback"}, UNCHANGED <<input, loc, limbo>>, History' = History
  PROVE  LimboSound' /\ HistorySound(History)' /\ Placed(History)'
<1>1. LimboSound /\ HistorySound(History) /\ Placed(History)
  BY DEF TransformInv
<1>2. LimboSound'
  BY <1>1, InputKept DEF LimboSound, InLimbo
<1>3. HistorySound(History)'
  <2> DEFINE h == History
  <2>1. /\ \A k \in 1..Len(h) : MoveSound(h[k]) /\ (~Inward(h[k]) => Trail(h, k))
        /\ \A k, l \in 1..Len(h) : h[k].item = h[l].item /\ (Inward(h[k]) <=> Inward(h[l])) => k = l
        /\ \A k, l \in 1..Len(h) : k < l /\ Inward(h[k]) => Inward(h[l])
        /\ \A k \in 1..Len(h) :
             Inward(h[k]) /\ ~IsNew(h[k].item) => \E l \in 1..(k - 1) : h[l].item = h[k].item
    BY <1>1 DEF HistorySound
  <2>2. \A k \in 1..Len(h)' : MoveSound(h[k])'
    BY <2>1, InputKept DEF MoveSound, Home, IsNew, IsDeleted, InLimbo, InDeletion
  <2>3. \A k \in 1..Len(h)' : ~Inward(h[k])' => Trail(h, k)'
    BY <2>1, InputKept DEF Trail, Inward
  <2> QED
    BY <2>1, <2>2, <2>3, InputKept DEF HistorySound, IsNew
<1>4. Placed(History)'
  BY <1>1, InputKept DEF Placed, Home, Start, IsNew, IsDeleted, InDeletion
<1> QED
  BY <1>2, <1>3, <1>4

\* The removals are done.
LEMMA RemovalsDoneInv == ASSUME TransformInv, RemovalsDone PROVE TransformInv'
<1>1. /\ phase = "removals" /\ todo = {} /\ phase' = "insertions" /\ todo' = Wanted
      /\ UNCHANGED <<input, loc, limbo, past, failed>>
      /\ TypeOK /\ Removing /\ Failures /\ past \in Seq(Move)
  BY DEF RemovalsDone, Begin, Wanted, TransformInv
<1>2. TypeOK'
  BY <1>1 DEF TypeOK, input, Wanted, Phases
<1>3. History' = History
  BY <1>1 DEF History
<1>4. LimboSound' /\ HistorySound(History)' /\ Placed(History)'
  BY <1>1, <1>3, HistoryCarried DEF Early
<1>5. Inserting'
  <2>1. \A j \in Item : limbo'[j] # None <=> j \in Made \/ (j \in Wanted /\ ~Stays(j))
    BY <1>1 DEF Removing
  <2>2. \A j \in Existing \ missing : ~Stays(j) => WentOut(past, j)
    BY <1>1 DEF Removing
  <2>3. \A k \in 1..Len(past) : ~Stays(past[k].item) /\ ~Inward(past[k])
    BY <1>1 DEF Removing
  <2>4. WellFormed(new)
    BY <1>1 DEF Removing
  <2> QED
    BY <1>1, <2>1, <2>2, <2>3, <2>4, InputKept DEF Inserting
<1>6. Failures'
  BY <1>1 DEF Failures
<1> QED
  BY <1>1, <1>2, <1>4, <1>5, <1>6, InputKept DEF TransformInv, Early

-----------------------------------------------------------------------------
\* Insertions.

\* While items are brought in, what is wanted is at its new place, or in limbo
\* and still to be brought in; what is deleted waits in pending-deletion.
LEMMA InsertionPlaces ==
  ASSUME TransformInv, phase = "insertions", NEW j \in Item
  PROVE  /\ j \in missing => loc[j] = None
         /\ j \in Wanted \ missing =>
              \/ loc[j] = new[j] /\ (NeedsRename(j) => j \notin todo)
              \/ NeedsRename(j) /\ j \in todo /\ loc[j] = InLimbo(j) /\ limbo[j] = InLimbo(j) /\ ~Stays(j)
         /\ j \notin Wanted \cup missing => loc[j] \in {None, InDeletion(j)}
         /\ j \in Wanted => new[j] \in Place /\ new[j] # None
<1>1. /\ TypeOK /\ Inserting /\ LimboSound /\ HistorySound(past) /\ Placed(past) /\ past \in Seq(Move)
      /\ missing \subseteq Existing
  BY DEF TransformInv, Early, History
<1>2. \A k \in 1..Len(past) : MoveSound(past[k]) /\ ~Stays(past[k].item)
  BY <1>1 DEF HistorySound, Inserting
<1>3. j \in missing => ~WentOut(past, j) /\ ~WentIn(past, j)
  BY <1>2 DEF MoveSound, WentOut, WentIn
<1>4. Stays(j) => ~WentOut(past, j) /\ ~WentIn(past, j)
  BY <1>2 DEF WentOut, WentIn
<1>5. IsNew(j) => ~WentOut(past, j)
  <2> SUFFICES ASSUME IsNew(j), NEW k \in 1..Len(past), past[k].item = j PROVE Inward(past[k])
    BY DEF WentOut
  <2>1. past[k].from = InLimbo(j)
    BY <1>2 DEF MoveSound
  <2> QED
    BY <2>1, PlaceFacts DEF Inward
<1>6. IsDeleted(j) => ~WentIn(past, j)
  <2> SUFFICES ASSUME IsDeleted(j), NEW k \in 1..Len(past), past[k].item = j PROVE ~Inward(past[k])
    BY DEF WentIn
  <2>1. past[k].from = old[j] /\ old[j] \in Place
    BY <1>1, <1>2, LayoutFacts DEF MoveSound, IsNew
  <2> QED
    BY <2>1, PlaceFacts DEF Inward
<1>7. j \in todo => ~WentIn(past, j)
  BY <1>1 DEF Inserting, WentIn
<1>8. limbo[j] # None => limbo[j] = InLimbo(j) \/ limbo[j] = new[j]
  BY <1>1 DEF LimboSound
<1>9. j \in Wanted => new[j] \in Place /\ new[j] # None
  BY <1>1, LayoutFacts DEF Wanted, IsDeleted
<1>10. NeedsRename(j) <=> limbo[j] # None /\ limbo[j] = InLimbo(j)
  BY <1>1, <1>8, <1>9, PlaceFacts DEF NeedsRename, LimboSound
<1>11. j \in missing => loc[j] = None
  BY <1>1, <1>3 DEF Placed, Start, Existing, IsNew
<1>12. CASE j \in Wanted \ missing
  <2>1. CASE j \notin todo
    BY <1>1, <1>9, <1>12, <2>1 DEF Inserting
  <2>2. CASE j \in todo /\ Stays(j)
    <3>1. loc[j] = Start(j) /\ ~IsNew(j) /\ old[j] = new[j]
      BY <1>1, <1>4, <1>9, <1>12, <2>2 DEF Placed, Stays, Wanted, IsNew
    <3>2. limbo[j] = None
      BY <1>1, <2>2, <3>1 DEF Inserting, Made
    <3> QED
      BY <1>9, <1>10, <1>11, <1>12, <3>1, <3>2 DEF Start
  <2>3. CASE j \in todo /\ ~Stays(j)
    <3>1. limbo[j] # None
      BY <1>1, <1>12, <2>3 DEF Inserting
    <3>2. ~IsNew(j) => WentOut(past, j)
      BY <1>1, <1>12, <2>3 DEF Inserting, Existing, IsNew
    <3>3. loc[j] = limbo[j]
      BY <1>1, <1>5, <1>7, <1>12, <2>3, <3>2 DEF Placed, Home, Start, Wanted
    <3> QED
      BY <1>8, <1>9, <1>10, <1>11, <1>12, <2>3, <3>1, <3>3, PlaceFacts
  <2> QED
    BY <2>1, <2>2, <2>3
<1>13. CASE j \notin Wanted \cup missing
  <2>1. IsDeleted(j) /\ limbo[j] = None
    BY <1>1, <1>13 DEF Wanted, LimboSound
  <2>2. ~IsNew(j) => WentOut(past, j)
    BY <1>1, <1>13, <2>1 DEF Inserting, Existing, IsNew, Stays, IsDeleted
  <2> QED
    BY <1>1, <1>6, <1>9, <1>11, <1>13, <2>1, <2>2 DEF Placed, Home, Start
<1> QED
  BY <1>9, <1>11, <1>12, <1>13

\* The directory an item is brought into can be reached.
LEMMA InsertionPath ==
  ASSUME TransformInv, phase = "insertions", NEW i \in todo, InsertsNext(i)
  PROVE  Leads(new, Root, new[i].dir)
<1>1. TypeOK /\ Inserting /\ todo \subseteq Wanted /\ WellFormed(new)
  BY DEF TransformInv, Inserting
<1>2. \A j \in Wanted : /\ j \in Item /\ new[j] # None /\ new[j] \in Place
                        /\ new[j].dir \in (Wanted \ missing) \cup {Root}
  <2> SUFFICES ASSUME NEW j \in Wanted
               PROVE  /\ j \in Item /\ new[j] # None /\ new[j] \in Place
                      /\ new[j].dir \in (Wanted \ missing) \cup {Root}
    OBVIOUS
  <2>1. j \in Item /\ new[j] # None /\ new[j] \in Place
    BY <1>1, LayoutFacts DEF Wanted, IsDeleted
  <2>2. new[j].dir = Root \/ new[new[j].dir] # None
    BY <1>1, <2>1 DEF WellFormed, ParentsExist
  <2> QED
    BY <1>1, <2>1, <2>2, LayoutFacts, PlaceFacts DEF Wanted, IsDeleted
<1> DEFINE P == (Wanted \ todo) \ missing
<1>3. P \in SUBSET Item
  BY <1>2
<1>4. \A j \in P : loc[j] # None /\ loc[j] = new[j] /\ new[j].dir \in P \cup {Root}
  BY <1>1, <1>2 DEF Inserting
<1>5. new[i].dir \in P \cup {Root}
  BY <1>1, <1>2 DEF InsertsNext
<1> HIDE DEF P
<1> QED
  BY <1>3, <1>4, <1>5 DEF Leads

\* An item whose turn has come and that is in place, or missing.
LEMMA LeftInPlace ==
  ASSUME TransformInv, phase = "insertions", NEW i \in todo, InsertsNext(i), i \in missing \/ loc[i] = new[i],
         UNCHANGED <<input, loc, past, limbo, phase, failed>>, todo' = todo \ {i}
  PROVE  TransformInv'
<1>1. TypeOK /\ Inserting /\ past \in Seq(Move) /\ Failures
  BY DEF TransformInv
<1>2. History' = History
  BY DEF History
<1>3. LimboSound' /\ HistorySound(History)' /\ Placed(History)'
  BY <1>2, HistoryCarried DEF Early
<1>4. TypeOK'
  BY <1>1 DEF TypeOK, input
<1>5. Inserting'
  <2>1. \A j \in Wanted \ todo' : new[j].dir \notin todo'
    BY <1>1 DEF Inserting, InsertsNext
  <2>2. \A j \in Wanted \ (todo' \cup missing) : loc[j] = new[j]
    BY <1>1 DEF Inserting
  <2> QED
    BY <1>1, <2>1, <2>2, InputKept DEF Inserting
<1>6. Failures'
  BY <1>1 DEF Failures
<1> QED
  BY <1>1, <1>3, <1>4, <1>5, <1>6, InputKept DEF TransformInv, Early

\* An item is brought from limbo into the tree, where its name is free.
LEMMA BroughtIn ==
  ASSUME TransformInv, phase = "insertions", NEW i \in todo, InsertsNext(i), i \notin missing,
         NeedsRename(i), loc[i] = limbo[i], Rename(i, new[i]),
         UNCHANGED <<input, limbo, phase, failed>>, todo' = todo \ {i}
  PROVE  TransformInv'
<1>1. /\ TypeOK /\ Inserting /\ past \in Seq(Move) /\ Failures /\ HistorySound(past) /\ Placed(past)
      /\ LimboSound /\ i \in Wanted /\ i \in Item /\ WellFormed(new)
  BY DEF TransformInv, Early, History, Inserting, Wanted
<1>2. /\ loc[i] = InLimbo(i) /\ limbo[i] = InLimbo(i) /\ ~Stays(i) /\ new[i] \in Place /\ new[i] # None
  BY <1>1, InsertionPlaces, PlaceFacts DEF NeedsRename
<1>3. \A j \in Item \ {i} : loc[j] # new[i]
  <2> SUFFICES ASSUME NEW j \in Item, j # i, loc[j] = new[i] PROVE FALSE
    OBVIOUS
  <2>1. j \in Wanted /\ loc[j] = new[j]
    BY <1>1, <1>2, InsertionPlaces, PlaceFacts
  <2> QED
    BY <1>1, <1>2, <2>1 DEF WellFormed, NoDuplicates
<1>m. PICK m \in Move : m = [item |-> i, from |-> InLimbo(i), to |-> new[i]]
  BY <1>1, <1>2, PlaceFacts DEF Move, Anywhere
<1>n. PICK n \in Nat : n = Len(past)
  BY <1>1
<1>4. m \in Move /\ m.item = i /\ m.from = InLimbo(i) /\ m.to = new[i] /\ Inward(m)
  BY <1>1, <1>m, PlaceFacts DEF Inward
<1>5. past' = Append(past, m)
  BY <1>2, <1>m DEF Rename
<1>6. /\ past' \in Seq(Move) /\ Len(past') = n + 1
      /\ \A k \in 1..n : past'[k] = past[k]
      /\ past'[n + 1] = m
  BY <1>1, <1>4, <1>5, <1>n, AppendFacts
<1>7. \A k : k \in 1..(n + 1) <=> k \in 1..n \/ k = n + 1
  OBVIOUS
<1>8. loc'[i] = new[i] /\ \A j \in Item \ {i} : loc'[j] = loc[j]
  BY <1>1, <1>3 DEF Rename, Renamed
<1>9. TypeOK'
  <2>1. loc' \in [Item -> Anywhere \cup {None}]
    BY <1>1, <1>2 DEF TypeOK, Anywhere, Rename, Renamed
  <2>2. limbo' \in [Item -> Anywhere \cup {None}]
    BY <1>1 DEF TypeOK, Anywhere
  <2>3. todo' \subseteq Item /\ phase' \in Phases /\ failed' \subseteq Phases
    BY <1>1 DEF TypeOK
  <2> QED
    BY <1>1, <1>6, <2>1, <2>2, <2>3, TypeKept
<1>10. History' = past'
  BY DEF History
<1>11. LimboSound'
  BY <1>1, InputKept DEF LimboSound, InLimbo
<1>12. HistorySound(History)'
  <2>1. ASSUME NEW k \in 1..n PROVE MoveSound(past[k])'
    <3>1. MoveSound(past[k]) /\ past'[k] = past[k]
      BY <1>1, <1>6, <1>n DEF HistorySound
    <3> QED
      BY <3>1, InputKept DEF MoveSound, Home, IsNew, IsDeleted, InLimbo, InDeletion
  <2>2. MoveSound(m)'
    BY <1>1, <1>2, <1>4, InputKept DEF MoveSound, IsDeleted, Wanted, InLimbo
  <2>3. \A k, l \in 1..(n + 1) :
          past'[k].item = past'[l].item /\ (Inward(past'[k]) <=> Inward(past'[l])) => k = l
    <3>1. \A k \in 1..n : Inward(past[k]) => past[k].item # i
      BY <1>1, <1>n DEF Inserting
    <3> QED
      BY <1>1, <1>4, <1>6, <1>7, <1>n, <3>1 DEF HistorySound
  <2>4. \A k, l \in 1..(n + 1) : k < l /\ Inward(past'[k]) => Inward(past'[l])
    <3>1. \A k, l \in 1..n : k < l /\ Inward(past[k]) => Inward(past[l])
      BY <1>1, <1>n DEF HistorySound
    <3>2. \A k, l \in 1..(n + 1) : k < l => k \in 1..n
      OBVIOUS
    <3> QED
      BY <1>4, <1>6, <1>7, <3>1, <3>2
  <2>5. ASSUME NEW k \in 1..(n + 1), Inward(past'[k]), ~IsNew(past'[k].item)
        PROVE  \E l \in 1..(k - 1) : past'[l].item = past'[k].item
    <3>1. CASE k \in 1..n
      <4>1. PICK l \in 1..(k - 1) : past[l].item = past[k].item
        BY <1>1, <1>6, <1>n, <2>5, <3>1 DEF HistorySound
      <4>2. l \in 1..n
        BY <3>1
      <4> QED
        BY <1>6, <3>1, <4>1, <4>2
    <3>2. CASE k = n + 1
      <4>1. i \in Existing \ missing
        BY <1>1, <1>4, <1>6, <2>5, <3>2 DEF Existing, IsNew
      <4>2. PICK l \in 1..n : past[l].item = i
        BY <1>1, <1>2, <1>n, <4>1 DEF Inserting, WentOut
      <4>3. l \in 1..(k - 1)
        BY <3>2
      <4> QED
        BY <1>4, <1>6, <3>2, <4>2, <4>3
    <3> QED
      BY <1>7, <3>1, <3>2
  <2>6. ASSUME NEW k \in 1..n, ~Inward(past[k]) PROVE Trail(past, k)'
    <3>1. PICK P \in SUBSET (Existing \ missing) :
            /\ past[k].from.dir \in P \cup {Root}
            /\ \A j \in P : old[j].dir \in P \cup {Root}
            /\ \A l \in 1..k : past[l].item \notin P
      BY <1>1, <1>n, <2>6 DEF HistorySound, Trail
    <3>2. \A l \in 1..k : l \in 1..n
      OBVIOUS
    <3> QED
      BY <1>6, <3>1, <3>2, InputKept DEF Trail
  <2>7. \A k \in 1..(n + 1) : MoveSound(past[k])' /\ (~Inward(past'[k]) => Trail(past, k)')
    BY <1>4, <1>6, <1>7, <2>1, <2>2, <2>6
  <2> QED
    BY <1>6, <1>10, <2>3, <2>4, <2>5, <2>7, InputKept DEF HistorySound, IsNew
<1>13. \A j : /\ WentIn(past', j) <=> WentIn(past, j) \/ j = i
              /\ WentOut(past', j) <=> WentOut(past, j)
  BY <1>1, <1>4, <1>5, WentAfter
<1>14. Placed(History)'
  <2>1. \A j \in Item : Home(j)' = Home(j) /\ Start(j)' = Start(j)
    BY InputKept DEF Home, Start, IsDeleted, IsNew, InDeletion
  <2> QED
    BY <1>1, <1>8, <1>10, <1>13, <2>1, InputKept DEF Placed
<1>15. Inserting'
  <2>1. \A j \in Wanted \ todo' : new[j].dir \notin todo'
    BY <1>1 DEF Inserting, InsertsNext
  <2>2. \A j \in Wanted \ (todo' \cup missing) : loc'[j] = new[j]
    BY <1>1, <1>8 DEF Inserting, Wanted
  <2>3. \A k \in 1..(n + 1) : ~Stays(past'[k].item) /\ (Inward(past'[k]) => past'[k].item \notin todo')
    BY <1>1, <1>2, <1>4, <1>6, <1>7, <1>n DEF Inserting
  <2>4. \A j \in Existing \ missing : ~Stays(j) => WentOut(past', j)
    BY <1>1, <1>13 DEF Inserting
  <2>5. todo' \subseteq Wanted /\ \A j \in Item : limbo'[j] # None <=> j \in Made \/ (j \in Wanted /\ ~Stays(j))
    BY <1>1 DEF Inserting
  <2> QED
    BY <1>1, <1>6, <2>1, <2>2, <2>3, <2>4, <2>5, InputKept DEF Inserting
<1>16. Failures'
  BY <1>1 DEF Failures
<1> QED
  BY <1>1, <1>6, <1>9, <1>11, <1>12, <1>14, <1>15, <1>16, InputKept DEF TransformInv, Early

\* One round of _apply_insertions.
LEMMA MoveInInv == ASSUME TransformInv, NEW i \in Item, MoveIn(i) PROVE TransformInv'
<1>1. /\ phase = "insertions" /\ i \in todo /\ InsertsNext(i) /\ todo' = todo \ {i}
      /\ UNCHANGED <<input, limbo, phase, failed>> /\ i \in Wanted
  BY DEF MoveIn, TransformInv, Inserting
<1>2. Leads(new, Root, new[i].dir)
  BY <1>1, InsertionPath
<1>3. CASE NeedsRename(i) /\ loc[i] = limbo[i]
  <2>1. i \notin missing
    BY <1>1, <1>3, InsertionPlaces DEF NeedsRename
  <2>2. Rename(i, new[i])
    BY <1>2, <1>3 DEF MoveIn
  <2> QED
    BY <1>1, <1>3, <2>1, <2>2, BroughtIn
<1>4. CASE ~(NeedsRename(i) /\ loc[i] = limbo[i])
  <2>1. UNCHANGED <<loc, past>>
    BY <1>4 DEF MoveIn
  <2>2. i \in missing \/ loc[i] = new[i]
    BY <1>1, <1>4, InsertionPlaces
  <2> QED
    BY <1>1, <2>1, <2>2, LeftInPlace
<1> QED
  BY <1>3, <1>4

-----------------------------------------------------------------------------
\* After the renames.

\* All renames are done.
LEMMA InsertionsDoneInv == ASSUME TransformInv, InsertionsDone PROVE TransformInv'
<1>1. /\ phase = "insertions" /\ todo = {} /\ phase' = "deletions"
      /\ todo' = {i \in Item : loc[i] # None /\ loc[i].dir = Deletion}
      /\ limbo' = [i \in Item |-> IF NeedsRename(i) THEN None ELSE limbo[i]]
      /\ UNCHANGED <<input, loc, past, failed>>
      /\ TypeOK /\ Inserting /\ LimboSound /\ Failures /\ past \in Seq(Move) /\ WellFormed(new)
      /\ missing \subseteq Existing
  BY DEF InsertionsDone, Begin, TransformInv, Early, Inserting
<1>2. \A j \in Item : /\ j \in missing => loc[j] = None
                      /\ j \in Wanted \ missing => loc[j] = new[j]
                      /\ j \notin Wanted => loc[j] \in {None, InDeletion(j)}
                      /\ j \in Wanted => new[j] \in Place /\ new[j] # None
  BY <1>1, InsertionPlaces
<1>3. TypeOK'
  <2>1. loc' \in [Item -> Anywhere \cup {None}] /\ limbo' \in [Item -> Anywhere \cup {None}]
    BY <1>1 DEF TypeOK, Anywhere
  <2>2. todo' \subseteq Item /\ phase' \in Phases /\ failed' \subseteq Phases
    BY <1>1 DEF TypeOK, Phases
  <2> QED
    BY <1>1, <2>1, <2>2, TypeKept
<1>4. \A j \in Item : limbo'[j] # None => limbo'[j] = new[j]
  <2> SUFFICES ASSUME NEW j \in Item, limbo'[j] # None PROVE limbo'[j] = new[j]
    OBVIOUS
  <2>1. ~NeedsRename(j) /\ limbo'[j] = limbo[j]
    BY <1>1
  <2>2. limbo[j] # InLimbo(j)
    BY <2>1, PlaceFacts DEF NeedsRename
  <2> QED
    BY <1>1, <2>1, <2>2 DEF LimboSound
<1>5. Renamings'
  <2>1. \A j \in missing : loc[j] = None
    BY <1>1, <1>2 DEF Existing
  <2>2. \A j \in Wanted \ missing : loc[j] = new[j]
    BY <1>2 DEF Wanted
  <2> QED
    BY <1>1, <1>2, <1>4, <2>1, <2>2, InputKept DEF Renamings, InDeletion
<1>6. todo' = {j \in Item : loc[j] = InDeletion(j)}
  <2>1. \A j \in Item : loc[j] = InDeletion(j) <=> loc[j] # None /\ loc[j].dir = Deletion
    BY <1>2, PlaceFacts
  <2> QED
    BY <1>1, <2>1
<1>7. Failures'
  BY <1>1 DEF Failures
<1>8. (todo = {i \in Item : loc[i] = InDeletion(i)})'
  BY <1>1, <1>6 DEF InDeletion
<1> QED
  BY <1>1, <1>3, <1>5, <1>7, <1>8, InputKept DEF TransformInv, Early

\* What holds after the renames is not disturbed when nothing moves.
LEMMA RenamingsKept ==
  ASSUME TransformInv, Renamings, UNCHANGED <<input, limbo>>,
         \A j \in Item : loc'[j] = loc[j] \/ (j \notin Wanted /\ loc'[j] = None)
  PROVE  Renamings'
<1>1. missing \subseteq Item /\ Wanted \subseteq Item
  BY DEF TransformInv, Existing, Wanted
<1>2. /\ \A i \in Wanted \ missing : loc'[i] = new[i]
      /\ \A i \in missing : loc'[i] = None
      /\ \A i \in Item \ Wanted : loc'[i] \in {None, InDeletion(i)}
  BY <1>1 DEF Renamings
<1> QED
  BY <1>2, InputKept DEF Renamings, InDeletion

\* What was taken out is deleted.
LEMMA DeleteInv == ASSUME TransformInv, NEW i \in Item, Delete(i) PROVE TransformInv'
<1>1. /\ phase = "deletions" /\ i \in todo /\ todo' = todo \ {i} /\ loc' = [loc EXCEPT ![i] = None]
      /\ UNCHANGED <<input, limbo, past, phase, failed>>
      /\ TypeOK /\ Renamings /\ Failures /\ past \in Seq(Move) /\ missing \subseteq Existing
      /\ todo = {j \in Item : loc[j] = InDeletion(j)}
  BY DEF Delete, TransformInv
<1>2. loc'[i] = None /\ \A j \in Item \ {i} : loc'[j] = loc[j]
  BY <1>1 DEF TypeOK
<1>3. TypeOK'
  <2>1. loc' \in [Item -> Anywhere \cup {None}] /\ limbo' \in [Item -> Anywhere \cup {None}]
    BY <1>1 DEF TypeOK, Anywhere
  <2>2. todo' \subseteq Item /\ phase' \in Phases /\ failed' \subseteq Phases
    BY <1>1 DEF TypeOK
  <2> QED
    BY <1>1, <2>1, <2>2, TypeKept
<1>4. i \notin Wanted
  <2>1. loc[i] = InDeletion(i) /\ InDeletion(i) # None
    BY <1>1, PlaceFacts
  <2>2. i \in Wanted => new[i] \in Place
    BY <1>1, LayoutFacts DEF Wanted, IsDeleted
  <2> QED
    BY <1>1, <2>1, <2>2, PlaceFacts DEF Renamings
<1>5. Renamings'
  BY <1>1, <1>2, <1>4, RenamingsKept
<1>6. (todo = {j \in Item : loc[j] = InDeletion(j)})'
  <2>1. InDeletion(i) # None
    BY PlaceFacts
  <2> QED
    BY <1>1, <1>2, <2>1 DEF InDeletion
<1>7. Failures'
  BY <1>1 DEF Failures
<1> QED
  BY <1>1, <1>3, <1>5, <1>6, <1>7, InputKept DEF TransformInv, Early

\* Everything is deleted.
LEMMA DeletionsDoneInv == ASSUME TransformInv, DeletionsDone PROVE TransformInv'
<1>1. /\ phase = "deletions" /\ todo = {} /\ phase' = "inventory" /\ todo' = {}
      /\ UNCHANGED <<input, loc, limbo, past, failed>>
      /\ TypeOK /\ Renamings /\ Failures /\ past \in Seq(Move)
      /\ todo = {j \in Item : loc[j] = InDeletion(j)}
  BY DEF DeletionsDone, Begin, TransformInv
<1>2. TypeOK'
  BY <1>1 DEF TypeOK, input, Phases
<1>3. Renamings'
  BY <1>1, RenamingsKept
<1>4. (\A i \in Item : loc[i] # InDeletion(i))'
  BY <1>1 DEF InDeletion
<1>5. Failures'
  BY <1>1 DEF Failures
<1> QED
  BY <1>1, <1>2, <1>3, <1>4, <1>5, InputKept DEF TransformInv, Early

\* The inventory is recorded.
LEMMA ApplyInventoryInv == ASSUME TransformInv, ApplyInventory PROVE TransformInv'
<1>1. /\ phase = "inventory" /\ phase' = "recorded" /\ todo' = LimboItems
      /\ UNCHANGED <<input, loc, limbo, past, failed>>
      /\ TypeOK /\ Renamings /\ Failures /\ past \in Seq(Move)
      /\ \A j \in Item : loc[j] # InDeletion(j)
  BY DEF ApplyInventory, Begin, TransformInv
<1>2. TypeOK'
  BY <1>1 DEF TypeOK, input, Phases, LimboItems
<1>3. Renamings'
  BY <1>1, RenamingsKept
<1>4. (\A i \in Item : loc[i] # InDeletion(i))'
  BY <1>1 DEF InDeletion
<1>5. Failures'
  BY <1>1 DEF Failures
<1> QED
  BY <1>1, <1>2, <1>3, <1>4, <1>5, InputKept DEF TransformInv, Early

-----------------------------------------------------------------------------
\* Failures and their rollback.

\* A system call fails.
LEMMA FailInv == ASSUME TransformInv, Fail PROVE TransformInv'
<1>1. /\ TypeOK /\ Failures /\ past \in Seq(Move) /\ UNCHANGED <<input, loc, limbo>>
      /\ failed' = failed \cup {phase}
  BY DEF Fail, TransformInv
<1>2. CASE phase \in {"removals", "insertions"}
  <2>1. phase' = "rollback" /\ todo' = {} /\ past' = Reverse(past) /\ failed = {} /\ failed' = {phase}
    BY <1>1, <1>2 DEF Fail, Begin, UndoOrder, Failures
  <2>2. past' \in Seq(Move)
    BY <1>1, <2>1, ReverseFacts
  <2>3. TypeOK'
    <3>1. loc' \in [Item -> Anywhere \cup {None}] /\ limbo' \in [Item -> Anywhere \cup {None}]
      BY <1>1 DEF TypeOK, Anywhere
    <3>2. todo' \subseteq Item /\ phase' \in Phases /\ failed' \subseteq Phases
      BY <1>1, <2>1 DEF TypeOK, Phases
    <3> QED
      BY <1>1, <2>2, <3>1, <3>2, TypeKept
  <2>4. History' = History
    BY <1>1, <1>2, <2>1, ReverseTwice DEF History
  <2>5. LimboSound' /\ HistorySound(History)' /\ Placed(History)'
    BY <1>1, <1>2, <2>4, HistoryCarried DEF Early
  <2>6. Failures'
    BY <1>2, <2>1 DEF Failures, Early
  <2> QED
    BY <1>1, <2>1, <2>2, <2>3, <2>5, <2>6, InputKept DEF TransformInv, Early
<1>3. CASE phase \notin {"removals", "insertions"}
  <2>1. /\ phase' = "finalize" /\ todo' = LimboItems /\ past' = past
        /\ phase \in {"build", "rollback", "deletions", "inventory"}
    BY <1>3 DEF Fail, Begin
  <2>2. TypeOK'
    BY <1>1, <2>1 DEF TypeOK, input, Phases, LimboItems
  <2>3. CASE phase = "build"
    <3>1. failed' = {"build"}
      BY <1>1, <2>3 DEF Failures
    <3>2. Failures' /\ failed' \subseteq Early /\ failed' \notin {{"deletions"}, {"inventory"}}
      BY <2>1, <3>1 DEF Failures, Early
    <3>3. LimboSound /\ \A j \in Item : loc[j] = Start(j)
      BY <2>3, NoHistory DEF TransformInv, Early, Building
    <3>4. Undone'
      BY <1>1, <2>1, <3>3, UndoneFrom
    <3> QED
      BY <1>1, <2>1, <2>2, <3>2, <3>4, InputKept DEF TransformInv, Early
  <2>4. CASE phase = "rollback"
    <3>1. "rollback" \in failed'
      BY <1>1, <2>4
    <3>2. Failures' /\ ~(failed' \subseteq Early) /\ failed' \notin {{"deletions"}, {"inventory"}}
      BY <2>1, <3>1 DEF Failures, Early
    <3> QED
      BY <1>1, <2>1, <2>2, <3>2, InputKept DEF TransformInv, Early
  <2>5. CASE phase \in {"deletions", "inventory"}
    <3>1. failed' = {phase} /\ Renamings
      BY <1>1, <2>5 DEF Failures, TransformInv
    <3>2. Failures' /\ ~(failed' \subseteq Early)
      BY <2>1, <2>5, <3>1 DEF Failures, Early
    <3>3. Renamings'
      BY <1>1, <3>1, RenamingsKept
    <3> QED
      BY <1>1, <2>1, <2>2, <3>2, <3>3, InputKept DEF TransformInv, Early
  <2> QED
    BY <2>1, <2>3, <2>4, <2>5
<1> QED
  BY <1>2, <1>3

\* A place in limbo is an own name there, or a place of the tree below a new
\* directory.
LEMMA LimboPlaces ==
  ASSUME TypeOK, LimboSound, NEW j \in Item
  PROVE  \/ limbo[j] = None
         \/ limbo[j] = InLimbo(j)
         \/ limbo[j] \in Place /\ limbo[j] = new[j] /\ limbo[j].dir \in Made
<1>1. j \in Wanted => new[j] \in Place
  BY LayoutFacts DEF Wanted, IsDeleted
<1> QED
  BY <1>1 DEF LimboSound

\* Which rename is undone next: the last, and when it is one out of the tree then
\* all are.
LEMMA UndoNext ==
  ASSUME TransformInv, phase = "rollback", past # <<>>
  PROVE  /\ Len(past) \in Nat \ {0} /\ Reverse(past) \in Seq(Move) /\ Len(Reverse(past)) = Len(past)
         /\ Reverse(past)[Len(past)] = past[1] /\ MoveSound(past[1])
         /\ HistorySound(Reverse(past)) /\ Placed(Reverse(past))
         /\ past[1].item \in Item /\ past[1].from \in Anywhere
         /\ Inward(past[1]) =>
              LET i == past[1].item
              IN  /\ WentIn(Reverse(past), i)
                  /\ ~IsDeleted(i) /\ limbo[i] = InLimbo(i) /\ past[1].from = InLimbo(i) /\ past[1].to = new[i]
         /\ ~Inward(past[1]) =>
              LET i == past[1].item
              IN  /\ WentOut(Reverse(past), i) /\ \A j : ~WentIn(Reverse(past), j)
                  /\ ~IsNew(i) /\ i \notin missing /\ past[1].from = old[i] /\ past[1].to = Home(i)
<1>1. TypeOK /\ past \in Seq(Move) /\ HistorySound(Reverse(past)) /\ Placed(Reverse(past))
  BY DEF TransformInv, History
<1>h. PICK h \in Seq(Move) : h = Reverse(past)
  BY <1>1, TailFacts
<1>n. PICK n \in Nat \ {0} : n = Len(past)
  BY <1>1, TailFacts
<1>2. Len(h) = n /\ h[n] = past[1] /\ n \in 1..n
  BY <1>1, <1>h, <1>n, TailFacts
<1>3. MoveSound(past[1]) /\ past[1] \in Move
  BY <1>1, <1>2, <1>h DEF HistorySound, MoveSound
<1>4. past[1].item \in Item /\ past[1].from \in Anywhere
  BY <1>3 DEF Move
<1>5. ~IsNew(past[1].item) => old[past[1].item].dir # Limbo
  BY <1>1, <1>4, LayoutFacts, PlaceFacts DEF IsNew
<1>6. InLimbo(past[1].item).dir = Limbo
  BY <1>4, PlaceFacts
<1>7. ASSUME Inward(past[1])
      PROVE  LET i == past[1].item
             IN  /\ WentIn(h, i)
                 /\ ~IsDeleted(i) /\ limbo[i] = InLimbo(i) /\ past[1].from = InLimbo(i) /\ past[1].to = new[i]
  <2>1. WentIn(h, past[1].item)
    BY <1>2, <1>7 DEF WentIn
  <2> QED
    BY <1>3, <1>5, <1>7, <2>1 DEF MoveSound, Inward
<1>8. ASSUME ~Inward(past[1])
      PROVE  LET i == past[1].item
             IN  /\ WentOut(h, i) /\ \A j : ~WentIn(h, j)
                 /\ ~IsNew(i) /\ i \notin missing /\ past[1].from = old[i] /\ past[1].to = Home(i)
  <2>1. WentOut(h, past[1].item)
    BY <1>2, <1>8 DEF WentOut
  <2>2. \A k \in 1..n : ~Inward(h[k])
    <3>1. \A k \in 1..n : k < n \/ k = n
      OBVIOUS
    <3>2. \A k \in 1..n : k < n /\ Inward(h[k]) => Inward(h[n])
      BY <1>1, <1>2, <1>h DEF HistorySound
    <3> QED
      BY <1>2, <1>8, <3>1, <3>2
  <2>3. \A j : ~WentIn(h, j)
    BY <1>2, <2>2 DEF WentIn
  <2> QED
    BY <1>3, <1>6, <1>8, <2>1, <2>3 DEF MoveSound, Inward
<1> QED
  BY <1>1, <1>2, <1>3, <1>4, <1>7, <1>8, <1>h, <1>n

\* The rename that is undone next can be undone.
LEMMA UndoFacts == ASSUME TransformInv, phase = "rollback", past # <<>> PROVE UndoPossible
<1>1. TypeOK /\ LimboSound /\ WellFormed(old)
  BY DEF TransformInv
<1>m. PICK m : m = past[1]
  OBVIOUS
<1>i. PICK i \in Item : i = m.item
  BY <1>m, UndoNext
<1>h. PICK h : h = Reverse(past)
  OBVIOUS
<1>2. \A j \in Item :
        loc[j] = IF WentIn(h, j) THEN new[j] ELSE IF WentOut(h, j) THEN Home(j) ELSE Start(j)
  BY <1>h, UndoNext DEF Placed
<1>3. \A j \in Item : /\ new[j] \in Place \/ new[j] = None
                      /\ old[j] \in Place \/ old[j] = None
                      /\ Start(j) \in {limbo[j], None, old[j]}
                      /\ Home(j) \in {InDeletion(j), limbo[j]}
  BY <1>1, LayoutFacts DEF Start, Home
<1>4. CASE Inward(m)
  <2>1. WentIn(h, i) /\ ~IsDeleted(i) /\ limbo[i] = InLimbo(i) /\ m.from = InLimbo(i) /\ m.to = new[i]
    BY <1>4, <1>h, <1>i, <1>m, UndoNext
  <2>2. loc[i] = m.to
    BY <1>2, <2>1
  <2>3. ASSUME NEW j \in Item, loc[j] = InLimbo(i) PROVE FALSE
    <3>1. loc[j] \in {new[j], InDeletion(j), limbo[j], None, old[j]}
      BY <1>2, <1>3
    <3>2. loc[j] = limbo[j] /\ limbo[j] # None
      BY <1>3, <2>3, <3>1, PlaceFacts
    <3>3. j = i
      BY <1>1, <2>3, <3>2, LimboPlaces, PlaceFacts
    <3> QED
      BY <1>3, <2>1, <2>2, <2>3, <3>3, PlaceFacts DEF IsDeleted
  <2>4. m.from.dir = Limbo
    BY <2>1, PlaceFacts
  <2> QED
    BY <1>i, <1>m, <2>1, <2>2, <2>3, <2>4 DEF UndoPossible, At
<1>5. CASE ~Inward(m)
  <2>1. /\ WentOut(h, i) /\ \A j : ~WentIn(h, j)
        /\ ~IsNew(i) /\ i \notin missing /\ m.from = old[i] /\ m.to = Home(i)
    BY <1>5, <1>h, <1>i, <1>m, UndoNext
  <2>2. loc[i] = m.to
    BY <1>2, <2>1
  <2>3. old[i] \in Place /\ old[i] # None /\ old[i].dir \notin Made
    <3>1. old[i] \in Place /\ old[i] # None
      BY <1>3, <2>1 DEF IsNew
    <3>2. old[i].dir = Root \/ old[old[i].dir] # None
      BY <1>1, <3>1 DEF WellFormed, ParentsExist
    <3> QED
      BY <1>1, <3>1, <3>2, LayoutFacts DEF Made, IsNew
  <2>4. \A j \in Item : limbo[j] # old[i] /\ InDeletion(j) # old[i]
    BY <1>1, <2>3, LimboPlaces, PlaceFacts
  <2>5. ASSUME NEW j \in Item, loc[j] = old[i] PROVE FALSE
    <3>1. ~WentOut(h, j) /\ loc[j] = Start(j) /\ Start(j) = old[j]
      BY <1>2, <1>3, <2>1, <2>3, <2>4, <2>5
    <3>2. j = i
      BY <1>1, <2>3, <2>5, <3>1 DEF WellFormed, NoDuplicates
    <3> QED
      BY <2>1, <3>1, <3>2
  <2>6. Leads(old, Root, old[i].dir)
    <3>n. PICK n \in Nat \ {0} : n = Len(past)
      BY UndoNext
    <3>1. Len(h) = n /\ h[n] = m /\ n \in 1..n /\ HistorySound(h)
      BY <1>h, <1>m, <3>n, UndoNext
    <3>2. Trail(h, n)
      BY <1>5, <3>1 DEF HistorySound
    <3>3. PICK P \in SUBSET (Existing \ missing) :
            /\ m.from.dir \in P \cup {Root}
            /\ \A j \in P : old[j].dir \in P \cup {Root}
            /\ \A l \in 1..n : h[l].item \notin P
      BY <3>1, <3>2 DEF Trail
    <3>4. P \in SUBSET Item /\ \A j \in P : old[j] # None /\ j \notin missing
      BY DEF Existing
    <3>5. \A j \in P : ~WentOut(h, j)
      BY <3>1, <3>3 DEF WentOut
    <3>6. \A j \in P : loc[j] = old[j]
      BY <1>2, <2>1, <3>4, <3>5 DEF Start, IsNew
    <3> QED
      BY <2>1, <3>3, <3>4, <3>6 DEF Leads
  <2> QED
    BY <1>i, <1>m, <2>1, <2>2, <2>5, <2>6 DEF UndoPossible, At
<1> QED
  BY <1>4, <1>5

\* rollback undoes a rename.
LEMMA RollbackInv == ASSUME TransformInv, Rollback PROVE TransformInv'
<1>1. /\ phase = "rollback" /\ past # <<>> /\ past' = Tail(past) /\ UNCHANGED <<input, limbo, phase, todo, failed>>
      /\ loc' = Renamed(past[1].item, past[1].from)
      /\ TypeOK /\ LimboSound /\ Failures /\ past \in Seq(Move)
  BY DEF Rollback, TransformInv
<1>m. PICK m : m = past[1]
  OBVIOUS
<1>i. PICK i \in Item : i = m.item
  BY <1>1, <1>m, UndoNext
<1>h. PICK h \in Seq(Move) : h = Reverse(past)
  BY <1>1, UndoNext
<1>n. PICK n \in Nat \ {0} : n = Len(past)
  BY <1>1, UndoNext
<1>g. PICK g \in Seq(Move) : g = Reverse(Tail(past))
  BY <1>1, TailFacts
<1>2. /\ Len(h) = n /\ h[n] = m /\ HistorySound(h) /\ Placed(h) /\ m.from \in Anywhere /\ MoveSound(m)
  BY <1>1, <1>h, <1>m, <1>n, UndoNext
<1>3. /\ Len(g) = n - 1 /\ \A k \in 1..(n - 1) : g[k] = h[k] /\ k \in 1..n /\ k # n
      /\ past' \in Seq(Move)
  <2>1. \A k \in 1..(n - 1) : k \in 1..n /\ k # n
    OBVIOUS
  <2>2. Len(g) = n - 1 /\ (\A k \in 1..(n - 1) : g[k] = h[k]) /\ past' \in Seq(Move)
    BY <1>1, <1>g, <1>h, <1>n, TailFacts
  <2> QED
    BY <2>1, <2>2
<1>4. History' = g
  BY <1>1, <1>g DEF History
<1>5. \A j \in Item : loc[j] # m.from
  BY <1>1, <1>m, UndoFacts DEF UndoPossible, At
<1>6. loc'[i] = m.from /\ \A j \in Item \ {i} : loc'[j] = loc[j]
  BY <1>1, <1>5, <1>i, <1>m DEF Renamed
<1>7. TypeOK'
  <2>1. loc' \in [Item -> Anywhere \cup {None}]
    BY <1>1, <1>2, <1>m DEF TypeOK, Anywhere, Renamed
  <2>2. limbo' \in [Item -> Anywhere \cup {None}]
    BY <1>1 DEF TypeOK, Anywhere
  <2>3. todo' \subseteq Item /\ phase' \in Phases /\ failed' \subseteq Phases
    BY <1>1 DEF TypeOK
  <2> QED
    BY <1>1, <1>3, <2>1, <2>2, <2>3, TypeKept
<1>8. LimboSound'
  BY <1>1, InputKept DEF LimboSound, InLimbo
<1>9. HistorySound(g)'
  <2>1. \A k \in 1..(n - 1) : MoveSound(g[k])'
    <3>1. \A k \in 1..(n - 1) : MoveSound(g[k])
      BY <1>2, <1>3 DEF HistorySound
    <3> QED
      BY <1>1, <3>1, InputKept DEF MoveSound, Home, IsNew, IsDeleted, InLimbo, InDeletion
  <2>2. /\ \A k, l \in 1..(n - 1) : g[k].item = g[l].item /\ (Inward(g[k]) <=> Inward(g[l])) => k = l
        /\ \A k, l \in 1..(n - 1) : k < l /\ Inward(g[k]) => Inward(g[l])
    BY <1>2, <1>3 DEF HistorySound
  <2>3. ASSUME NEW k \in 1..(n - 1), Inward(g[k]), ~IsNew(g[k].item)
        PROVE  \E l \in 1..(k - 1) : g[l].item = g[k].item
    <3>1. PICK l \in 1..(k - 1) : h[l].item = h[k].item
      BY <1>2, <1>3, <2>3 DEF HistorySound
    <3>2. l \in 1..(n - 1)
      OBVIOUS
    <3> QED
      BY <1>3, <3>1, <3>2
  <2>4. ASSUME NEW k \in 1..(n - 1), ~Inward(g[k]) PROVE Trail(g, k)'
    <3>1. Trail(h, k)
      BY <1>2, <1>3, <2>4 DEF HistorySound
    <3>2. PICK P \in SUBSET (Existing \ missing) :
            /\ h[k].from.dir \in P \cup {Root}
            /\ \A j \in P : old[j].dir \in P \cup {Root}
            /\ \A l \in 1..k : h[l].item \notin P
      BY <3>1 DEF Trail
    <3>3. \A l \in 1..k : l \in 1..(n - 1)
      OBVIOUS
    <3> QED
      BY <1>1, <1>3, <3>2, <3>3, InputKept DEF Trail
  <2> QED
    BY <1>1, <1>3, <2>1, <2>2, <2>3, <2>4, InputKept DEF HistorySound, IsNew
<1>10. \A j : /\ WentOut(h, j) <=> WentOut(g, j) \/ (j = i /\ ~Inward(m))
              /\ WentIn(h, j) <=> WentIn(g, j) \/ (j = i /\ Inward(m))
  <2>1. \A k \in 1..Len(g) : g[k] = h[k]
    BY <1>3
  <2>2. Len(g) = Len(h) - 1 /\ Len(h) \in Nat \ {0} /\ h[Len(h)] = m
    BY <1>2, <1>3
  <2> QED
    BY <1>i, <2>1, <2>2, WentBefore
<1>11. /\ Inward(m) => ~WentIn(g, i)
       /\ ~Inward(m) => ~WentOut(g, i)
  <2>1. \A k \in 1..(n - 1) : h[k].item = h[n].item => ~(Inward(h[k]) <=> Inward(h[n]))
    BY <1>2, <1>3 DEF HistorySound
  <2> QED
    BY <1>2, <1>3, <1>i, <2>1 DEF WentIn, WentOut
<1>12. Placed(g)'
  <2>1. \A j \in Item : Home(j)' = Home(j) /\ Start(j)' = Start(j) /\ new'[j] = new[j]
    BY <1>1, InputKept DEF Home, Start, IsDeleted, IsNew, InDeletion
  <2>2. m.from = IF WentIn(g, i) THEN new[i] ELSE IF WentOut(g, i) THEN Home(i) ELSE Start(i)
    <3>1. CASE Inward(m)
      <4>1. ~IsDeleted(i) /\ limbo[i] = InLimbo(i) /\ m.from = InLimbo(i)
        BY <1>1, <1>i, <1>m, <3>1, UndoNext
      <4>2. ~IsNew(i) => WentOut(g, i)
        <5> SUFFICES ASSUME ~IsNew(i) PROVE WentOut(g, i)
          OBVIOUS
        <5>1. PICK l \in 1..(n - 1) : h[l].item = i
          BY <1>2, <1>i, <3>1 DEF HistorySound
        <5> QED
          BY <1>3, <1>11, <3>1, <5>1 DEF WentIn, WentOut
      <4> QED
        BY <1>11, <3>1, <4>1, <4>2 DEF Home, Start
    <3>2. CASE ~Inward(m)
      <4>1. ~IsNew(i) /\ i \notin missing /\ m.from = old[i] /\ \A j : ~WentIn(h, j)
        BY <1>1, <1>h, <1>i, <1>m, <3>2, UndoNext
      <4> QED
        BY <1>10, <1>11, <3>2, <4>1 DEF Start
    <3> QED
      BY <3>1, <3>2
  <2>3. \A j \in Item \ {i} :
          loc[j] = IF WentIn(g, j) THEN new[j] ELSE IF WentOut(g, j) THEN Home(j) ELSE Start(j)
    BY <1>2, <1>10 DEF Placed
  <2> QED
    BY <1>6, <2>1, <2>2, <2>3 DEF Placed
<1>13. Failures'
  BY <1>1 DEF Failures
<1> QED
  BY <1>1, <1>3, <1>4, <1>7, <1>8, <1>9, <1>12, <1>13, InputKept DEF TransformInv, Early

\* Everything is undone.
LEMMA RollbackDoneInv == ASSUME TransformInv, RollbackDone PROVE TransformInv'
<1>1. /\ phase = "rollback" /\ past = <<>> /\ phase' = "finalize" /\ todo' = LimboItems
      /\ UNCHANGED <<input, loc, limbo, past, failed>>
      /\ TypeOK /\ LimboSound /\ Failures /\ past \in Seq(Move) /\ Placed(Reverse(past))
  BY DEF RollbackDone, Begin, TransformInv, History
<1>2. \A j : ~WentIn(Reverse(past), j) /\ ~WentOut(Reverse(past), j)
  <2>1. Len(Reverse(past)) = 0
    BY <1>1, ReverseFacts
  <2>2. \A k : k \notin 1..Len(Reverse(past))
    BY <2>1
  <2> QED
    BY <2>2 DEF WentIn, WentOut
<1>3. \A j \in Item : loc[j] = Start(j)
  BY <1>1, <1>2 DEF Placed
<1>4. Undone'
  BY <1>1, <1>3, UndoneFrom
<1>5. TypeOK'
  BY <1>1 DEF TypeOK, input, Phases, LimboItems
<1>6. Failures' /\ failed' \subseteq Early /\ failed' \notin {{"deletions"}, {"inventory"}}
  BY <1>1 DEF Failures, Early
<1> QED
  BY <1>1, <1>4, <1>5, <1>6, InputKept DEF TransformInv, Early

-----------------------------------------------------------------------------
\* The end: finalize and unlock.

\* Once all renames are done finalize finds nothing in limbo.
LEMMA NothingInLimbo ==
  ASSUME TypeOK, Renamings, NEW i \in Item
  PROVE  ~Leads(limbo, Limbo, i)
<1> SUFFICES ASSUME Leads(limbo, Limbo, i) PROVE FALSE
  OBVIOUS
<1>1. PICK P \in SUBSET Item :
        /\ i \in P
        /\ \A j \in P : loc[j] # None /\ loc[j] = limbo[j] /\ limbo[j].dir \in P \cup {Limbo}
  BY LayoutFacts DEF Leads
<1>2. \A j \in P : limbo[j] = new[j] /\ new[j] # None /\ new[j].dir # Limbo
  BY <1>1, LayoutFacts, PlaceFacts DEF Renamings
<1>3. \A j \in P : new[j] # None /\ new[j].dir \in P
  BY <1>1, <1>2
<1>4. NoLoops(new) /\ P # {}
  BY <1>1 DEF Renamings, WellFormed
<1> QED
  BY <1>3, <1>4 DEF NoLoops

\* After a rollback nothing that existed before counts as being in limbo.
LEMMA ExistingNotInLimbo ==
  ASSUME TransformInv, Undone, NEW i \in Existing
  PROVE  ~Leads(limbo, Limbo, i)
<1> SUFFICES ASSUME Leads(limbo, Limbo, i) PROVE FALSE
  OBVIOUS
<1>1. TypeOK /\ LimboSound /\ WellFormed(old) /\ i \in Item /\ old[i] # None /\ loc[i] \in {None, old[i]}
  BY DEF TransformInv, Undone, Existing, Start, IsNew
<1>2. loc[i] # None /\ loc[i] = limbo[i]
  BY <1>1, LayoutFacts DEF Leads
<1>3. limbo[i] = old[i] /\ old[i] \in Place
  BY <1>1, <1>2, LayoutFacts
<1>4. old[i].dir \notin Made
  <2>1. old[i].dir = Root \/ old[old[i].dir] # None
    BY <1>1 DEF WellFormed, ParentsExist
  <2> QED
    BY <1>1, <2>1, LayoutFacts DEF Made, IsNew
<1> QED
  BY <1>1, <1>3, <1>4, LimboPlaces, PlaceFacts

\* After a rollback a new item whose turn has come can be deleted from limbo.
LEMMA NewDeletable ==
  ASSUME TransformInv, Undone, NEW i \in todo, i \notin Existing, \A j \in todo : limbo[j].dir # i
  PROVE  Leads(limbo, Limbo, i) /\ Inside(i) = {}
<1>1. /\ TypeOK /\ WellFormed(old) /\ todo \subseteq Item
      /\ \A j \in Item \ Existing :
           /\ j \notin todo => loc[j] = None
           /\ j \in todo => loc[j] # None /\ loc[j] = limbo[j] /\ limbo[j].dir \in (todo \ Existing) \cup {Limbo}
  BY DEF TransformInv, Undone, TypeOK
<1>2. Leads(limbo, Limbo, i)
  <2> DEFINE P == todo \ Existing
  <2>1. P \in SUBSET Item /\ i \in P
    BY <1>1
  <2>2. \A j \in P : loc[j] # None /\ loc[j] = limbo[j] /\ limbo[j].dir \in P \cup {Limbo}
    BY <1>1
  <2> HIDE DEF P
  <2> QED
    BY <2>1, <2>2 DEF Leads
<1>3. ASSUME NEW j \in Item, loc[j] # None, loc[j].dir = i PROVE FALSE
  <2>1. CASE j \in Existing
    <3>1. loc[j] = old[j] /\ old[j] # None
      BY <1>3, <2>1 DEF Undone, Existing, Start, IsNew
    <3>2. old[j].dir = Root \/ old[old[j].dir] # None
      BY <1>1, <3>1 DEF WellFormed, ParentsExist
    <3> QED
      BY <1>1, <1>3, <3>1, <3>2, LayoutFacts DEF Existing
  <2>2. CASE j \notin Existing
    BY <1>1, <1>3, <2>2
  <2> QED
    BY <2>1, <2>2
<1> QED
  BY <1>2, <1>3 DEF Inside

\* finalize looks at one place in limbo.
LEMMA FinalizeInv == ASSUME TransformInv, NEW i \in Item, Finalize(i) PROVE TransformInv'
<1>1. /\ phase \in {"finalize", "recorded"} /\ i \in todo /\ (\A j \in todo : limbo[j].dir # i)
      /\ UNCHANGED <<input, limbo, past, phase, failed>>
      /\ TypeOK /\ Failures /\ past \in Seq(Move)
  BY DEF Finalize, TransformInv
<1>2. /\ loc' = loc \/ loc' = [loc EXCEPT ![i] = None]
      /\ todo' = {} \/ todo' = todo \ {i}
      /\ Leads(limbo, Limbo, i) /\ Inside(i) = {} => loc' = [loc EXCEPT ![i] = None] /\ todo' = todo \ {i}
      /\ ~Leads(limbo, Limbo, i) => loc' = loc /\ todo' = todo \ {i}
  BY DEF Finalize
<1>3. TypeOK'
  <2>1. loc' \in [Item -> Anywhere \cup {None}] /\ limbo' \in [Item -> Anywhere \cup {None}]
    BY <1>1, <1>2 DEF TypeOK, Anywhere
  <2>2. todo' \subseteq Item /\ phase' \in Phases /\ failed' \subseteq Phases
    BY <1>1, <1>2 DEF TypeOK
  <2> QED
    BY <1>1, <2>1, <2>2, TypeKept
<1>4. Failures'
  BY <1>1 DEF Failures
<1>5. ASSUME Renamings PROVE Renamings' /\ loc' = loc
  <2>1. loc' = loc
    BY <1>1, <1>2, <1>5, NothingInLimbo
  <2> QED
    BY <1>1, <1>5, <2>1, RenamingsKept
<1>6. ASSUME Undone PROVE Undone'
  <2>1. LimboSound' /\ Existing' = Existing /\ limbo' = limbo
    BY <1>1, <1>6, InputKept DEF LimboSound, InLimbo, Undone
  <2>2. \A j \in Existing : Start(j)' = Start(j) /\ loc[j] = Start(j) /\ j \in Item
    BY <1>1, <1>6, InputKept DEF Start, IsNew, Undone, Existing
  <2>3. \A j \in Item \ Existing :
          /\ j \notin todo => loc[j] = None
          /\ j \in todo => loc[j] # None /\ loc[j] = limbo[j] /\ limbo[j].dir \in (todo \ Existing) \cup {Limbo}
    BY <1>6 DEF Undone
  <2>4. CASE i \in Existing
    <3>1. loc' = loc /\ todo' = todo \ {i}
      BY <1>2, <1>6, <2>4, ExistingNotInLimbo
    <3>2. \A j \in Item \ Existing :
            /\ j \notin todo' => loc'[j] = None
            /\ j \in todo' => loc'[j] # None /\ loc'[j] = limbo[j] /\ limbo[j].dir \in (todo' \ Existing) \cup {Limbo}
      BY <2>3, <2>4, <3>1
    <3> QED
      BY <2>1, <2>2, <3>1, <3>2 DEF Undone
  <2>5. CASE i \notin Existing
    <3>1. loc' = [loc EXCEPT ![i] = None] /\ todo' = todo \ {i}
      BY <1>1, <1>2, <1>6, <2>5, NewDeletable
    <3>2. loc'[i] = None /\ \A j \in Item \ {i} : loc'[j] = loc[j]
      BY <1>1, <3>1 DEF TypeOK
    <3>3. \A j \in Existing : loc'[j] = Start(j)'
      BY <2>2, <2>5, <3>2
    <3>4. \A j \in Item \ Existing :
            /\ j \notin todo' => loc'[j] = None
            /\ j \in todo' => loc'[j] # None /\ loc'[j] = limbo[j] /\ limbo[j].dir \in (todo' \ Existing) \cup {Limbo}
      BY <1>1, <2>3, <3>1, <3>2
    <3> QED
      BY <2>1, <3>3, <3>4 DEF Undone
  <2> QED
    BY <2>4, <2>5
<1>7. CASE phase = "recorded"
  <2>1. Renamings /\ \A j \in Item : loc[j] # InDeletion(j)
    BY <1>7 DEF TransformInv
  <2>2. Renamings' /\ (\A j \in Item : loc[j] # InDeletion(j))'
    BY <1>5, <2>1 DEF InDeletion
  <2> QED
    BY <1>1, <1>3, <1>4, <1>7, <2>2, InputKept DEF TransformInv, Early
<1>8. CASE phase = "finalize"
  <2>1. failed \in {{"deletions"}, {"inventory"}} => Renamings'
    BY <1>5, <1>8 DEF TransformInv
  <2>2. failed \subseteq Early => Undone'
    BY <1>6, <1>8 DEF TransformInv
  <2> QED
    BY <1>1, <1>3, <1>4, <1>8, <2>1, <2>2, InputKept DEF TransformInv, Early
<1> QED
  BY <1>1, <1>7, <1>8

\* The tree is unlocked.
LEMMA UnlockInv == ASSUME TransformInv, Unlock PROVE TransformInv'
<1>1. /\ phase \in {"finalize", "recorded"} /\ todo = {}
      /\ phase' = IF phase = "recorded" THEN "applied" ELSE "ended"
      /\ UNCHANGED <<input, loc, limbo, past, todo, failed>>
      /\ TypeOK /\ Failures /\ past \in Seq(Move)
  BY DEF Unlock, TransformInv
<1>2. TypeOK'
  BY <1>1 DEF TypeOK, input, Phases
<1>3. Failures'
  BY <1>1 DEF Failures
<1>4. Renamings => Renamings'
  BY <1>1, RenamingsKept
<1>5. Undone => Undone'
  <2>1. LimboSound => LimboSound'
    BY <1>1, InputKept DEF LimboSound, InLimbo
  <2>2. \A j : Start(j)' = Start(j)
    BY <1>1, InputKept DEF Start, IsNew
  <2> QED
    BY <1>1, <2>1, <2>2, InputKept DEF Undone
<1>6. CASE phase = "recorded"
  <2>1. Renamings' /\ (\A j \in Item : loc[j] # InDeletion(j))'
    BY <1>1, <1>4, <1>6 DEF TransformInv, InDeletion
  <2> QED
    BY <1>1, <1>2, <1>3, <1>6, <2>1, InputKept DEF TransformInv, Early
<1>7. CASE phase = "finalize"
  <2>1. /\ failed \in {{"deletions"}, {"inventory"}} => Renamings'
        /\ failed \subseteq Early => Undone'
    BY <1>4, <1>5, <1>7 DEF TransformInv
  <2> QED
    BY <1>1, <1>2, <1>3, <1>7, <2>1, InputKept DEF TransformInv, Early
<1> QED
  BY <1>1, <1>6, <1>7

-----------------------------------------------------------------------------
\* The invariant, and what follows from it.

\* Every step keeps the invariant.
LEMMA NextInv == TransformInv /\ [Next]_vars => TransformInv'
<1> SUFFICES ASSUME TransformInv, [Next]_vars PROVE TransformInv'
  OBVIOUS
<1>1. CASE \E i \in Item : Create(i) \/ TakeOut(i) \/ MoveIn(i) \/ Delete(i) \/ Finalize(i)
  BY <1>1, CreateInv, TakeOutInv, MoveInInv, DeleteInv, FinalizeInv
<1>2. CASE Check \/ RemovalsDone \/ InsertionsDone \/ DeletionsDone \/ ApplyInventory
  BY <1>2, CheckInv, RemovalsDoneInv, InsertionsDoneInv, DeletionsDoneInv, ApplyInventoryInv
<1>3. CASE Fail \/ Rollback \/ RollbackDone \/ Unlock
  BY <1>3, FailInv, RollbackInv, RollbackDoneInv, UnlockInv
<1>4. CASE UNCHANGED vars
  <2>1. UNCHANGED <<input, loc, limbo, past, phase, todo, failed>>
    BY <1>4 DEF vars, input
  <2>2. phase \in Early \cup {"rollback"} => LimboSound' /\ HistorySound(History)' /\ Placed(History)'
    <3>1. History' = History
      BY <2>1 DEF History
    <3> QED
      BY <2>1, <3>1, HistoryCarried
  <2>3. (TypeOK <=> TypeOK') /\ (Failures <=> Failures')
    BY <2>1 DEF TypeOK, Failures, input
  <2>4. (Building <=> Building') /\ (Inserting <=> Inserting') /\ (Removing <=> Removing')
    BY <2>1, InputKept DEF Building, Inserting, Removing, WentOut, Inward
  <2>5. (Renamings <=> Renamings') /\ (Undone <=> Undone')
    BY <2>1, InputKept DEF Renamings, InDeletion, Undone, LimboSound, InLimbo, Start, IsNew
  <2>6. (\A j \in Item : loc[j] # InDeletion(j)) <=> (\A j \in Item : loc[j] # InDeletion(j))'
    BY <2>1 DEF InDeletion
  <2>7. {j \in Item : loc[j] = InDeletion(j)}' = {j \in Item : loc[j] = InDeletion(j)}
    BY <2>1 DEF InDeletion
  <2> QED
    BY <2>1, <2>2, <2>3, <2>4, <2>5, <2>6, <2>7, InputKept DEF TransformInv
<1> QED
  BY <1>1, <1>2, <1>3, <1>4 DEF Next

\* The invariant holds in every reachable state.
LEMMA AlwaysInv == Spec => []TransformInv
  BY InitInv, NextInv, PTL DEF Spec

\* Every variable always has its type; in particular no item is anywhere but in
\* the tree, in limbo or in pending-deletion.
THEOREM TypeCorrect == Spec => []TypeOK
<1>1. TransformInv => TypeOK
  BY DEF TransformInv
<1> QED
  BY <1>1, AlwaysInv, PTL

\* What existed is on the disk until every rename has succeeded.
LEMMA KeptWhileRenaming ==
  ASSUME TransformInv, phase \in Early \cup {"rollback"}, NEW i \in Existing \ missing
  PROVE  loc[i] # None
<1>h. PICK h : h = History
  OBVIOUS
<1>1. TypeOK /\ HistorySound(h) /\ i \in Item /\ old[i] # None
  BY <1>h DEF TransformInv, Existing
<1>2. loc[i] = IF WentIn(h, i) THEN new[i] ELSE IF WentOut(h, i) THEN Home(i) ELSE Start(i)
  BY <1>1, <1>h DEF TransformInv, Placed
<1>3. None \notin Anywhere
  BY NoneAssumption DEF Anywhere
<1>4. old[i] \in Place /\ old[i].dir # Limbo
  BY <1>1, LayoutFacts, PlaceFacts
<1>5. WentIn(h, i) => new[i] # None
  BY <1>1, <1>4 DEF HistorySound, MoveSound, WentIn, Inward, IsDeleted
<1>6. InLimbo(i).dir = Limbo
  BY <1>1, PlaceFacts
<1>7. WentOut(h, i) => Home(i) # None
  <2> SUFFICES ASSUME NEW k \in 1..Len(h), h[k].item = i, ~Inward(h[k]) PROVE Home(i) # None
    BY DEF WentOut
  <2>1. h[k] \in Move /\ h[k].to = Home(i)
    BY <1>1, <1>6 DEF HistorySound, MoveSound, Inward
  <2> QED
    BY <1>3, <2>1 DEF Move
<1> QED
  BY <1>1, <1>2, <1>5, <1>7 DEF Start, IsNew

\* No file the user wants to keep is destroyed, and none at all before every
\* rename has succeeded, unless a rollback fails: _FileMover only renames until
\* apply_deletions, and finalize finds in limbo only what the transform made.
THEOREM FilesAreKept == Spec => []NothingLost
<1>1. ASSUME TransformInv PROVE NothingLost
  <2> SUFFICES ASSUME NEW i \in Existing \ missing, loc[i] = None, "rollback" \notin failed
               PROVE  /\ IsDeleted(i)
                      /\ failed \cap {"build", "removals", "insertions"} = {}
                      /\ phase \notin {"build", "removals", "insertions", "rollback"}
    BY DEF NothingLost
  <2>1. TypeOK /\ Failures /\ i \in Item /\ old[i] # None
    BY <1>1 DEF TransformInv, Existing
  <2>2. phase \notin Early \cup {"rollback"}
    BY <1>1, KeptWhileRenaming
  <2>3. ~Undone
    BY <2>1 DEF Undone, Start, IsNew, Existing
  <2>4. Renamings /\ failed \cap Early = {}
    <3>1. CASE phase \in {"finalize", "ended"}
      <4>1. failed \in {{"deletions"}, {"inventory"}}
        BY <1>1, <2>1, <2>3, <3>1 DEF TransformInv, Failures
      <4> QED
        BY <1>1, <3>1, <4>1 DEF TransformInv, Early
    <3>2. CASE phase \in {"deletions", "inventory", "recorded", "applied"}
      <4>1. failed = {}
        BY <2>1, <3>2 DEF Failures
      <4> QED
        BY <1>1, <3>2, <4>1 DEF TransformInv
    <3> QED
      BY <2>1, <2>2, <3>1, <3>2 DEF TypeOK, Phases, Early
  <2>5. IsDeleted(i)
    BY <2>1, <2>4 DEF Renamings, Wanted, IsDeleted
  <2> QED
    BY <2>2, <2>4, <2>5 DEF Early
<1> QED
  BY <1>1, AlwaysInv, PTL

\* Every rename can be undone when its turn comes: reversed(past_renames) brings
\* a file back into a directory that is back already, to a name that is free.
THEOREM RollbackCanSucceed == Spec => []UndoPossible
<1>1. TransformInv => UndoPossible
  BY UndoFacts DEF UndoPossible
<1> QED
  BY <1>1, AlwaysInv, PTL

\* Where everything is when the tree is unlocked.
LEMMA AtTheEnd ==
  ASSUME TransformInv, Unlocked, ~Damaged
  PROVE  /\ \A i \in Item : loc[i] # None => Leads(loc, Root, i)
         /\ phase = "applied" => \A i \in Item : loc[i] = WithoutMissing(new)[i]
         /\ phase = "ended" => \A i \in Item : loc[i] = WithoutMissing(old)[i]
<1>1. TypeOK /\ Failures /\ WellFormed(old) /\ todo = {} /\ missing \subseteq Existing
  BY DEF TransformInv, Unlocked
<1>2. ASSUME NEW layout \in Layout, WellFormed(layout), \A i \in Item : loc[i] = IF i \in missing THEN None ELSE layout[i]
      PROVE  \A i \in Item : loc[i] # None => Leads(loc, Root, i)
  <2> DEFINE P == {i \in Item : loc[i] # None}
  <2>1. \A i \in P : /\ loc[i] # None /\ loc[i] = layout[i] /\ layout[i] \in Place
                     /\ (layout[i].dir = Root \/ layout[layout[i].dir] # None)
    BY <1>2 DEF Layout, WellFormed, ParentsExist
  <2>2. \A i \in P : loc[i].dir \in P \cup {Root}
    BY <1>1, <1>2, <2>1, LayoutFacts, PlaceFacts
  <2>3. P \in SUBSET Item /\ \A i \in Item : loc[i] # None => i \in P
    OBVIOUS
  <2>4. \A i \in P : loc[i] # None
    OBVIOUS
  <2> HIDE DEF P
  <2> QED
    BY <2>2, <2>3, <2>4 DEF Leads
<1>3. CASE phase = "applied"
  <2>1. Renamings /\ \A j \in Item : loc[j] # InDeletion(j)
    BY <1>3 DEF TransformInv
  <2>2. \A i \in Item : loc[i] = IF i \in missing THEN None ELSE new[i]
    BY <1>1, <2>1 DEF Renamings, Wanted, IsDeleted
  <2>3. new \in Layout /\ WellFormed(new)
    BY <1>1, <2>1 DEF TypeOK, Renamings
  <2> QED
    BY <1>2, <1>3, <2>2, <2>3 DEF WithoutMissing
<1>4. CASE phase = "ended"
  <2>1. failed \subseteq Early
    BY <1>1, <1>4 DEF Failures, Damaged
  <2>2. Undone
    BY <1>4, <2>1 DEF TransformInv
  <2>3. \A i \in Item : loc[i] = IF i \in missing THEN None ELSE old[i]
    BY <1>1, <2>2 DEF Undone, Start, IsNew, Existing
  <2>4. old \in Layout
    BY <1>1 DEF TypeOK
  <2> QED
    BY <1>1, <1>2, <1>4, <2>3, <2>4 DEF WithoutMissing
<1> QED
  BY <1>3, <1>4 DEF Unlocked

\* A transform that could clear up leaves nothing in limbo and pending-deletion,
\* so that the next one does not meet ExistingLimbo or ExistingPendingDeletion.
THEOREM LimboIsCleared == Spec => []NothingLeft
<1>1. TransformInv => NothingLeft
  BY AtTheEnd DEF NothingLeft, Unlocked
<1> QED
  BY <1>1, AlwaysInv, PTL

\* What whoever takes the lock afterwards sees.
LEMMA VisibleAtTheEnd ==
  ASSUME TransformInv, Unlocked, ~Damaged
  PROVE  /\ phase = "applied" => Visible = WithoutMissing(new)
         /\ phase = "ended" => Visible = WithoutMissing(old)
<1>1. \A i \in Item : (IF loc[i] # None /\ Leads(loc, Root, i) THEN loc[i] ELSE None) = loc[i]
  BY AtTheEnd
<1>2. Visible = [i \in Item |-> loc[i]]
  BY <1>1 DEF Visible
<1>3. \A layout : (\A i \in Item : loc[i] = WithoutMissing(layout)[i]) => [i \in Item |-> loc[i]] = WithoutMissing(layout)
  BY DEF WithoutMissing
<1> QED
  BY <1>2, <1>3, AtTheEnd

\* Only unlocking the tree ends the transform, and nothing follows it.
LEMMA OtherSteps ==
  ASSUME Next
  PROVE  ~Unlocked /\ UNCHANGED input /\ (Unlock \/ ~Unlocked')
<1>1. CASE \E i \in Item : Create(i) \/ TakeOut(i) \/ MoveIn(i) \/ Delete(i) \/ Finalize(i)
  BY <1>1 DEF Create, TakeOut, MoveIn, Delete, Finalize, Unlocked
<1>2. CASE Check \/ RemovalsDone \/ InsertionsDone \/ DeletionsDone \/ ApplyInventory
  BY <1>2 DEF Check, RemovalsDone, InsertionsDone, DeletionsDone, ApplyInventory, Begin, Unlocked
<1>3. CASE Fail \/ Rollback \/ RollbackDone \/ Unlock
  BY <1>3 DEF Fail, Rollback, RollbackDone, Unlock, Begin, Unlocked
<1> QED
  BY <1>1, <1>2, <1>3 DEF Next

\* Every step is a step of AtomicTransform, or changes nothing that it sees.
LEMMA AtomicStep ==
  ASSUME TransformInv, TransformInv', [Next]_vars,
         (Unlocked /\ ~Damaged)' =>
           /\ phase' = "applied" => Visible' = WithoutMissing(new)'
           /\ phase' = "ended" => Visible' = WithoutMissing(old)'
  PROVE  [Abstract!Apply \/ Abstract!Abort \/ Abstract!Damage]_(Abstract!avars)
<1>1. CASE Unlock
  <2>1. /\ UNCHANGED <<input, failed>> /\ ~Unlocked /\ Unlocked' /\ phase \in {"finalize", "recorded"}
        /\ phase' = IF phase = "recorded" THEN "applied" ELSE "ended"
    BY <1>1 DEF Unlock, Unlocked
  <2>2. /\ WithoutMissing(old)' = WithoutMissing(old) /\ WithoutMissing(new)' = WithoutMissing(new)
        /\ new' = new /\ old' = old /\ (Damaged' <=> Damaged)
    BY <2>1 DEF WithoutMissing, input, Damaged
  <2>3. CASE phase = "recorded"
    <3>1. failed = {} /\ ~Damaged'
      BY <2>2, <2>3 DEF TransformInv, Failures, Damaged
    <3>2. Visible' = WithoutMissing(new)
      BY <2>1, <2>2, <2>3, <3>1
    <3>3. Abstract!Apply
      BY <2>1, <2>2, <2>3, <3>2 DEF Abstract!Apply
    <3> QED
      BY <3>3
  <2>4. CASE phase = "finalize" /\ Damaged
    <3>1. Abstract!Damage
      BY <2>1, <2>2, <2>4 DEF Abstract!Damage
    <3> QED
      BY <3>1
  <2>5. CASE phase = "finalize" /\ ~Damaged
    <3>1. Visible' = WithoutMissing(old)
      BY <2>1, <2>2, <2>5
    <3>2. Abstract!Abort
      BY <2>1, <2>2, <2>5, <3>1 DEF Abstract!Abort
    <3> QED
      BY <3>2
  <2> QED
    BY <2>1, <2>3, <2>4, <2>5
<1>2. CASE Next /\ ~Unlock
  <2>1. ~Unlocked /\ ~Unlocked' /\ UNCHANGED input
    BY <1>2, OtherSteps
  <2>2. Abstract!avars' = Abstract!avars
    BY <2>1 DEF Abstract!avars, Unlocked, WithoutMissing, input
  <2> QED
    BY <2>2
<1>3. CASE UNCHANGED vars
  <2>1. Abstract!avars' = Abstract!avars
    BY <1>3 DEF Abstract!avars, Unlocked, WithoutMissing, Visible, Leads, Damaged, vars
  <2> QED
    BY <2>1
<1> QED
  BY <1>1, <1>2, <1>3

\* To whoever takes the tree's lock afterwards the transform was atomic, whichever
\* system calls failed: apply with its rollback and finalize implement
\* AtomicTransform.
THEOREM TransformRefines == Spec => TransformIsAtomic
<1>1. Init => Abstract!AInit
  BY DEF Init, Abstract!AInit
<1> DEFINE Seen == Unlocked /\ ~Damaged =>
                     /\ phase = "applied" => Visible = WithoutMissing(new)
                     /\ phase = "ended" => Visible = WithoutMissing(old)
<1>2. TransformInv => Seen
  BY VisibleAtTheEnd
<1>3. TransformInv /\ TransformInv' /\ Seen' /\ [Next]_vars
        => [Abstract!Apply \/ Abstract!Abort \/ Abstract!Damage]_(Abstract!avars)
  BY AtomicStep
<1> HIDE DEF Seen
<1> QED
  BY <1>1, <1>2, <1>3, AlwaysInv, PTL DEF Spec, TransformIsAtomic, Abstract!ASpec
=============================================================================
