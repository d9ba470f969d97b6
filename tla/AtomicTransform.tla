--------------------------- MODULE AtomicTransform ---------------------------
(***************************************************************************)
(* What a tree transform promises to whoever reads the tree once its lock  *)
(* is released: files and inventory have both changed as wanted or neither *)
(* has changed.  Only when clearing up fails as well (a rename cannot be   *)
(* undone, or the files to delete cannot be deleted once everything is in  *)
(* place) may the files be anything; the inventory is then the old one.    *)
(***************************************************************************)
VARIABLES
  files,      \* where each item of the tree is
  wanted,     \* where each shall be (constant)
  inventory,  \* the recorded layout
  target,     \* what is to be recorded (constant)
  outcome     \* "none" while the tree is locked

avars == <<files, wanted, inventory, target, outcome>>

AInit == outcome = "none"

Apply ==
  /\ outcome = "none"
  /\ outcome' = "applied"
  /\ files' = wanted
  /\ inventory' = target
  /\ UNCHANGED <<wanted, target>>

Abort ==
  /\ outcome = "none"
  /\ outcome' = "unchanged"
  /\ UNCHANGED <<files, wanted, inventory, target>>

Damage ==
  /\ outcome = "none"
  /\ outcome' = "damaged"
  /\ UNCHANGED <<wanted, inventory, target>>

ASpec == AInit /\ [][Apply \/ Abort \/ Damage]_avars
=============================================================================
