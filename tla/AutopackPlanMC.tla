---------------------------- MODULE AutopackPlanMC ----------------------------
(***************************************************************************)
(* Instances of AutopackPlan for TLC.                                      *)
(***************************************************************************)
EXTENDS AutopackPlan

\* Packs of any size arrive, several before an autopack, and share revisions.
Mixed == [arrivals |-> {0, 1, 2, 6, 11}, serial |-> FALSE, dups |-> TRUE,
          maxRevs |-> 32, maxPacks |-> 8]

\* One commit of one revision after the other.
Commits == [arrivals |-> {1}, serial |-> TRUE, dups |-> FALSE, maxRevs |-> 215, maxPacks |-> 30]

Growth == {Mixed, Commits}
=============================================================================
