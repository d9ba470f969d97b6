--------------------------- MODULE PackCollectionMC ---------------------------
(***************************************************************************)
(* Small instances of PackCollection for TLC: two processes and two or     *)
(* three revisions, so that packs of packs are packed again while another  *)
(* process still works on the old ones.                                    *)
(***************************************************************************)
EXTENDS PackCollection, TLC

\* Everybody runs pack and nothing is interrupted, or autopack alone combines
\* packs and processes fail.
Concurrent == {[packers |-> Proc, faulty |-> FALSE], [packers |-> {}, faulty |-> TRUE]}

\* Everybody runs pack.
Packing == {[packers |-> Proc, faulty |-> FALSE]}

\* Processes are interchangeable, and so are revisions.
Symmetry == Permutations(Proc) \cup Permutations(Rev)
===============================================================================
