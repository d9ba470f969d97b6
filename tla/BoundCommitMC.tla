---------------------------- MODULE BoundCommitMC ----------------------------
(***************************************************************************)
(* Small instances of BoundCommit for TLC.                                 *)
(***************************************************************************)
EXTENDS BoundCommit, TLC

\* Three commits, among them a merge, of calm clients; two with interruptions
\* and branches that are emptied, by clients that stay bound and do not pull;
\* one with everything that may happen.
Explored ==
  [calm : {TRUE}, appendOnly : BOOLEAN, pulls : {TRUE}, commits : {3}] \cup
  [calm : {FALSE}, appendOnly : BOOLEAN, pulls : {FALSE}, commits : {2}] \cup
  [calm : {FALSE}, appendOnly : BOOLEAN, pulls : {TRUE}, commits : {1}]

\* Clients are interchangeable, and so are revisions.
Symmetry == Permutations(Client) \cup Permutations(Rev)
=============================================================================
