----------------------------- MODULE DirStateMC -----------------------------
(***************************************************************************)
(* Small instances of DirState for TLC.                                    *)
(***************************************************************************)
EXTENDS DirState, TLC

All == [hash : BOOLEAN, dies : BOOLEAN, fails : BOOLEAN]

\* The default configuration, with processes that live and saves that succeed.
HashesSaved == [hash : {TRUE}, dies : {FALSE}, fails : {FALSE}]

\* Processes are interchangeable, and so are changes.
Symmetry == Permutations(Process) \cup Permutations(Change)
=============================================================================
