------------------------------ MODULE LockDirMC ------------------------------
(***************************************************************************)
(* Small instances of LockDir for TLC.  Three processes let a holder, its  *)
(* successor and a third party (a second waiter, a thief or a breaker)     *)
(* meet; two nonces let a process lock, fail and lock again.               *)
(***************************************************************************)
EXTENDS LockDir, TLC

CONSTANTS p1, p2, p3

\* All processes run as one user on one machine.
OneHost == [p \in Proc |-> "here"]

\* The third process is on another machine.
TwoHosts == [p \in Proc |-> IF p = p3 THEN "there" ELSE "here"]

\* The processes are interchangeable when they share a host; where the third is
\* on another one, only the first two are.
ProcSymmetry == Permutations(Proc)
PairSymmetry == Permutations({p1, p2})
=============================================================================
