----------------------------- MODULE MCCNClaim -----------------------------
(* CNClaim for TLC: one pool holds every pod, and claims and pods are       *)
(* interchangeable.                                                         *)
EXTENDS CNClaim, TLC

CONSTANT pool

MCPoolOf == [p \in Pods |-> pool]

Symmetry == Permutations(Claims) \cup Permutations(Pods)
=============================================================================
