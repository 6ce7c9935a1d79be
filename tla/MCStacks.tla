------------------------------ MODULE MCStacks ------------------------------
(* Stacks for TLC: requests and names are told apart by identity only.     *)
EXTENDS Stacks, TLC

Symmetry == Permutations(Reqs) \cup Permutations(Names)
=============================================================================
