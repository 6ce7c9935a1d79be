----------------------------- MODULE MCAccounts -----------------------------
(* Accounts for TLC: names, sessions, requests and the codes of one set    *)
(* are told apart by their identity only.                                  *)
EXTENDS Accounts, TLC

Symmetry ==
  Permutations(Names) \cup Permutations(Sids) \cup Permutations(Reqs)
    \cup UNION {Permutations(K) : K \in CodeSets}
=============================================================================
