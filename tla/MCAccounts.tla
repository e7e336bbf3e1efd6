----------------------------- MODULE MCAccounts ------------------------------
(***************************************************************************)
(* Two requests on one account with two attempts and two paths.            *)
(***************************************************************************)
EXTENDS Accounts, TLC

\* An overtaken validation takes five writes, a second consent four.
Versions == [kind \in Kinds |-> IF kind = "api_key" THEN 5 ELSE 4]

Symmetry == Permutations(Operations) \cup Permutations(Attempts) \cup Permutations(Paths)
=============================================================================
