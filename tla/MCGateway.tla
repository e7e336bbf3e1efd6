------------------------------ MODULE MCGateway ------------------------------
(***************************************************************************)
(* An instance of Gateway: a route over an API-key and an OAuth account.   *)
(***************************************************************************)
EXTENDS Gateway, TLC

CONSTANTS key, oauth, r1

OneRoute == (r1 :> <<key, oauth>>)
OAuthRoute == (r1 :> <<oauth>>)

\* Every backoff is a single unit.
UnitBackoff == [base |-> 1, maximum |-> 1]

RequestSymmetry == Permutations(Requests)
=============================================================================
