-------------------------- MODULE MCSchedulerHistory --------------------------
(***************************************************************************)
(* Instances of SchedulerHistory: one route over one account, and two      *)
(* routes that share one of two accounts.                                  *)
(***************************************************************************)
EXTENDS SchedulerHistory, TLC

CONSTANTS a1, a2, r1, r2

OneAccount == (r1 :> <<a1>>)
SharedRoutes == (r1 :> <<a1, a2>>) @@ (r2 :> <<a2>>)

\* Backoff up to two units, or three.
ShortBackoff == [base |-> 1, maximum |-> 2]
LongBackoff == [base |-> 2, maximum |-> 3]

RequestSymmetry == Permutations(Requests)
=============================================================================
