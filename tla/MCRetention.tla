----------------------------- MODULE MCRetention -----------------------------
(***************************************************************************)
(* An instance of Retention: one account, and two events of the first day, *)
(* more than one batch of a sweep takes.                                   *)
(***************************************************************************)
EXTENDS Retention

CONSTANTS e1, e2, e3, a1

OneAccount == [e \in Events |-> a1]

EarlyAndLate == [e \in Events |-> IF e \in {e1, e2} THEN 0 ELSE 1]
=============================================================================
