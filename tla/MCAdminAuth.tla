----------------------------- MODULE MCAdminAuth -----------------------------
(***************************************************************************)
(* Two requests with two sessions and, beside them, the limiter with two   *)
(* addresses.  The limiter only refuses, which changes nothing of the      *)
(* administrator's state: each behaviour moves one of the two, its focus.  *)
(***************************************************************************)
EXTENDS AdminAuth, AttemptLimiter, TLC

VARIABLE focus

Init ==
  /\ focus \in {"auth", "limiter"}
  /\ AuthInit /\ LimiterInit

AuthMoves == focus = "auth" /\ AuthNext /\ UNCHANGED <<focus, limiterVars>>

LimiterMoves == focus = "limiter" /\ LimiterNext /\ UNCHANGED <<focus, vars>>

Next == AuthMoves \/ LimiterMoves

Spec == Init /\ [][Next]_<<focus, vars, limiterVars>>

Symmetry == Permutations(Requests) \cup Permutations(SessionIds)
=============================================================================
