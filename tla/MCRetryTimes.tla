---------------------------- MODULE MCRetryTimes ----------------------------
(***************************************************************************)
(* Durations of 9 bits: every number of seconds ParseInt accepts, numbers  *)
(* it refuses, dates on both sides of now and beyond a Duration's range.   *)
(***************************************************************************)
EXTENDS RetryTimes

\* Milliseconds, as in RecordFailure.
MCRateBackoff == [base |-> 30000, maximum |-> 900000]
MCNetworkBackoff == [base |-> 2000, maximum |-> 120000]

MCHeaders ==
    {Absent}
        \cup {[form |-> "seconds", value |-> v] : v \in -2..(MaxDuration + 2)}
        \cup {[form |-> "date", value |-> v] : v \in -2..5 \cup {119, 120, 121, 600}}
=============================================================================
