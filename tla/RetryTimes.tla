----------------------------- MODULE RetryTimes -----------------------------
(***************************************************************************)
(* How long an account rests after a 429 answer: the Retry-After header is *)
(* parsed (gateway/service.go, parseRetryAfter) and clamped, or, when that *)
(* gives nothing, a backoff period is drawn under a cap that doubles with  *)
(* the failure streak (routing.go, RecordFailure and recordBackoff).       *)
(*                                                                         *)
(* A time.Duration is an int64 of nanoseconds; here it has Width bits and  *)
(* one second is Second units, so that TLC reaches its limits.             *)
(***************************************************************************)
EXTENDS RoutingRules

CONSTANTS Width,               \* bits of a Duration and of ParseInt's result
          Second,              \* units in a second
          QuotaMin, QuotaMax,  \* clamp of a Retry-After, in units
          RateBackoff,         \* [base, maximum] of the backoff after a 429
          NetworkBackoff,      \* the same after a network or server error
          Headers,             \* Retry-After headers an upstream may send
          MaxStreak            \* bound on the failure streak

MaxDuration == 2^(Width - 1) - 1

ASSUME DurationAssumption ==
    /\ Width \in Nat \ {0} /\ Second \in Nat \ {0}
    /\ QuotaMin \in 1..QuotaMax /\ QuotaMax \in 1..MaxDuration
    /\ \A b \in {RateBackoff, NetworkBackoff} : b.maximum \in Nat /\ b.base \in 1..b.maximum
    /\ Headers \subseteq [form : {"absent", "seconds", "date"}, value : Int]
    /\ MaxStreak \in Nat

VARIABLES header,              \* the header of the last 429 answer
          streak               \* failures in a row, account_runtime.failure_streak

times == <<header, streak>>

Absent == [form |-> "absent", value |-> 0]

\* Two's complement of an arithmetic result.
Wrap(x) == ((x + MaxDuration + 1) % 2^Width) - MaxDuration - 1

\* Mutant of ParseRetryAfter: the number is taken as units, not seconds.
ParseRetryAfterNoUnit(h) ==
    IF h.form \in {"seconds", "date"} /\ h.value > 0 THEN Clamp(h.value, 0, MaxDuration) ELSE 0

(***************************************************************************)
(* A header is a number of seconds, or a date given as its distance from   *)
(* now (time.Time.Sub saturates), or anything else.  ParseInt refuses what *)
(* does not fit.                                                           *)
(***************************************************************************)
ParseRetryAfter(h) ==
    IF h.form = "seconds" /\ h.value \in 1..MaxDuration THEN Wrap(h.value * Second)
    ELSE IF h.form = "date" /\ h.value > 0 THEN Clamp(h.value, 0, MaxDuration)
    ELSE 0

\* Mutant of BackoffLoop: doubles once more when past half the maximum.
BackoffLoopOvershoots(base, maximum, failures) ==
    LET cap[step \in 0..failures] ==
          IF step <= 1 THEN base
          ELSE IF cap[step - 1] >= maximum THEN cap[step - 1] ELSE cap[step - 1] * 2
    IN  cap[failures]

\* recordBackoff's loop: the cap at each step, step 1 being the base.
BackoffLoop(base, maximum, failures) ==
    LET cap[step \in 0..failures] ==
          IF step <= 1 THEN base
          ELSE LET previous == cap[step - 1] IN
               IF previous >= maximum THEN previous
               ELSE IF previous > maximum \div 2 THEN maximum
               ELSE previous * 2
    IN  cap[failures]

\* What RecordFailure writes for the 429: the column, and the least and the
\* greatest distance from now.
Rest ==
    LET delay == ParseRetryAfter(header) IN
    IF delay > 0
    THEN LET until == Clamp(delay, QuotaMin, QuotaMax) IN
         [column |-> "quota_reset_at_ms", least |-> until, greatest |-> until]
    ELSE [column |-> "cooldown_until_ms", least |-> 0,
          greatest |-> BackoffLoop(RateBackoff.base, RateBackoff.maximum, streak) - 1]
-----------------------------------------------------------------------------
TimesInit ==
    /\ header = Absent
    /\ streak = 0

TooManyRequests(h) ==
    /\ streak < MaxStreak
    /\ header' = h
    /\ streak' = streak + 1

TimesNext == \E h \in Headers : TooManyRequests(h)

TimesSpec == TimesInit /\ [][TimesNext]_times
-----------------------------------------------------------------------------
Promised(h) ==
    CASE h.form = "seconds" -> Clamp(h.value * Second, QuotaMin, QuotaMax)
      [] h.form = "date"    -> Clamp(h.value, QuotaMin, QuotaMax)

Honoured == Rest = [column |-> "quota_reset_at_ms",
                    least |-> Promised(header), greatest |-> Promised(header)]

(***************************************************************************)
(* A Retry-After that names a time to come is honoured: the account is out *)
(* until then, at least QuotaMin and at most QuotaMax away, as long as the *)
(* product of the seconds is a Duration (parseRetryAfter, RecordFailure).  *)
(***************************************************************************)
RepresentableRetryAfterHonoured ==
    \/ header.form = "date" /\ header.value > 0
    \/ header.form = "seconds" /\ header.value \in 1..(MaxDuration \div Second)
    => Honoured

(***************************************************************************)
(* The doubling loop never passes the maximum, never divides its way below *)
(* it, and has the closed form Scheduler uses (recordBackoff).             *)
(***************************************************************************)
BackoffIsCappedDoubling ==
    streak > 0 =>
        \A b \in {RateBackoff, NetworkBackoff} :
            BackoffLoop(b.base, b.maximum, streak) = BackoffCap(b.base, b.maximum, streak)
=============================================================================
