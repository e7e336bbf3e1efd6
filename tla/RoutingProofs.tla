---------------------------- MODULE RoutingProofs ----------------------------
(***************************************************************************)
(* Proofs about RetryTimes and RoutingScan for any headers, durations,     *)
(* backoff policies, route tables, loads and clocks: the loops of the code *)
(* compute what the definitions of RoutingRules say.                       *)
(*                                                                         *)
(* A loop is a recursive function over its turns.  That such a function    *)
(* exists (LoopExists) and what it has computed after each turn is proved  *)
(* by looking at the least turn at which it fails (LeastIsLeast).          *)
(***************************************************************************)
EXTENDS RoutingScan, FiniteSetTheorems, WellFoundedInduction, TLAPS

Smaller == {pair \in Nat \X Nat : pair[1] < pair[2]}

LEMMA LeastIsLeast ==
    ASSUME NEW T, T \subseteq Nat, T # {}
    PROVE  Least(T) \in T /\ \A m \in T : Least(T) <= m
<1>1. IsWellFoundedOn(Smaller, Nat)
  <2>1. Smaller = OpToRel(<, Nat)
    BY Zenon DEF OpToRel, Smaller
  <2>. QED
    BY <2>1, NatLessThanWellFounded, Zenon
<1>2. PICK x \in T : \A y \in T : <<y, x>> \notin Smaller
  BY <1>1, WFMin
<1>3. ASSUME NEW y \in T, y < x PROVE FALSE
  <2>1. <<y, x>> \in Smaller
    BY <1>3 DEF Smaller
  <2>. QED
    BY <1>2, <2>1
<1>4. \A y \in T : x <= y
  BY <1>2, <1>3
<1>. QED
  BY <1>4 DEF Least

\* What holds at the first turn and is kept by every further one holds at all.
LEMMA EveryTurn ==
    ASSUME NEW first \in Nat, NEW last \in Nat, NEW good, first \in good,
           \A k \in first..last : k \in good /\ k < last => k + 1 \in good
    PROVE  \A k \in first..last : k \in good
<1>. DEFINE bad == {k \in first..last : k \notin good}
<1>. SUFFICES ASSUME bad # {} PROVE FALSE
  OBVIOUS
<1>1. Least(bad) \in bad /\ \A m \in bad : Least(bad) <= m
  BY LeastIsLeast
<1>. DEFINE k == Least(bad)
<1>2. k \in first..last /\ k \notin good /\ k # first
  BY <1>1
<1>3. k - 1 \in first..last /\ k - 1 \notin bad /\ k - 1 < last /\ (k - 1) + 1 = k
  BY <1>1, <1>2
<1>. QED
  BY <1>2, <1>3

\* The values f of a loop from base over the turns first..last.
Runs(f, base, step, first, last) ==
    \A k \in first..last : f[k] = IF k = first THEN base ELSE step[<<k, f[k - 1]>>]

LEMMA LoopExists ==
    ASSUME NEW first \in Nat, NEW last \in Nat, first <= last,
           NEW S, NEW base \in S, NEW step \in [((first + 1)..last) \X S -> S]
    PROVE  \E f \in [first..last -> S] : Runs(f, base, step, first, last)
<1>. DEFINE RunsTo(f, n) == Runs(f, base, step, first, n)
            good == {n \in Nat : \E f \in [first..n -> S] : RunsTo(f, n)}
<1>1. first \in good
  <2>. DEFINE f == [k \in first..first |-> base]
  <2>1. f \in [first..first -> S] /\ RunsTo(f, first)
    BY DEF Runs
  <2>. QED
    BY <2>1
<1>2. ASSUME NEW n \in first..last, n \in good, n < last PROVE n + 1 \in good
  <2>1. PICK f \in [first..n -> S] : RunsTo(f, n)
    BY <1>2
  <2>. DEFINE g == [k \in first..(n + 1) |-> IF k = n + 1 THEN step[<<n + 1, f[n]>>] ELSE f[k]]
  <2>2. \A k \in first..n : f[k] = IF k = first THEN base ELSE step[<<k, f[k - 1]>>]
    BY <2>1 DEF Runs
  <2>3. n \in Nat /\ f[n] \in S /\ step[<<n + 1, f[n]>>] \in S
    BY <1>2
  <2>4. g \in [first..(n + 1) -> S]
    BY <2>3
  <2>5. \A k \in first..(n + 1) : g[k] = IF k = first THEN base ELSE step[<<k, g[k - 1]>>]
    <3>. SUFFICES ASSUME NEW k \in first..(n + 1)
                  PROVE  g[k] = IF k = first THEN base ELSE step[<<k, g[k - 1]>>]
      OBVIOUS
    <3>1. CASE k = n + 1
      <4>1. k # first /\ k - 1 = n /\ n \in first..(n + 1) /\ n # n + 1
        BY <2>3, <3>1
      <4>. QED
        BY <3>1, <4>1
    <3>2. CASE k # n + 1 /\ k # first
      <4>1. k \in first..n /\ k - 1 \in first..(n + 1) /\ k - 1 # n + 1
        BY <2>3, <3>2
      <4>. QED
        BY <2>2, <3>2, <4>1
    <3>3. CASE k # n + 1 /\ k = first
      <4>1. k \in first..n
        BY <2>3, <3>3
      <4>. QED
        BY <2>2, <3>3, <4>1
    <3>. QED
      BY <3>1, <3>2, <3>3
  <2>6. RunsTo(g, n + 1)
    BY <2>4, <2>5 DEF Runs
  <2>7. n + 1 \in Nat
    BY <2>3
  <2>. HIDE DEF g, RunsTo
  <2>. QED
    BY <2>4, <2>6, <2>7
<1>. HIDE DEF good
<1>3. \A n \in first..last : n \in good
  BY <1>1, <1>2, EveryTurn, Zenon
<1>4. last \in first..last
  OBVIOUS
<1>. QED
  BY <1>3, <1>4 DEF good

-----------------------------------------------------------------------------
(***************************************************************************)
(* RetryTimes.  A power of two is the number of subsets, so it doubles     *)
(* with every element more.                                                *)
(***************************************************************************)
LEMMA Powers ==
    ASSUME NEW n \in Nat
    PROVE  2^n \in Nat /\ 2^(n + 1) = 2 * 2^n
<1>. DEFINE S == 1..n
            x == n + 1
            without == SUBSET S
            with == {t \cup {x} : t \in without}
            add == [t \in without |-> t \cup {x}]
<1>1. IsFiniteSet(S) /\ Cardinality(S) = n /\ IsFiniteSet(1..x) /\ Cardinality(1..x) = x
  BY FS_Interval
<1>2. /\ IsFiniteSet(without) /\ Cardinality(without) = 2^n
      /\ IsFiniteSet(SUBSET (1..x)) /\ Cardinality(SUBSET (1..x)) = 2^x
  <2>1. IsFiniteSet(without) /\ Cardinality(without) = 2^Cardinality(S)
    BY <1>1, FS_SUBSET
  <2>2. IsFiniteSet(SUBSET (1..x)) /\ Cardinality(SUBSET (1..x)) = 2^Cardinality(1..x)
    BY <1>1, FS_SUBSET
  <2>. QED
    BY <1>1, <2>1, <2>2
<1>3. x \notin S
  OBVIOUS
<1>4. \A t, u \in without : t \cup {x} = u \cup {x} => t = u
  BY <1>3
<1>5. add \in Bijection(without, with)
  <2>1. add \in [without -> with] /\ \A t \in without : add[t] = t \cup {x}
    OBVIOUS
  <2>2. \A t, u \in without : add[t] = add[u] => t = u
    BY <1>4, <2>1
  <2>3. \A w \in with : \E t \in without : add[t] = w
    BY <2>1
  <2>. HIDE DEF add, with
  <2>. QED
    BY <2>1, <2>2, <2>3 DEF Bijection, Injection, Surjection, IsInjective
<1>6. IsFiniteSet(with) /\ Cardinality(with) = 2^n
  <2>1. ExistsBijection(without, with)
    BY <1>5 DEF ExistsBijection
  <2>. QED
    BY <1>2, <2>1, FS_Bijection
<1>7. SUBSET (1..x) = without \cup with
  <2>1. 1..x = S \cup {x}
    OBVIOUS
  <2>2. ASSUME NEW t \in SUBSET (1..x) PROVE t \in without \cup with
    <3>1. t \ {x} \in without
      BY <2>1
    <3>2. x \in t => t = (t \ {x}) \cup {x}
      OBVIOUS
    <3>3. x \notin t => t \in without
      BY <2>1
    <3>. QED
      BY <3>1, <3>2, <3>3
  <2>3. ASSUME NEW t \in without \cup with PROVE t \in SUBSET (1..x)
    BY <2>1
  <2>. QED
    BY <2>2, <2>3
<1>8. without \cap with = {}
  BY <1>3
<1>9. 2^n \in Nat
  BY <1>2, FS_CardinalityType
<1>. HIDE DEF without, with
<1>10. Cardinality(without \cup with) = 2 * 2^n
  <2>1. Cardinality(without \cup with) =
          Cardinality(without) + Cardinality(with) - Cardinality(without \cap with)
    BY <1>2, <1>6, FS_Union
  <2>2. Cardinality(without \cap with) = 0
    BY <1>8, FS_EmptySet
  <2>. QED
    BY <1>2, <1>6, <1>9, <2>1, <2>2
<1>11. 2^x = 2 * 2^n
  BY <1>2, <1>7, <1>10
<1>. QED
  BY <1>9, <1>11

LEMMA PowerOfZero == 2^0 = 1
<1>1. IsFiniteSet({}) /\ Cardinality({}) = 0
  BY FS_EmptySet
<1>2. Cardinality(SUBSET {}) = 2^0
  BY <1>1, FS_SUBSET
<1>3. SUBSET {} = {{}}
  OBVIOUS
<1>. QED
  BY <1>2, <1>3, FS_Singleton

LEMMA DurationRange ==
    /\ MaxDuration \in Nat \ {0}
    /\ 2^Width = 2 * (MaxDuration + 1)
<1>1. Width - 1 \in Nat /\ (Width - 1) + 1 = Width
  BY DurationAssumption
<1>2. 2^(Width - 1) \in Nat /\ 2^Width = 2 * 2^(Width - 1)
  BY <1>1, Powers
<1>3. QuotaMax \in 1..MaxDuration
  BY DurationAssumption
<1>. QED
  BY <1>2, <1>3 DEF MaxDuration

LEMMA SmallRemainder ==
    ASSUME NEW n \in Nat, NEW d \in Nat \ {0}, n < d
    PROVE  n % d = n
  BY SMT

\* A Duration in range does not wrap.
LEMMA WrapInRange ==
    ASSUME NEW n \in 0..MaxDuration
    PROVE  Wrap(n) = n
<1>. DEFINE half == MaxDuration + 1
<1>1. half \in Nat \ {0} /\ n + half < 2 * half /\ n + half \in Nat /\ 2 * half \in Nat \ {0}
  BY DurationRange
<1>2. (n + MaxDuration + 1) % 2^Width = (n + half) % (2 * half)
  BY DurationRange
<1>3. (n + half) % (2 * half) = n + half
  BY <1>1, SmallRemainder
<1>. QED
  BY <1>1, <1>2, <1>3, DurationRange DEF Wrap

LEMMA Quotient ==
    ASSUME NEW n \in Nat, NEW d \in Nat \ {0}, NEW m \in 1..(n \div d)
    PROVE  m * d \in 1..n
<1>1. (n \div d) \in Nat /\ (n \div d) * d <= n
  BY SMT
<1>2. m * d <= (n \div d) * d /\ m * d \in Nat /\ m * d > 0
  BY <1>1, SMT
<1>. QED
  BY <1>1, <1>2

TimesInv == header \in Headers \cup {Absent} /\ streak \in Nat

LEMMA HeaderHonoured ==
    ASSUME TimesInv
    PROVE  RepresentableRetryAfterHonoured
<1>. SUFFICES ASSUME \/ header.form = "date" /\ header.value > 0
                     \/ header.form = "seconds"
                        /\ header.value \in 1..(MaxDuration \div Second)
              PROVE  Honoured
  BY DEF RepresentableRetryAfterHonoured
<1>. USE DurationAssumption
<1>1. header.form \in {"absent", "seconds", "date"} /\ header.value \in Int
  BY DEF TimesInv, Absent
<1>2. QuotaMin \in 1..QuotaMax /\ QuotaMax \in 1..MaxDuration /\ MaxDuration \in Nat \ {0}
  BY DurationRange
<1>3. ASSUME NEW d \in Nat \ {0}, ParseRetryAfter(header) = d,
             Clamp(d, QuotaMin, QuotaMax) = Promised(header)
      PROVE  Honoured
  BY <1>3 DEF Rest, Honoured
<1>4. CASE header.form = "date" /\ header.value > 0
  <2>. DEFINE delay == Clamp(header.value, 0, MaxDuration)
  <2>1. ParseRetryAfter(header) = delay
    BY <1>4 DEF ParseRetryAfter
  <2>2. delay \in Nat \ {0}
    BY <1>1, <1>2, <1>4 DEF Clamp
  <2>3. Clamp(delay, QuotaMin, QuotaMax) = Clamp(header.value, QuotaMin, QuotaMax)
    BY <1>1, <1>2, <1>4 DEF Clamp
  <2>4. Promised(header) = Clamp(header.value, QuotaMin, QuotaMax)
    BY <1>4 DEF Promised
  <2>. HIDE DEF delay
  <2>. QED
    BY <1>3, <2>1, <2>2, <2>3, <2>4, Zenon
<1>5. CASE header.form = "seconds" /\ header.value \in 1..(MaxDuration \div Second)
  <2>. DEFINE delay == header.value * Second
  <2>1. delay \in 1..MaxDuration
    BY <1>2, <1>5, Quotient
  <2>2. header.value \in 1..MaxDuration
    <3>1. header.value <= header.value * Second
      BY <1>1, <1>5, SMT
    <3>. QED
      BY <1>1, <1>2, <1>5, <2>1, <3>1
  <2>3. ParseRetryAfter(header) = delay
    BY <1>2, <1>5, <2>1, <2>2, WrapInRange DEF ParseRetryAfter
  <2>4. Promised(header) = Clamp(delay, QuotaMin, QuotaMax)
    BY <1>5 DEF Promised
  <2>5. delay \in Nat \ {0}
    BY <1>2, <2>1
  <2>. HIDE DEF delay
  <2>. QED
    BY <1>3, <2>3, <2>4, <2>5, Zenon
<1>. QED
  BY <1>4, <1>5

(***************************************************************************)
(* The doubling loop after each step has the value of the closed form.     *)
(***************************************************************************)
Doubled(previous, maximum) ==
    IF previous >= maximum THEN previous
    ELSE IF previous > maximum \div 2 THEN maximum
    ELSE previous * 2

LEMMA CapDoubles ==
    ASSUME NEW base \in Nat, NEW maximum \in Nat, base <= maximum, NEW k \in Nat \ {0}
    PROVE  BackoffCap(base, maximum, k + 1) = Doubled(BackoffCap(base, maximum, k), maximum)
<1>. DEFINE power == 2^(k - 1)
            uncapped == base * power
<1>1. k - 1 \in Nat /\ (k - 1) + 1 = k
  OBVIOUS
<1>2. power \in Nat /\ 2^k = 2 * power
  BY <1>1, Powers
<1>. HIDE DEF power
<1>3. base * (2 * power) = 2 * uncapped /\ uncapped \in Nat
  BY <1>2, SMT
<1>4. (k + 1) - 1 = k
  OBVIOUS
<1>5. BackoffCap(base, maximum, k) = IF uncapped < maximum THEN uncapped ELSE maximum
  BY DEF BackoffCap, power
<1>6. BackoffCap(base, maximum, k + 1) =
        IF 2 * uncapped < maximum THEN 2 * uncapped ELSE maximum
  BY <1>2, <1>3, <1>4 DEF BackoffCap
<1>. HIDE DEF uncapped
<1>. QED
  BY <1>3, <1>5, <1>6, SMT DEF Doubled

LEMMA LoopIsClosedForm ==
    ASSUME NEW base \in Nat, NEW maximum \in Nat, base <= maximum, NEW failures \in Nat \ {0}
    PROVE  BackoffLoop(base, maximum, failures) = BackoffCap(base, maximum, failures)
<1>. DEFINE next(k, previous) == IF k <= 1 THEN base ELSE Doubled(previous, maximum)
            solves(f) == f = [k \in 0..failures |-> next(k, f[k - 1])]
            cap == CHOOSE f : solves(f)
<1>1. BackoffLoop(base, maximum, failures) = cap[failures]
  BY DEF BackoffLoop, Doubled
<1>2. \E f : solves(f)
  <2>. DEFINE step == [turn \in ((0 + 1)..failures) \X Nat |-> next(turn[1], turn[2])]
  <2>1. step \in [((0 + 1)..failures) \X Nat -> Nat]
    BY DEF Doubled
  <2>2. 0 \in Nat /\ failures \in Nat /\ 0 <= failures
    OBVIOUS
  <2>3. \A k \in 1..failures, m \in Nat : step[<<k, m>>] = next(k, m)
    OBVIOUS
  <2>. HIDE DEF step
  <2>. HIDE DEF next
  <2>4. PICK f \in [0..failures -> Nat] : Runs(f, base, step, 0, failures)
    BY <2>1, <2>2, LoopExists, Zenon
  <2>. USE DEF next
  <2>5. \A k \in 0..failures : k # 0 => f[k - 1] \in Nat
    OBVIOUS
  <2>6. \A k \in 0..failures :
          (IF k = 0 THEN base ELSE step[<<k, f[k - 1]>>]) = next(k, f[k - 1])
    BY <2>3, <2>5
  <2>7. f = [k \in 0..failures |-> next(k, f[k - 1])]
    BY <2>4, <2>6 DEF Runs
  <2>. QED
    BY <2>7
<1>3. solves(cap)
  BY <1>2
<1>4. \A k \in 0..failures : cap[k] = next(k, cap[k - 1])
  BY <1>3
<1>. HIDE DEF cap
<1>. DEFINE good == {k \in Nat : cap[k] = BackoffCap(base, maximum, k)}
<1>5. 1 \in good
  <2>1. BackoffCap(base, maximum, 1) = base
    BY PowerOfZero DEF BackoffCap
  <2>. QED
    BY <1>4, <2>1
<1>6. ASSUME NEW k \in 1..failures, k \in good, k < failures PROVE k + 1 \in good
  <2>1. cap[k + 1] = Doubled(cap[k], maximum)
    BY <1>4, <1>6
  <2>2. BackoffCap(base, maximum, k + 1) = Doubled(BackoffCap(base, maximum, k), maximum)
    BY <1>6, CapDoubles
  <2>. QED
    BY <1>6, <2>1, <2>2
<1>. HIDE DEF good
<1>7. failures \in good
  BY <1>5, <1>6, EveryTurn
<1>. QED
  BY <1>1, <1>7 DEF good

LEMMA BackoffCapped ==
    ASSUME TimesInv
    PROVE  BackoffIsCappedDoubling
<1>1. \A b \in {RateBackoff, NetworkBackoff} :
        b.base \in Nat /\ b.maximum \in Nat /\ b.base <= b.maximum
  BY DurationAssumption
<1>. QED
  BY <1>1, LoopIsClosedForm DEF TimesInv, BackoffIsCappedDoubling

-----------------------------------------------------------------------------
(***************************************************************************)
(* RoutingScan.  The invariant of its states.                              *)
(***************************************************************************)
ScanInv ==
    /\ rows \in Seq(RowKinds)
    /\ load \in [Accounts -> Loads]
    /\ now \in Clocks

RoutingInv == TimesInv /\ ScanInv

LEMMA RoutingInvariance == Spec => []RoutingInv
<1>1. Init => RoutingInv
  BY DEF Init, TimesInit, RoutingInv, TimesInv, ScanInv
<1>2. RoutingInv /\ [Next]_vars => RoutingInv'
  <2>. SUFFICES ASSUME RoutingInv, [Next]_vars PROVE RoutingInv'
    OBVIOUS
  <2>1. ASSUME NEW row \in RowKinds, AddRow(row), UNCHANGED times PROVE RoutingInv'
    <3>1. rows' \in Seq(RowKinds)
      BY <2>1 DEF RoutingInv, ScanInv, AddRow
    <3>. QED
      BY <2>1, <3>1 DEF RoutingInv, TimesInv, ScanInv, AddRow, times
  <2>2. CASE TimesNext /\ UNCHANGED table
    BY <2>2 DEF RoutingInv, TimesInv, ScanInv, TimesNext, TooManyRequests, table
  <2>3. CASE UNCHANGED vars
    BY <2>3 DEF RoutingInv, TimesInv, ScanInv, vars, table, times
  <2>. QED
    BY <2>1, <2>2, <2>3 DEF Next
<1>. QED
  BY <1>1, <1>2, PTL DEF Spec

(***************************************************************************)
(* Whatever the widths and the clamps, a Retry-After whose seconds fit a   *)
(* Duration keeps the account out for exactly that long, clamped           *)
(* (parseRetryAfter, RecordFailure).                                       *)
(***************************************************************************)
THEOREM HeadersHonoured == Spec => []RepresentableRetryAfterHonoured
<1>1. RoutingInv => RepresentableRetryAfterHonoured
  BY HeaderHonoured DEF RoutingInv
<1>. QED
  BY <1>1, RoutingInvariance, PTL

(***************************************************************************)
(* For every policy and every streak the doubling loop ends at the closed  *)
(* form base * 2^(streak - 1), capped (recordBackoff).                     *)
(***************************************************************************)
THEOREM BackoffExact == Spec => []BackoffIsCappedDoubling
<1>1. RoutingInv => BackoffIsCappedDoubling
  BY BackoffCapped DEF RoutingInv
<1>. QED
  BY <1>1, RoutingInvariance, PTL

-----------------------------------------------------------------------------
(***************************************************************************)
(* The error: the reason of a row is that of its first objection.          *)
(***************************************************************************)
LEMMA ObjectionChain ==
    ASSUME NEW row, NEW request, NEW t
    PROVE  /\ DOMAIN Objections(row, request, t) = 1..8
           /\ Objections(row, request, t)[7].holds = (row.quota > t)
           /\ Objections(row, request, t)[8].holds = (row.cooldown > t)
BY DEF Objections

LEMMA ObjectionReasons ==
    ASSUME NEW row, NEW request, NEW t, NEW k \in 1..8
    PROVE  /\ Objections(row, request, t)[k].reason # ""
           /\ Objections(row, request, t)[k].reason = "quota_limited" => k = 7
           /\ Objections(row, request, t)[k].reason = "account_cooldown" => k = 8
<1>. DEFINE reason(j) == Objections(row, request, t)[j].reason
<1>1. /\ reason(1) = "upstream_unavailable" /\ reason(2) = "capability_not_supported"
      /\ reason(3) = "reauth_required" /\ reason(4) = "account_disabled"
  BY DEF Objections
<1>2. /\ reason(5) = "reauth_required" /\ reason(6) = "reauth_required"
      /\ reason(7) = "quota_limited" /\ reason(8) = "account_cooldown"
  BY DEF Objections
<1>3. k = 1 \/ k = 2 \/ k = 3 \/ k = 4 \/ k = 5 \/ k = 6 \/ k = 7 \/ k = 8
  OBVIOUS
<1>. HIDE DEF reason
<1>4. /\ reason(k) # ""
      /\ reason(k) = "quota_limited" => k = 7
      /\ reason(k) = "account_cooldown" => k = 8
  BY <1>1, <1>2, <1>3, Zenon
<1>. QED
  BY <1>4 DEF reason

LEMMA FilterRests ==
    ASSUME NEW row, NEW request, NEW t
    PROVE  /\ Filter(row, request, t) = "quota_limited" => row.quota > t
           /\ Filter(row, request, t) = "account_cooldown" => row.cooldown > t
<1>. DEFINE chain == Objections(row, request, t)
            raised == {k \in 1..8 : chain[k].holds}
            first == Least(raised)
<1>1. /\ DOMAIN chain = 1..8
      /\ chain[7].holds = (row.quota > t) /\ chain[8].holds = (row.cooldown > t)
  BY ObjectionChain
<1>2. Filter(row, request, t) = IF raised = {} THEN "" ELSE chain[first].reason
  BY <1>1, Zenon DEF Filter
<1>3. raised # {} => first \in 1..8 /\ chain[first].holds
  <2>1. raised \subseteq Nat
    OBVIOUS
  <2>2. raised # {} => first \in raised
    BY <2>1, LeastIsLeast
  <2>. QED
    BY <2>2
<1>4. \A k \in 1..8 : /\ chain[k].reason = "quota_limited" => k = 7
                      /\ chain[k].reason = "account_cooldown" => k = 8
  BY ObjectionReasons, Zenon
<1>. HIDE DEF chain, raised, first
<1>5. "" # "quota_limited" /\ "" # "account_cooldown"
  BY Zenon
<1>. QED
  BY <1>1, <1>2, <1>3, <1>4, <1>5, Zenon

LEMMA DocumentedFirst ==
    /\ DOMAIN ErrorOrder = 1..6 /\ DOMAIN DocumentedOrder = 1..4
    /\ \A k \in 1..4 : ErrorOrder[k] = DocumentedOrder[k]
<1>1. DOMAIN ErrorOrder = 1..6 /\ DOMAIN DocumentedOrder = 1..4
  BY DEF ErrorOrder, DocumentedOrder
<1>2. /\ ErrorOrder[1] = "reauth_required" /\ DocumentedOrder[1] = "reauth_required"
      /\ ErrorOrder[2] = "capability_not_supported"
      /\ DocumentedOrder[2] = "capability_not_supported"
      /\ ErrorOrder[3] = "quota_limited" /\ DocumentedOrder[3] = "quota_limited"
      /\ ErrorOrder[4] = "all_accounts_saturated"
      /\ DocumentedOrder[4] = "all_accounts_saturated"
  BY DEF ErrorOrder, DocumentedOrder
<1>3. \A k \in 1..4 : k = 1 \/ k = 2 \/ k = 3 \/ k = 4
  OBVIOUS
<1>. QED
  BY <1>1, <1>2, <1>3, Zenon

\* An error that is reported is the reason of some row.
LEMMA ErrorIsPresent ==
    ASSUME NEW reasons, NoCandidateError(reasons) # "upstream_unavailable"
    PROVE  NoCandidateError(reasons) \in reasons
<1>. DEFINE present == {k \in DOMAIN ErrorOrder : ErrorOrder[k] \in reasons}
<1>1. NoCandidateError(reasons)
        = IF present = {} THEN "upstream_unavailable" ELSE ErrorOrder[Least(present)]
  BY DEF NoCandidateError
<1>2. present \subseteq Nat
  BY DocumentedFirst
<1>3. present # {} => Least(present) \in present
  BY <1>2, LeastIsLeast
<1>. QED
  BY <1>1, <1>3

LEMMA SpecificError ==
    ASSUME NEW reasons,
           NEW present, present = {k \in DOMAIN DocumentedOrder : DocumentedOrder[k] \in reasons},
           present # {}
    PROVE  NoCandidateError(reasons) = DocumentedOrder[Least(present)]
<1>. DEFINE all == {k \in DOMAIN ErrorOrder : ErrorOrder[k] \in reasons}
<1>1. all \subseteq 1..6 /\ present \subseteq 1..4 /\ present \subseteq all
      /\ \A k \in all : k <= 4 => k \in present
  BY DocumentedFirst
<1>. HIDE DEF all
<1>2. all \subseteq Nat /\ present \subseteq Nat /\ all # {}
  BY <1>1
<1>3. /\ Least(all) \in all /\ \A k \in all : Least(all) <= k
      /\ Least(present) \in present /\ \A k \in present : Least(present) <= k
  BY <1>2, LeastIsLeast
<1>4. Least(all) = Least(present)
  <2>1. Least(all) \in 1..6 /\ Least(present) \in 1..4
    BY <1>1, <1>3
  <2>2. Least(all) <= Least(present)
    BY <1>1, <1>3
  <2>3. Least(all) \in present
    BY <1>1, <1>3, <2>1, <2>2
  <2>4. Least(present) <= Least(all)
    BY <1>3, <2>3
  <2>. QED
    BY <2>1, <2>2, <2>4
<1>5. NoCandidateError(reasons) = ErrorOrder[Least(all)]
  BY <1>2, Zenon DEF NoCandidateError, all
<1>. QED
  BY <1>1, <1>3, <1>4, <1>5, DocumentedFirst

(***************************************************************************)
(* Whatever the table, when the filter alone removes every row the caller  *)
(* is told the most specific of the documented reasons (noCandidateError). *)
(***************************************************************************)
THEOREM MostSpecificErrorFirst == Spec => []FilterErrorIsMostSpecific
<1>1. RoutingInv => FilterErrorIsMostSpecific
  <2>. SUFFICES ASSUME RoutingInv, rows # <<>>, Eligible = {}
                PROVE  MostSpecific({RowReason(i) : i \in DOMAIN rows})
    BY DEF FilterErrorIsMostSpecific
  <2>. DEFINE reasons == {RowReason(i) : i \in DOMAIN rows}
              present == {k \in DOMAIN DocumentedOrder : DocumentedOrder[k] \in reasons}
  <2>1. \A i \in DOMAIN rows : Filter(rows[i], Request, now) # ""
    BY Zenon DEF Eligible, EligibleRows
  <2>2. \A i \in DOMAIN rows : RowReason(i) = Filter(rows[i], Request, now)
    BY <2>1, Zenon DEF RowReason
  <2>3. reasons = {Filter(rows[i], Request, now) : i \in DOMAIN rows}
    BY <2>2, Zenon
  <2>4. Verdict = NoCandidateError(reasons)
    BY <2>3, Zenon DEF Verdict, PlanError, Eligible
  <2>5. present # {} => NoCandidateError(reasons) = DocumentedOrder[Least(present)]
    BY SpecificError, Zenon
  <2>. QED
    BY <2>4, <2>5, Zenon DEF MostSpecific
<1>. QED
  BY <1>1, RoutingInvariance, PTL

-----------------------------------------------------------------------------
(***************************************************************************)
(* Retry-After: the running minimum is the least end of the rests of those *)
(* rows whose reason it is.                                                *)
(***************************************************************************)
Resting(reason, k) == {i \in 1..k : Filter(rows[i], Request, now) = reason}

LEMMA RestTypes ==
    ASSUME ScanInv, NEW reason, NEW i \in DOMAIN rows
    PROVE  RestEnd(rows[i], reason) \in Nat
<1>1. rows[i] \in RowKinds
  BY DEF ScanInv
<1>2. rows[i].quota \in Nat /\ rows[i].cooldown \in Nat
  BY <1>1, ScanAssumption
<1>. QED
  BY <1>2 DEF RestEnd

EarliestStep(previous, reason, k) ==
    IF Filter(rows[k], Request, now) # reason THEN previous
    ELSE EarlierPositive(previous, RestEnd(rows[k], reason))

LEMMA EarliestLoop ==
    ASSUME ScanInv, NEW reason
    PROVE  \E earliest :
             /\ RetryAt(reason) = earliest[Len(rows)]
             /\ \A k \in 0..Len(rows) :
                  earliest[k] = IF k = 0 THEN 0 ELSE EarliestStep(earliest[k - 1], reason, k)
<1>. DEFINE n == Len(rows)
            next(k, previous) == IF k = 0 THEN 0 ELSE EarliestStep(previous, reason, k)
            solves(f) == f = [k \in 0..n |-> next(k, f[k - 1])]
            earliest == CHOOSE f : solves(f)
<1>1. RetryAt(reason) = earliest[n]
  BY DEF RetryAt, EarliestStep
<1>2. n \in Nat /\ DOMAIN rows = 1..n
  BY DEF ScanInv
<1>3. \A k \in 1..n : RestEnd(rows[k], reason) \in Nat
  BY <1>2, RestTypes
<1>. HIDE DEF n
<1>4. \E f : solves(f)
  <2>. DEFINE step == [turn \in ((0 + 1)..n) \X Nat |-> EarliestStep(turn[2], reason, turn[1])]
  <2>1. \A k \in 1..n, m \in Nat : EarliestStep(m, reason, k) \in Nat
    BY <1>3 DEF EarliestStep, EarlierPositive
  <2>2. step \in [((0 + 1)..n) \X Nat -> Nat]
    BY <2>1
  <2>3. 0 \in Nat /\ 0 <= n
    BY <1>2
  <2>4. \A k \in 1..n, m \in Nat : step[<<k, m>>] = EarliestStep(m, reason, k)
    OBVIOUS
  <2>. HIDE DEF step
  <2>5. PICK f \in [0..n -> Nat] : Runs(f, 0, step, 0, n)
    BY <1>2, <2>2, <2>3, LoopExists, Zenon
  <2>6. \A k \in 0..n : k # 0 => f[k - 1] \in Nat /\ k \in 1..n
    BY <1>2
  <2>7. \A k \in 0..n : f[k] = next(k, f[k - 1])
    BY <2>4, <2>5, <2>6, Zenon DEF Runs
  <2>. HIDE DEF next
  <2>8. f = [k \in 0..n |-> next(k, f[k - 1])]
    BY <2>7
  <2>. QED
    BY <2>8
<1>5. solves(earliest)
  BY <1>4
<1>6. \A k \in 0..n : earliest[k] = next(k, earliest[k - 1])
  BY <1>5
<1>. QED
  BY <1>1, <1>6 DEF n

IsEarliest(value, reason, k) ==
    /\ Resting(reason, k) = {} => value = 0
    /\ Resting(reason, k) # {} => \E i \in Resting(reason, k) : value = RestEnd(rows[i], reason)
    /\ \A i \in Resting(reason, k) : value <= RestEnd(rows[i], reason)

LEMMA RetryAtIsEarliest ==
    ASSUME ScanInv, NEW reason \in {"quota_limited", "account_cooldown"}
    PROVE  IsEarliest(RetryAt(reason), reason, Len(rows))
<1>. DEFINE n == Len(rows)
<1>1. n \in Nat /\ DOMAIN rows = 1..n
  BY DEF ScanInv
<1>2. PICK earliest : /\ RetryAt(reason) = earliest[n]
                      /\ \A k \in 0..n : earliest[k] = IF k = 0 THEN 0
                                          ELSE EarliestStep(earliest[k - 1], reason, k)
  BY EarliestLoop
<1>3. \A k \in 1..n : RestEnd(rows[k], reason) \in Nat
  BY <1>1, RestTypes
<1>4. \A k \in 1..n : Filter(rows[k], Request, now) = reason => RestEnd(rows[k], reason) > 0
  <2>1. now \in Nat
    BY ScanAssumption DEF ScanInv
  <2>2. \A k \in 1..n : Filter(rows[k], Request, now) = reason => RestEnd(rows[k], reason) > now
    <3>1. ASSUME NEW k \in 1..n, Filter(rows[k], Request, now) = reason
          PROVE  RestEnd(rows[k], reason) > now
      <4>1. CASE reason = "quota_limited"
        BY <3>1, <4>1, FilterRests DEF RestEnd
      <4>2. CASE reason = "account_cooldown"
        BY <3>1, <4>2, FilterRests DEF RestEnd
      <4>. QED
        BY <4>1, <4>2
    <3>. QED
      BY <3>1
  <2>. QED
    BY <1>3, <2>1, <2>2
<1>. HIDE DEF n
<1>. DEFINE good == {k \in 0..n : earliest[k] \in Nat /\ IsEarliest(earliest[k], reason, k)}
<1>5. 0 \in good
  <2>1. earliest[0] = 0 /\ Resting(reason, 0) = {}
    BY <1>1, <1>2 DEF Resting
  <2>. QED
    BY <1>1, <2>1 DEF IsEarliest
<1>6. ASSUME NEW k \in 0..n, k \in good, k < n PROVE k + 1 \in good
  <2>. DEFINE end == RestEnd(rows[k + 1], reason)
              old == earliest[k]
              new == earliest[k + 1]
  <2>1. k + 1 \in 1..n /\ k + 1 \in 0..n /\ (k + 1) - 1 = k
    BY <1>1, <1>6
  <2>2. new = EarliestStep(old, reason, k + 1)
    BY <1>2, <2>1
  <2>3. old \in Nat /\ IsEarliest(old, reason, k) /\ end \in Nat
    BY <1>3, <1>6, <2>1
  <2>4. \A i \in Resting(reason, k) : RestEnd(rows[i], reason) \in Nat \ {0}
    <3>1. ASSUME NEW i \in Resting(reason, k) PROVE RestEnd(rows[i], reason) \in Nat \ {0}
      <4>1. i \in 1..n /\ Filter(rows[i], Request, now) = reason
        BY <1>1, <1>6 DEF Resting
      <4>. QED
        BY <1>3, <1>4, <4>1
    <3>. QED
      BY <3>1
  <2>5. CASE Filter(rows[k + 1], Request, now) # reason
    <3>1. Resting(reason, k + 1) = Resting(reason, k)
      BY <1>1, <2>1, <2>5 DEF Resting
    <3>2. new = old
      BY <2>2, <2>5 DEF EarliestStep
    <3>. QED
      BY <2>1, <2>3, <3>1, <3>2 DEF IsEarliest
  <2>6. CASE Filter(rows[k + 1], Request, now) = reason
    <3>1. Resting(reason, k + 1) = Resting(reason, k) \cup {k + 1}
      BY <1>1, <2>1, <2>6 DEF Resting
    <3>2. new = (IF end <= 0 \/ (old > 0 /\ old <= end) THEN old ELSE end) /\ end > 0
      BY <1>4, <2>1, <2>2, <2>6 DEF EarliestStep, EarlierPositive
    <3>. HIDE DEF end, old, new
    <3>3. CASE Resting(reason, k) = {}
      <4>1. new = end /\ end \in Nat
        BY <2>3, <3>2, <3>3 DEF IsEarliest
      <4>. QED
        BY <2>1, <3>1, <3>3, <4>1 DEF IsEarliest, end, new
    <3>4. CASE Resting(reason, k) # {}
      <4>1. PICK i \in Resting(reason, k) : old = RestEnd(rows[i], reason)
        BY <2>3, <3>4 DEF IsEarliest
      <4>2. old > 0
        BY <2>4, <4>1
      <4>3. new \in {old, end} /\ new <= old /\ new <= end /\ new \in Nat
        BY <2>3, <3>2, <4>2
      <4>4. \A j \in Resting(reason, k) : new <= RestEnd(rows[j], reason)
        BY <2>3, <2>4, <4>3 DEF IsEarliest
      <4>. QED
        BY <2>1, <3>1, <4>1, <4>3, <4>4 DEF IsEarliest, end, new
    <3>. QED
      BY <3>3, <3>4
  <2>. QED
    BY <2>5, <2>6
<1>. HIDE DEF good
<1>7. \A k \in 0..n : k \in good
  BY <1>1, <1>5, <1>6, EveryTurn, Zenon
<1>8. n \in 0..n
  BY <1>1
<1>. QED
  BY <1>2, <1>7, <1>8 DEF good, n

\* A reason to wait that is reported is some row's.
LEMMA VerdictIsPresent ==
    ASSUME NEW reason \in {"quota_limited", "account_cooldown"}, Verdict = reason
    PROVE  \E i \in DOMAIN rows : Filter(rows[i], Request, now) = reason
<1>. DEFINE reasons == {Filter(rows[i], Request, now) : i \in DOMAIN rows}
<1>1. /\ reason # "model_not_configured" /\ reason # "all_accounts_saturated"
      /\ reason # "" /\ reason # "upstream_unavailable"
  BY Zenon
<1>2. Verdict = NoCandidateError(reasons)
  BY <1>1, Zenon DEF Verdict, PlanError
<1>3. reason \in reasons
  BY <1>1, <1>2, ErrorIsPresent, Zenon
<1>. QED
  BY <1>3

(***************************************************************************)
(* Whatever the table and the clock, the Retry-After that comes with a     *)
(* rest to wait for is the first moment at which one of the rows with that *)
(* reason is past it (Plan, earlierPositive, noCandidateError).            *)
(***************************************************************************)
THEOREM RetryAfterExact == Spec => []RetryAfterIsExact
<1>1. RoutingInv => RetryAfterIsExact
  <2>. SUFFICES ASSUME RoutingInv PROVE RetryAfterIsExact
    OBVIOUS
  <2>. DEFINE resting(reason, t) == {i \in DOMAIN rows :
                                       /\ Filter(rows[i], Request, now) = reason
                                       /\ RestEnd(rows[i], reason) > t}
  <2>1. ScanInv /\ now \in Nat /\ DOMAIN rows = 1..Len(rows)
    BY ScanAssumption DEF RoutingInv, ScanInv
  <2>2. ASSUME NEW reason \in {"quota_limited", "account_cooldown"}, Verdict = reason
        PROVE  /\ RetryAfter(reason) > 0
               /\ resting(reason, now + RetryAfter(reason) - 1) = resting(reason, now)
               /\ resting(reason, now + RetryAfter(reason)) # resting(reason, now)
    <3>. DEFINE R == Resting(reason, Len(rows))
                at == RetryAt(reason)
                after == RetryAfter(reason)
                end(i) == RestEnd(rows[i], reason)
    <3>1. R = {i \in DOMAIN rows : Filter(rows[i], Request, now) = reason}
      BY <2>1 DEF Resting
    <3>2. R # {}
      BY <2>2, <3>1, VerdictIsPresent
    <3>3. \A i \in R : end(i) \in Nat /\ end(i) > now
      <4>1. ASSUME NEW i \in R PROVE end(i) \in Nat /\ end(i) > now
        <5>1. i \in DOMAIN rows /\ Filter(rows[i], Request, now) = reason
          BY <3>1
        <5>2. end(i) \in Nat
          BY <2>1, <5>1, RestTypes
        <5>3. CASE reason = "quota_limited"
          BY <5>1, <5>2, <5>3, FilterRests DEF RestEnd
        <5>4. CASE reason = "account_cooldown"
          BY <5>1, <5>2, <5>4, FilterRests DEF RestEnd
        <5>. QED
          BY <5>2, <5>3, <5>4
      <4>. QED
        BY <4>1
    <3>4. (\E i \in R : at = end(i)) /\ (\A i \in R : at <= end(i))
      BY <2>1, <3>2, RetryAtIsEarliest DEF IsEarliest
    <3>. HIDE DEF R, at, end
    <3>5. PICK first \in R : at = end(first)
      BY <3>4
    <3>6. at \in Nat /\ at > now
      BY <3>3, <3>5
    <3>7. after = at - now /\ after > 0 /\ now + after = at /\ now + after - 1 = at - 1
      BY <2>1, <3>6 DEF RetryAfter, at
    <3>. HIDE DEF after
    <3>8. \A t : resting(reason, t) = {i \in R : end(i) > t}
      BY <3>1 DEF end
    <3>9. resting(reason, now) = R
      BY <3>3, <3>8
    <3>10. resting(reason, at - 1) = R
      <4>1. \A i \in R : end(i) > at - 1
        BY <3>3, <3>4, <3>6
      <4>. QED
        BY <3>8, <4>1
    <3>11. first \notin resting(reason, at)
      <4>1. ~(at > at)
        BY <3>6
      <4>. QED
        BY <3>5, <3>8, <4>1
    <3>. HIDE DEF resting
    <3>. QED
      BY <3>5, <3>7, <3>9, <3>10, <3>11 DEF after
  <2>. QED
    BY <2>2, Zenon DEF RetryAfterIsExact
<1>. QED
  BY <1>1, RoutingInvariance, PTL

-----------------------------------------------------------------------------
(***************************************************************************)
(* The selection loop.  What it keeps stays in the order of the query.     *)
(***************************************************************************)
Ascending(s) == \A j, k \in 1..Len(s) : j < k => s[j] < s[k]

LEMMA AppendAscending ==
    ASSUME NEW s \in Seq(Nat), Ascending(s), NEW x \in Nat, \A y \in ToSet(s) : y < x
    PROVE  /\ Append(s, x) \in Seq(Nat) /\ Ascending(Append(s, x))
           /\ ToSet(Append(s, x)) = ToSet(s) \cup {x}
<1>. DEFINE t == Append(s, x)
            n == Len(s)
<1>1. /\ t \in Seq(Nat) /\ Len(t) = n + 1 /\ n \in Nat /\ t[n + 1] = x
      /\ \A k \in 1..n : t[k] = s[k]
      /\ DOMAIN s = 1..n /\ DOMAIN t = 1..(n + 1)
  OBVIOUS
<1>2. \A k \in 1..n : s[k] \in ToSet(s)
  BY <1>1 DEF ToSet
<1>. HIDE DEF t, n
<1>3. Ascending(t)
  <2>. SUFFICES ASSUME NEW j \in 1..(n + 1), NEW k \in 1..(n + 1), j < k
                PROVE  t[j] < t[k]
    BY <1>1 DEF Ascending
  <2>1. j \in 1..n
    BY <1>1
  <2>2. CASE k = n + 1
    BY <1>1, <1>2, <2>1, <2>2
  <2>3. CASE k # n + 1
    <3>1. k \in 1..n
      BY <1>1, <2>3
    <3>. QED
      BY <1>1, <2>1, <3>1 DEF Ascending, n
  <2>. QED
    BY <2>2, <2>3
<1>4. ToSet(t) = ToSet(s) \cup {x}
  <2>1. 1..(n + 1) = (1..n) \cup {n + 1}
    BY <1>1
  <2>2. ToSet(t) = {t[k] : k \in 1..(n + 1)} /\ ToSet(s) = {s[k] : k \in 1..n}
    BY <1>1 DEF ToSet
  <2>3. {t[k] : k \in (1..n) \cup {n + 1}} = {t[k] : k \in 1..n} \cup {t[n + 1]}
    OBVIOUS
  <2>4. {t[k] : k \in 1..n} = {s[k] : k \in 1..n}
    BY <1>1
  <2>. QED
    BY <1>1, <2>1, <2>2, <2>3, <2>4
<1>. QED
  BY <1>1, <1>3, <1>4 DEF t

\* The rows up to and with the k-th of s.
Upto(s, k) == {s[j] : j \in 1..k}

LEMMA UptoNext ==
    ASSUME NEW s \in Seq(Nat), Ascending(s), NEW k \in 0..Len(s), k < Len(s)
    PROVE  /\ Upto(s, k + 1) = Upto(s, k) \cup {s[k + 1]}
           /\ s[k + 1] \in Nat
           /\ \A y \in Upto(s, k) : y < s[k + 1]
           /\ Upto(s, k) \subseteq Nat
<1>1. 1..(k + 1) = (1..k) \cup {k + 1} /\ k + 1 \in 1..Len(s) /\ 1..k \subseteq 1..Len(s)
  OBVIOUS
<1>2. Upto(s, k + 1) = Upto(s, k) \cup {s[k + 1]}
  BY <1>1 DEF Upto
<1>3. \A j \in 1..k : s[j] < s[k + 1] /\ s[j] \in Nat
  BY <1>1 DEF Ascending
<1>. QED
  BY <1>1, <1>2, <1>3 DEF Upto

LEMMA UptoAll ==
    ASSUME NEW s \in Seq(Nat)
    PROVE  Upto(s, Len(s)) = ToSet(s) /\ Upto(s, 0) = {}
BY DEF Upto, ToSet

KeptStep(previous, s, keep, k) ==
    IF s[k] \in keep THEN Append(previous, s[k]) ELSE previous

LEMMA KeptLoop ==
    ASSUME NEW s \in Seq(Nat), NEW keep
    PROVE  \E kept : /\ Kept(s, keep) = kept[Len(s)]
                     /\ \A k \in 0..Len(s) :
                          kept[k] = IF k = 0 THEN <<>> ELSE KeptStep(kept[k - 1], s, keep, k)
<1>. DEFINE n == Len(s)
            next(k, previous) == IF k = 0 THEN <<>> ELSE KeptStep(previous, s, keep, k)
            solves(f) == f = [k \in 0..n |-> next(k, f[k - 1])]
            kept == CHOOSE f : solves(f)
<1>1. Kept(s, keep) = kept[n]
  BY DEF Kept, KeptStep
<1>2. n \in Nat /\ \A k \in 1..n : s[k] \in Nat
  OBVIOUS
<1>. HIDE DEF n
<1>3. \E f : solves(f)
  <2>. DEFINE step == [turn \in ((0 + 1)..n) \X Seq(Nat) |-> KeptStep(turn[2], s, keep, turn[1])]
  <2>1. \A k \in 1..n, m \in Seq(Nat) : KeptStep(m, s, keep, k) \in Seq(Nat)
    BY <1>2 DEF KeptStep
  <2>2. step \in [((0 + 1)..n) \X Seq(Nat) -> Seq(Nat)]
    BY <2>1
  <2>3. 0 \in Nat /\ 0 <= n /\ <<>> \in Seq(Nat)
    BY <1>2
  <2>4. \A k \in 1..n, m \in Seq(Nat) : step[<<k, m>>] = KeptStep(m, s, keep, k)
    OBVIOUS
  <2>. HIDE DEF step
  <2>5. PICK f \in [0..n -> Seq(Nat)] : Runs(f, <<>>, step, 0, n)
    BY <1>2, <2>2, <2>3, LoopExists, Zenon
  <2>6. \A k \in 0..n : k # 0 => f[k - 1] \in Seq(Nat) /\ k \in 1..n
    BY <1>2
  <2>7. \A k \in 0..n : f[k] = next(k, f[k - 1])
    BY <2>4, <2>5, <2>6, Zenon DEF Runs
  <2>. HIDE DEF next
  <2>8. f = [k \in 0..n |-> next(k, f[k - 1])]
    BY <2>7
  <2>. QED
    BY <2>8
<1>4. solves(kept)
  BY <1>3
<1>5. \A k \in 0..n : kept[k] = next(k, kept[k - 1])
  BY <1>4
<1>. QED
  BY <1>1, <1>5 DEF n

LEMMA KeptInOrder ==
    ASSUME NEW s \in Seq(Nat), Ascending(s), NEW keep
    PROVE  /\ Kept(s, keep) \in Seq(Nat) /\ Ascending(Kept(s, keep))
           /\ ToSet(Kept(s, keep)) = ToSet(s) \cap keep
<1>. DEFINE n == Len(s)
<1>1. PICK kept : /\ Kept(s, keep) = kept[n]
                  /\ \A k \in 0..n :
                       kept[k] = IF k = 0 THEN <<>> ELSE KeptStep(kept[k - 1], s, keep, k)
  BY KeptLoop
<1>2. n \in Nat
  OBVIOUS
<1>. DEFINE good == {k \in 0..n : /\ kept[k] \in Seq(Nat) /\ Ascending(kept[k])
                                  /\ ToSet(kept[k]) = Upto(s, k) \cap keep}
<1>. HIDE DEF n
<1>3. 0 \in good
  <2>1. kept[0] = <<>>
    BY <1>1, <1>2
  <2>2. <<>> \in Seq(Nat) /\ Ascending(<<>>) /\ ToSet(<<>>) = {}
    BY DEF Ascending, ToSet
  <2>3. Upto(s, 0) \cap keep = {}
    BY UptoAll
  <2>4. 0 \in 0..n
    BY <1>2
  <2>. QED
    BY <2>1, <2>2, <2>3, <2>4, Zenon
<1>4. ASSUME NEW k \in 0..n, k \in good, k < n PROVE k + 1 \in good
  <2>. DEFINE old == kept[k]
              x == s[k + 1]
  <2>1. k + 1 \in 1..n /\ k + 1 \in 0..n /\ (k + 1) - 1 = k /\ k + 1 # 0
    BY <1>2, <1>4
  <2>2. kept[k + 1] = IF x \in keep THEN Append(old, x) ELSE old
    BY <1>1, <2>1 DEF KeptStep
  <2>3. old \in Seq(Nat) /\ Ascending(old) /\ ToSet(old) = Upto(s, k) \cap keep
    BY <1>4
  <2>4. /\ Upto(s, k + 1) = Upto(s, k) \cup {x} /\ x \in Nat
        /\ \A y \in Upto(s, k) : y < x
    BY <1>4, UptoNext DEF n
  <2>. HIDE DEF old, x
  <2>5. CASE x \in keep
    <3>1. \A y \in ToSet(old) : y < x
      BY <2>3, <2>4
    <3>2. /\ Append(old, x) \in Seq(Nat) /\ Ascending(Append(old, x))
          /\ ToSet(Append(old, x)) = ToSet(old) \cup {x}
      BY <2>3, <2>4, <3>1, AppendAscending
    <3>3. ToSet(old) \cup {x} = Upto(s, k + 1) \cap keep
      BY <2>3, <2>4, <2>5
    <3>. QED
      BY <2>1, <2>2, <2>5, <3>2, <3>3
  <2>6. CASE x \notin keep
    <3>1. ToSet(old) = Upto(s, k + 1) \cap keep
      BY <2>3, <2>4, <2>6
    <3>. QED
      BY <2>1, <2>2, <2>3, <2>6, <3>1
  <2>. QED
    BY <2>5, <2>6
<1>. HIDE DEF good
<1>5. \A k \in 0..n : k \in good
  BY <1>2, <1>3, <1>4, EveryTurn, Zenon
<1>6. n \in 0..n
  BY <1>2
<1>7. Upto(s, n) = ToSet(s)
  BY UptoAll DEF n
<1>. QED
  BY <1>1, <1>5, <1>6, <1>7 DEF good

LEMMA RowTypes ==
    ASSUME ScanInv, NEW i \in DOMAIN rows
    PROVE  /\ rows[i].priority \in Int /\ rows[i].limit \in Nat \ {0} /\ InFlight(i) \in Nat
           /\ i \in Nat /\ InFlight(i) = load[rows[i].account]
<1>1. rows[i] \in RowKinds /\ i \in Nat
  BY DEF ScanInv
<1>2. /\ rows[i].account \in Accounts /\ rows[i].limit \in Nat \ {0}
      /\ rows[i].priority \in Int
  BY <1>1, ScanAssumption
<1>3. load[rows[i].account] \in Nat
  BY <1>2, ScanAssumption DEF ScanInv
<1>. QED
  BY <1>1, <1>2, <1>3 DEF InFlight

LEMMA CapacityKept ==
    ASSUME ScanInv
    PROVE  /\ CapacityScan \in Seq(Nat) /\ Ascending(CapacityScan)
           /\ ToSet(CapacityScan) = WithCapacity(rows, Eligible, load)
           /\ ToSet(CapacityScan) \subseteq DOMAIN rows
<1>. DEFINE s == [i \in DOMAIN rows |-> i]
            free == {i \in Eligible : ~(InFlight(i) >= rows[i].limit)}
<1>1. Len(rows) \in Nat /\ DOMAIN rows = 1..Len(rows)
  BY DEF ScanInv
<1>2. s \in Seq(Nat) /\ Len(s) = Len(rows) /\ ToSet(s) = DOMAIN rows
  BY <1>1 DEF ToSet
<1>3. Ascending(s)
  BY <1>1, <1>2 DEF Ascending
<1>4. Eligible \subseteq DOMAIN rows
  BY DEF Eligible, EligibleRows
<1>5. free = WithCapacity(rows, Eligible, load)
  <2>1. \A i \in Eligible :
          ~(InFlight(i) >= rows[i].limit) <=> load[rows[i].account] < rows[i].limit
    BY <1>4, RowTypes
  <2>. QED
    BY <2>1 DEF WithCapacity
<1>6. CapacityScan = Kept(s, free)
  BY DEF CapacityScan
<1>. HIDE DEF s
<1>7. ToSet(s) \cap free = free
  BY <1>2, <1>4
<1>. HIDE DEF free
<1>. QED
  BY <1>2, <1>3, <1>4, <1>5, <1>6, <1>7, KeptInOrder DEF WithCapacity

LowerOf(previous, open, k) ==
    IF rows[open[k]].priority < previous THEN rows[open[k]].priority ELSE previous

LEMMA MinimumLoop ==
    ASSUME ScanInv, NEW open \in Seq(Nat), open # <<>>, ToSet(open) \subseteq DOMAIN rows
    PROVE  \E minimum :
             /\ MinimumPriority(open) = minimum[Len(open)]
             /\ \A k \in 1..Len(open) :
                  minimum[k] = IF k = 1 THEN rows[open[1]].priority
                               ELSE LowerOf(minimum[k - 1], open, k)
<1>. DEFINE n == Len(open)
            start == rows[open[1]].priority
            next(k, previous) == IF k = 1 THEN start ELSE LowerOf(previous, open, k)
            solves(f) == f = [k \in 1..n |-> next(k, f[k - 1])]
            minimum == CHOOSE f : solves(f)
<1>1. MinimumPriority(open) = minimum[n]
  BY DEF MinimumPriority, LowerOf
<1>2. n \in Nat \ {0} /\ \A k \in 1..n : open[k] \in ToSet(open)
  BY DEF ToSet
<1>3. \A k \in 1..n : rows[open[k]].priority \in Int
  BY <1>2, RowTypes
<1>. HIDE DEF n
<1>4. start \in Int
  BY <1>2, <1>3
<1>. HIDE DEF start
<1>5. \E f : solves(f)
  <2>. DEFINE step == [turn \in ((1 + 1)..n) \X Int |-> LowerOf(turn[2], open, turn[1])]
  <2>1. \A k \in 1..n, m \in Int : LowerOf(m, open, k) \in Int
    BY <1>3 DEF LowerOf
  <2>2. step \in [((1 + 1)..n) \X Int -> Int]
    BY <2>1
  <2>3. 1 \in Nat /\ 1 <= n /\ n \in Nat
    BY <1>2
  <2>4. \A k \in 2..n, m \in Int : step[<<k, m>>] = LowerOf(m, open, k)
    OBVIOUS
  <2>. HIDE DEF step
  <2>5. PICK f \in [1..n -> Int] : Runs(f, start, step, 1, n)
    BY <1>4, <2>2, <2>3, LoopExists, Zenon
  <2>6. \A k \in 1..n : k # 1 => f[k - 1] \in Int /\ k \in 2..n
    BY <1>2
  <2>7. \A k \in 1..n : f[k] = next(k, f[k - 1])
    BY <2>4, <2>5, <2>6, Zenon DEF Runs
  <2>. HIDE DEF next
  <2>8. f = [k \in 1..n |-> next(k, f[k - 1])]
    BY <2>7
  <2>. QED
    BY <2>8
<1>6. solves(minimum)
  BY <1>5
<1>7. \A k \in 1..n : minimum[k] = next(k, minimum[k - 1])
  BY <1>6
<1>. QED
  BY <1>1, <1>7 DEF n, start

LEMMA MinimumIsLeast ==
    ASSUME ScanInv, NEW open \in Seq(Nat), open # <<>>, ToSet(open) \subseteq DOMAIN rows
    PROVE  /\ \E i \in ToSet(open) : MinimumPriority(open) = rows[i].priority
           /\ \A i \in ToSet(open) : MinimumPriority(open) <= rows[i].priority
<1>. DEFINE n == Len(open)
            p(j) == rows[open[j]].priority
<1>1. PICK minimum : /\ MinimumPriority(open) = minimum[n]
                     /\ \A k \in 1..n : minimum[k] = IF k = 1 THEN p(1)
                                                     ELSE LowerOf(minimum[k - 1], open, k)
  BY MinimumLoop
<1>2. n \in Nat \ {0} /\ \A k \in 1..n : open[k] \in ToSet(open)
  BY DEF ToSet
<1>3. \A k \in 1..n : p(k) \in Int
  BY <1>2, RowTypes
<1>4. \A k, m : LowerOf(m, open, k) = IF p(k) < m THEN p(k) ELSE m
  BY DEF LowerOf
<1>5. ToSet(open) = {open[k] : k \in 1..n}
  BY DEF ToSet
<1>. HIDE DEF n, p
<1>. DEFINE good == {k \in 1..n : /\ \E j \in 1..k : minimum[k] = p(j)
                                  /\ \A j \in 1..k : minimum[k] <= p(j)}
<1>6. 1 \in good
  <2>1. minimum[1] = p(1) /\ 1 \in 1..n /\ p(1) \in Int
    BY <1>1, <1>2, <1>3
  <2>2. \A j \in 1..1 : j = 1
    OBVIOUS
  <2>. QED
    BY <2>1, <2>2
<1>7. ASSUME NEW k \in 1..n, k \in good, k < n PROVE k + 1 \in good
  <2>. DEFINE old == minimum[k]
              new == minimum[k + 1]
  <2>1. k + 1 \in 1..n /\ (k + 1) - 1 = k /\ k + 1 # 1
    BY <1>2, <1>7
  <2>2. new = IF p(k + 1) < old THEN p(k + 1) ELSE old
    BY <1>1, <1>4, <2>1
  <2>3. PICK j \in 1..k : old = p(j)
    BY <1>7
  <2>4. (\A m \in 1..k : old <= p(m)) /\ old \in Int /\ p(k + 1) \in Int
    BY <1>2, <1>3, <1>7, <2>1, <2>3
  <2>5. \A m \in 1..(k + 1) : m \in 1..k \/ m = k + 1
    BY <2>1
  <2>6. 1..k \subseteq 1..(k + 1) /\ k + 1 \in 1..(k + 1) /\ \A m \in 1..k : p(m) \in Int
    BY <1>2, <1>3, <2>1
  <2>. HIDE DEF old, new
  <2>7. new <= old /\ new <= p(k + 1) /\ new \in {p(j), p(k + 1)} /\ new \in Int
    BY <2>2, <2>3, <2>4
  <2>8. \A m \in 1..(k + 1) : new <= p(m)
    BY <2>4, <2>5, <2>6, <2>7
  <2>9. \E m \in 1..(k + 1) : new = p(m)
    BY <2>6, <2>7
  <2>. QED
    BY <2>1, <2>8, <2>9 DEF new
<1>. HIDE DEF good
<1>8. \A k \in 1..n : k \in good
  <2>1. 1 \in Nat /\ n \in Nat
    BY <1>2
  <2>. QED
    BY <1>6, <1>7, <2>1, EveryTurn, Zenon
<1>9. n \in good
  BY <1>2, <1>8
<1>. QED
  BY <1>1, <1>5, <1>9 DEF good, p

LEMMA PriorityKept ==
    ASSUME ScanInv, NEW open \in Seq(Nat), Ascending(open), open # <<>>,
           ToSet(open) \subseteq DOMAIN rows
    PROVE  /\ PriorityScan(open) \in Seq(Nat) /\ Ascending(PriorityScan(open))
           /\ ToSet(PriorityScan(open)) = TopPriority(rows, ToSet(open))
           /\ TopPriority(rows, ToSet(open)) # {}
<1>. DEFINE least == MinimumPriority(open)
            best == {i \in DOMAIN rows : rows[i].priority = least}
            O == ToSet(open)
<1>1. PriorityScan(open) = Kept(open, best)
  BY DEF PriorityScan
<1>2. PICK i \in O : least = rows[i].priority
  BY MinimumIsLeast
<1>3. \A j \in O : least <= rows[j].priority /\ rows[j].priority \in Int
  BY MinimumIsLeast, RowTypes
<1>. HIDE DEF least
<1>4. O \cap best = TopPriority(rows, O)
  BY <1>2, <1>3 DEF TopPriority
<1>5. i \in O \cap best
  BY <1>2
<1>. HIDE DEF best
<1>. QED
  BY <1>1, <1>4, <1>5, KeptInOrder

(***************************************************************************)
(* Ratios compared by cross-multiplication are ordered: a/b <= c/d <= e/f  *)
(* gives a/b <= e/f, strictly when either is strict.                       *)
(***************************************************************************)
LEMMA Cancel ==
    ASSUME NEW x \in Nat, NEW y \in Nat, NEW d \in Nat \ {0}
    PROVE  /\ x * d <= y * d => x <= y
           /\ x * d < y * d => x < y
<1>1. ASSUME x > y PROVE x * d > y * d
  <2>1. (x - y) * d > 0
    BY <1>1, SMT
  <2>2. (x - y) * d = x * d - y * d
    BY SMT
  <2>3. x * d \in Int /\ y * d \in Int
    OBVIOUS
  <2>. QED
    BY <2>1, <2>2, <2>3
<1>2. x * d \in Int /\ y * d \in Int
  OBVIOUS
<1>3. x = y => x * d = y * d
  OBVIOUS
<1>. QED
  BY <1>1, <1>2, <1>3

LEMMA Scale ==
    ASSUME NEW x \in Nat, NEW y \in Nat, NEW d \in Nat \ {0}
    PROVE  /\ x <= y => x * d <= y * d
           /\ x < y => x * d < y * d
<1>1. ASSUME x < y PROVE x * d < y * d
  <2>1. (y - x) * d > 0
    BY <1>1, SMT
  <2>2. (y - x) * d = y * d - x * d
    BY SMT
  <2>3. x * d \in Int /\ y * d \in Int
    OBVIOUS
  <2>. QED
    BY <2>1, <2>2, <2>3
<1>2. x * d \in Int /\ y * d \in Int
  OBVIOUS
<1>3. x = y => x * d = y * d
  OBVIOUS
<1>. QED
  BY <1>1, <1>2, <1>3

LEMMA RatioOrder ==
    ASSUME NEW a \in Nat, NEW b \in Nat \ {0}, NEW c \in Nat, NEW d \in Nat \ {0},
           NEW e \in Nat, NEW f \in Nat \ {0}
    PROVE  /\ a * d <= c * b /\ c * f <= e * d => a * f <= e * b
           /\ a * d < c * b /\ c * f <= e * d => a * f < e * b
           /\ a * d <= c * b /\ c * f < e * d => a * f < e * b
<1>1. /\ a * d \in Nat /\ c * b \in Nat /\ c * f \in Nat /\ e * d \in Nat
      /\ a * f \in Nat /\ e * b \in Nat
  OBVIOUS
<1>2. /\ a * d <= c * b => (a * d) * f <= (c * b) * f
      /\ a * d < c * b => (a * d) * f < (c * b) * f
  BY <1>1, Scale
<1>3. /\ c * f <= e * d => (c * f) * b <= (e * d) * b
      /\ c * f < e * d => (c * f) * b < (e * d) * b
  BY <1>1, Scale
<1>4. /\ (a * d) * f = (a * f) * d /\ (c * b) * f = (c * f) * b
      /\ (e * d) * b = (e * b) * d
  BY SMT
<1>5. /\ (a * f) * d <= (e * b) * d => a * f <= e * b
      /\ (a * f) * d < (e * b) * d => a * f < e * b
  BY <1>1, Cancel
<1>. DEFINE p == (a * f) * d
            q == (c * f) * b
            r == (e * b) * d
<1>6. p \in Nat /\ q \in Nat /\ r \in Nat
  BY <1>1
<1>7. /\ a * d <= c * b => p <= q
      /\ a * d < c * b => p < q
      /\ c * f <= e * d => q <= r
      /\ c * f < e * d => q < r
      /\ p <= r => a * f <= e * b
      /\ p < r => a * f < e * b
  BY <1>2, <1>3, <1>4, <1>5
<1>. HIDE DEF p, q, r
<1>. QED
  BY <1>6, <1>7

\* What the loop over the best priority has found: available are, among the
\* rows seen, those whose ratio is the one to beat, and no row has less.
Ratios == [available : Seq(Nat), numerator : Nat, denominator : Nat \ {0}]

IsBest(best, seen) ==
    /\ best \in Ratios /\ Ascending(best.available)
    /\ best.available = <<>> => seen = {}
    /\ ToSet(best.available) =
         {i \in seen : InFlight(i) * best.denominator = best.numerator * rows[i].limit}
    /\ \A i \in seen : best.numerator * rows[i].limit <= InFlight(i) * best.denominator

LEMMA LoadStepTypes ==
    ASSUME NEW best \in Ratios, NEW i \in Nat, InFlight(i) \in Nat, rows[i].limit \in Nat \ {0}
    PROVE  LET left == InFlight(i) * best.denominator
               right == best.numerator * rows[i].limit
               new == LoadStep(best, i)
           IN  /\ new \in Ratios
               /\ best.available = <<>> \/ left < right
                  => /\ new.available = <<i>> /\ new.numerator = InFlight(i)
                     /\ new.denominator = rows[i].limit
               /\ best.available # <<>> /\ left = right
                  => /\ new.available = Append(best.available, i)
                     /\ new.numerator = best.numerator /\ new.denominator = best.denominator
               /\ best.available # <<>> /\ left > right => new = best
<1>. DEFINE left == InFlight(i) * best.denominator
            right == best.numerator * rows[i].limit
            alone == [available |-> <<i>>, numerator |-> InFlight(i), denominator |-> rows[i].limit]
            beside == [best EXCEPT !.available = Append(@, i)]
<1>1. left \in Nat /\ right \in Nat
  BY DEF Ratios
<1>2. /\ alone \in Ratios /\ alone.available = <<i>>
      /\ alone.numerator = InFlight(i) /\ alone.denominator = rows[i].limit
  BY DEF Ratios
<1>3. /\ beside \in Ratios /\ beside.available = Append(best.available, i)
      /\ beside.numerator = best.numerator /\ beside.denominator = best.denominator
  <2>. DEFINE longer == Append(best.available, i)
  <2>1. longer \in Seq(Nat) /\ beside = [best EXCEPT !.available = longer]
    BY DEF Ratios
  <2>. HIDE DEF longer, beside
  <2>2. /\ beside \in Ratios /\ beside.available = longer
        /\ beside.numerator = best.numerator /\ beside.denominator = best.denominator
    BY <2>1 DEF Ratios
  <2>. QED
    BY <2>2 DEF longer
<1>4. LoadStep(best, i) = IF best.available = <<>> \/ left < right THEN alone
                          ELSE IF left = right THEN beside ELSE best
  BY DEF LoadStep
<1>. HIDE DEF left, right, alone, beside
<1>5. /\ LoadStep(best, i) \in Ratios
      /\ best.available = <<>> \/ left < right => LoadStep(best, i) = alone
      /\ best.available # <<>> /\ left = right => LoadStep(best, i) = beside
      /\ best.available # <<>> /\ left > right => LoadStep(best, i) = best
  BY <1>1, <1>2, <1>3, <1>4
<1>. QED
  BY <1>2, <1>3, <1>5, Zenon DEF left, right

LEMMA LoadStepKeepsBest ==
    ASSUME ScanInv, NEW best, NEW seen, seen \subseteq DOMAIN rows, IsBest(best, seen),
           NEW x \in DOMAIN rows, \A y \in seen : y < x
    PROVE  IsBest(LoadStep(best, x), seen \cup {x})
<1>. DEFINE new == LoadStep(best, x)
            l(i) == InFlight(i)
            c(i) == rows[i].limit
            left == l(x) * best.denominator
            right == best.numerator * c(x)
<1>1. \A i \in DOMAIN rows : l(i) \in Nat /\ c(i) \in Nat \ {0} /\ i \in Nat
  BY RowTypes
<1>2. /\ best \in Ratios /\ best.available \in Seq(Nat)
      /\ best.numerator \in Nat /\ best.denominator \in Nat \ {0}
  BY DEF IsBest, Ratios
<1>3. left \in Nat /\ right \in Nat
  BY <1>1, <1>2
<1>4. /\ new \in Ratios
      /\ best.available = <<>> \/ left < right
         => new.available = <<x>> /\ new.numerator = l(x) /\ new.denominator = c(x)
      /\ best.available # <<>> /\ left = right
         => /\ new.available = Append(best.available, x)
            /\ new.numerator = best.numerator /\ new.denominator = best.denominator
      /\ best.available # <<>> /\ left > right => new = best
  <2>1. x \in Nat /\ InFlight(x) \in Nat /\ rows[x].limit \in Nat \ {0}
    BY <1>1
  <2>. QED
    BY <1>2, <2>1, LoadStepTypes, Zenon
<1>5. /\ \A i \in seen : best.numerator * c(i) <= l(i) * best.denominator
      /\ ToSet(best.available) = {i \in seen : l(i) * best.denominator = best.numerator * c(i)}
      /\ Ascending(best.available)
      /\ best.available = <<>> => seen = {}
  BY DEF IsBest
<1>6. x \notin seen
  BY <1>1
<1>7. CASE best.available = <<>> \/ left < right
  <2>1. \A i \in seen : l(x) * c(i) < l(i) * c(x)
    <3>1. ASSUME NEW i \in seen PROVE l(x) * c(i) < l(i) * c(x)
      <4>1. left < right
        BY <1>5, <1>7, Zenon
      <4>2. best.numerator * c(i) <= l(i) * best.denominator
        BY <1>5
      <4>. QED
        BY <1>1, <1>2, <4>1, <4>2, RatioOrder
    <3>. QED
      BY <3>1
  <2>2. \A i \in seen : l(x) * c(i) \in Nat /\ l(i) * c(x) \in Nat
    BY <1>1
  <2>3. l(x) * c(x) \in Nat
    BY <1>1
  <2>4. ToSet(<<x>>) = {x} /\ Ascending(<<x>>) /\ <<x>> # <<>>
    BY DEF ToSet, Ascending
  <2>5. new.available = <<x>> /\ new.numerator = l(x) /\ new.denominator = c(x)
    BY <1>4, <1>7
  <2>. HIDE DEF new, l, c
  <2>6. {i \in seen \cup {x} : l(i) * c(x) = l(x) * c(i)} = {x}
    BY <1>6, <2>1, <2>2, <2>3
  <2>7. \A i \in seen \cup {x} : l(x) * c(i) <= l(i) * c(x)
    BY <2>1, <2>2, <2>3
  <2>8. /\ ToSet(new.available) =
             {i \in seen \cup {x} : l(i) * new.denominator = new.numerator * c(i)}
        /\ \A i \in seen \cup {x} : new.numerator * c(i) <= l(i) * new.denominator
    BY <2>4, <2>5, <2>6, <2>7
  <2>. QED
    BY <1>4, <2>4, <2>5, <2>8 DEF IsBest, new, l, c
<1>8. CASE best.available # <<>> /\ left = right
  <2>1. /\ new.available = Append(best.available, x)
        /\ new.numerator = best.numerator /\ new.denominator = best.denominator
    BY <1>4, <1>8
  <2>2. \A y \in ToSet(best.available) : y < x
    BY <1>5
  <2>3. /\ Ascending(new.available) /\ new.available # <<>>
        /\ ToSet(new.available) = ToSet(best.available) \cup {x}
    <3>1. Append(best.available, x) # <<>>
      BY <1>1, <1>2
    <3>2. /\ Ascending(Append(best.available, x))
          /\ ToSet(Append(best.available, x)) = ToSet(best.available) \cup {x}
      BY <1>1, <1>2, <1>5, <2>2, AppendAscending
    <3>. QED
      BY <2>1, <3>1, <3>2, Zenon
  <2>4. \A i \in seen \cup {x} : best.numerator * c(i) <= l(i) * best.denominator
    BY <1>3, <1>5, <1>8
  <2>5. ToSet(new.available) =
          {i \in seen \cup {x} : l(i) * best.denominator = best.numerator * c(i)}
    BY <1>5, <1>8, <2>3
  <2>. HIDE DEF new, l, c
  <2>. QED
    BY <1>4, <2>1, <2>3, <2>4, <2>5 DEF IsBest, l, c, new
<1>9. CASE best.available # <<>> /\ left > right
  <2>1. new = best
    BY <1>4, <1>9
  <2>2. \A i \in seen \cup {x} : best.numerator * c(i) <= l(i) * best.denominator
    BY <1>3, <1>5, <1>9
  <2>3. left # right
    BY <1>3, <1>9
  <2>4. ToSet(best.available) =
          {i \in seen \cup {x} : l(i) * best.denominator = best.numerator * c(i)}
    BY <1>5, <2>3
  <2>. HIDE DEF new, l, c
  <2>. QED
    BY <1>2, <1>5, <1>9, <2>1, <2>2, <2>4 DEF IsBest, l, c, new
<1>. QED
  BY <1>3, <1>7, <1>8, <1>9

NothingFound == [available |-> <<>>, numerator |-> 0, denominator |-> 1]

LEMMA LoadLoop ==
    ASSUME ScanInv, NEW top \in Seq(Nat), ToSet(top) \subseteq DOMAIN rows
    PROVE  \E best : /\ LoadScan(top) = best[Len(top)].available
                     /\ \A k \in 0..Len(top) :
                          best[k] = IF k = 0 THEN NothingFound ELSE LoadStep(best[k - 1], top[k])
<1>. DEFINE n == Len(top)
            next(k, previous) == IF k = 0 THEN NothingFound ELSE LoadStep(previous, top[k])
            solves(f) == f = [k \in 0..n |-> next(k, f[k - 1])]
            best == CHOOSE f : solves(f)
<1>1. LoadScan(top) = best[n].available
  BY DEF LoadScan, NothingFound
<1>2. n \in Nat /\ \A k \in 1..n : top[k] \in ToSet(top)
  BY DEF ToSet
<1>3. \A k \in 1..n : /\ top[k] \in Nat /\ InFlight(top[k]) \in Nat
                      /\ rows[top[k]].limit \in Nat \ {0}
  BY <1>2, RowTypes
<1>. HIDE DEF n
<1>4. \E f : solves(f)
  <2>. DEFINE step == [turn \in ((0 + 1)..n) \X Ratios |-> LoadStep(turn[2], top[turn[1]])]
  <2>1. \A k \in 1..n, m \in Ratios : LoadStep(m, top[k]) \in Ratios
    BY <1>3, LoadStepTypes, Zenon
  <2>2. step \in [((0 + 1)..n) \X Ratios -> Ratios]
    BY <2>1
  <2>3. 0 \in Nat /\ 0 <= n
    BY <1>2
  <2>4. \A k \in 1..n, m \in Ratios : step[<<k, m>>] = LoadStep(m, top[k])
    OBVIOUS
  <2>5. NothingFound \in Ratios
    BY DEF NothingFound, Ratios
  <2>. HIDE DEF step
  <2>6. PICK f \in [0..n -> Ratios] : Runs(f, NothingFound, step, 0, n)
    BY <1>2, <2>2, <2>3, <2>5, LoopExists, Zenon
  <2>7. \A k \in 0..n : k # 0 => f[k - 1] \in Ratios /\ k \in 1..n
    BY <1>2
  <2>8. \A k \in 0..n : f[k] = next(k, f[k - 1])
    BY <2>4, <2>6, <2>7, Zenon DEF Runs
  <2>. HIDE DEF next
  <2>9. f = [k \in 0..n |-> next(k, f[k - 1])]
    BY <2>8
  <2>. QED
    BY <2>9
<1>5. solves(best)
  BY <1>4
<1>6. \A k \in 0..n : best[k] = next(k, best[k - 1])
  BY <1>5
<1>. QED
  BY <1>1, <1>6 DEF n

LEMMA LoadKept ==
    ASSUME ScanInv, NEW top \in Seq(Nat), Ascending(top), ToSet(top) \subseteq DOMAIN rows
    PROVE  \E best : IsBest(best, ToSet(top)) /\ LoadScan(top) = best.available
<1>. DEFINE n == Len(top)
<1>1. PICK best : /\ LoadScan(top) = best[n].available
                  /\ \A k \in 0..n :
                       best[k] = IF k = 0 THEN NothingFound ELSE LoadStep(best[k - 1], top[k])
  BY LoadLoop
<1>2. n \in Nat
  OBVIOUS
<1>. HIDE DEF n
<1>. DEFINE good == {k \in 0..n : IsBest(best[k], Upto(top, k))}
<1>3. 0 \in good
  <2>1. best[0] = NothingFound /\ Upto(top, 0) = {} /\ 0 \in 0..n
    BY <1>1, <1>2, UptoAll
  <2>2. IsBest(NothingFound, {})
    BY DEF IsBest, NothingFound, Ratios, Ascending, ToSet
  <2>. QED
    BY <2>1, <2>2
<1>4. ASSUME NEW k \in 0..n, k \in good, k < n PROVE k + 1 \in good
  <2>. DEFINE x == top[k + 1]
              seen == Upto(top, k)
  <2>1. k + 1 \in 1..n /\ k + 1 \in 0..n /\ (k + 1) - 1 = k /\ k + 1 # 0 /\ 1..k \subseteq 1..n
    BY <1>2, <1>4
  <2>2. best[k + 1] = LoadStep(best[k], x)
    BY <1>1, <2>1
  <2>3. Upto(top, k + 1) = seen \cup {x} /\ \A y \in seen : y < x
    BY <1>4, UptoNext DEF n
  <2>4. x \in DOMAIN rows /\ seen \subseteq DOMAIN rows
    BY <2>1 DEF Upto, ToSet, n
  <2>. HIDE DEF x, seen
  <2>5. IsBest(best[k], seen)
    BY <1>4 DEF seen
  <2>6. IsBest(LoadStep(best[k], x), seen \cup {x})
    BY <2>3, <2>4, <2>5, LoadStepKeepsBest
  <2>. QED
    BY <2>1, <2>2, <2>3, <2>6
<1>. HIDE DEF good
<1>5. \A k \in 0..n : k \in good
  BY <1>2, <1>3, <1>4, EveryTurn, Zenon
<1>6. n \in good /\ Upto(top, n) = ToSet(top)
  BY <1>2, <1>5, UptoAll DEF n
<1>. QED
  BY <1>1, <1>6 DEF good

\* The rows with the ratio to beat are the least loaded ones.
LEMMA BestIsLeastLoaded ==
    ASSUME ScanInv, NEW best, NEW top, top \subseteq DOMAIN rows, top # {}, IsBest(best, top)
    PROVE  ToSet(best.available) = LeastLoaded(rows, top, load)
<1>. DEFINE l(i) == InFlight(i)
            c(i) == rows[i].limit
            N == best.numerator
            D == best.denominator
<1>1. \A i \in DOMAIN rows : l(i) \in Nat /\ c(i) \in Nat \ {0} /\ l(i) = load[rows[i].account]
  BY RowTypes
<1>2. N \in Nat /\ D \in Nat \ {0} /\ best.available \in Seq(Nat)
  BY DEF IsBest, Ratios
<1>3. /\ ToSet(best.available) = {i \in top : l(i) * D = N * c(i)}
      /\ \A i \in top : N * c(i) <= l(i) * D
  BY DEF IsBest
<1>4. PICK a \in top : l(a) * D = N * c(a)
  <2>1. best.available # <<>>
    BY DEF IsBest
  <2>2. best.available[1] \in ToSet(best.available)
    BY <1>2, <2>1 DEF ToSet
  <2>. QED
    BY <1>3, <2>2
<1>5. LeastLoaded(rows, top, load) = {i \in top : \A j \in top : l(i) * c(j) <= l(j) * c(i)}
  BY <1>1 DEF LeastLoaded
<1>6. \A i \in top : l(i) * D \in Nat /\ N * c(i) \in Nat
  BY <1>1, <1>2
<1>. HIDE DEF l, c, N, D
<1>7. ASSUME NEW i \in top, l(i) * D = N * c(i), NEW j \in top
      PROVE  l(i) * c(j) <= l(j) * c(i)
  <2>1. l(i) * D <= N * c(i) /\ N * c(j) <= l(j) * D
    BY <1>3, <1>6, <1>7
  <2>2. /\ l(i) \in Nat /\ c(i) \in Nat \ {0}
        /\ l(j) \in Nat /\ c(j) \in Nat \ {0}
    BY <1>1
  <2>. QED
    BY <1>2, <2>1, <2>2, RatioOrder
<1>8. ASSUME NEW i \in top, \A j \in top : l(i) * c(j) <= l(j) * c(i)
      PROVE  l(i) * D = N * c(i)
  <2>1. l(i) * c(a) <= l(a) * c(i) /\ l(a) * D <= N * c(a)
    BY <1>4, <1>6, <1>8
  <2>2. /\ l(i) \in Nat /\ c(i) \in Nat \ {0}
        /\ l(a) \in Nat /\ c(a) \in Nat \ {0}
    BY <1>1
  <2>3. l(i) * D <= N * c(i)
    BY <1>2, <2>1, <2>2, RatioOrder
  <2>. QED
    BY <1>3, <1>6, <2>3
<1>. QED
  BY <1>3, <1>5, <1>7, <1>8

(***************************************************************************)
(* In an ascending sequence the element at k + 1 has k smaller ones.       *)
(***************************************************************************)
LEMMA AscendingCounts ==
    ASSUME NEW s \in Seq(Nat), Ascending(s), NEW k \in 0..Len(s)
    PROVE  IsFiniteSet(Upto(s, k)) /\ Cardinality(Upto(s, k)) = k
<1>. DEFINE count == [j \in 1..k |-> s[j]]
            U == Upto(s, k)
<1>1. k \in Nat /\ \A j \in 1..k : j \in 1..Len(s)
  OBVIOUS
<1>2. \A i, j \in 1..k : s[i] = s[j] => i = j
  <2>. SUFFICES ASSUME NEW i \in 1..k, NEW j \in 1..k, s[i] = s[j], i # j PROVE FALSE
    OBVIOUS
  <2>1. s[i] \in Nat /\ s[j] \in Nat /\ (i < j => s[i] < s[j]) /\ (j < i => s[j] < s[i])
    BY <1>1 DEF Ascending
  <2>. QED
    BY <2>1
<1>3. count \in [1..k -> U] /\ \A j \in 1..k : count[j] = s[j]
  BY DEF Upto
<1>4. \A u \in U : \E j \in 1..k : count[j] = u
  BY <1>3 DEF Upto
<1>. HIDE DEF count, U
<1>5. count \in Bijection(1..k, U)
  BY <1>2, <1>3, <1>4 DEF Bijection, Injection, Surjection, IsInjective
<1>6. ExistsBijection(1..k, U)
  BY <1>5 DEF ExistsBijection
<1>7. IsFiniteSet(1..k) /\ Cardinality(1..k) = k
  <2>1. 1 \in Int /\ k \in Int /\ (1 > k => k = 0)
    BY <1>1
  <2>2. IsFiniteSet(1..k) /\ Cardinality(1..k) = IF 1 > k THEN 0 ELSE k - 1 + 1
    BY <2>1, FS_Interval
  <2>. QED
    BY <1>1, <2>1, <2>2
<1>. QED
  BY <1>6, <1>7, FS_Bijection DEF U

LEMMA PickOfAscending ==
    ASSUME NEW s \in Seq(Nat), Ascending(s), s # <<>>, NEW cursor \in Nat
    PROVE  PickedBy(cursor, ToSet(s), s[(cursor % Len(s)) + 1])
<1>. DEFINE n == Len(s)
            k == cursor % n
            below == {j \in ToSet(s) : j < s[k + 1]}
<1>1. n \in Nat \ {0}
  OBVIOUS
<1>2. k \in 0..(n - 1)
  BY <1>1
<1>. HIDE DEF k
<1>3. k \in 0..n /\ k < n /\ n \in 0..n /\ k + 1 \in 1..n
  BY <1>1, <1>2
<1>4. Cardinality(ToSet(s)) = n
  BY <1>3, AscendingCounts, UptoAll
<1>5. Cardinality(Upto(s, k)) = k
  BY <1>3, AscendingCounts
<1>6. below = Upto(s, k)
  <2>1. ToSet(s) = {s[j] : j \in 1..n}
    BY DEF ToSet
  <2>2. ASSUME NEW j \in 1..n PROVE s[j] < s[k + 1] <=> j \in 1..k
    <3>1. s[j] \in Nat /\ s[k + 1] \in Nat
      BY <1>3
    <3>2. (j < k + 1 => s[j] < s[k + 1]) /\ (k + 1 < j => s[k + 1] < s[j])
      BY <1>3 DEF Ascending
    <3>3. j < k + 1 <=> j \in 1..k
      BY <1>3
    <3>. QED
      BY <1>3, <3>1, <3>2, <3>3
  <2>3. 1..k \subseteq 1..n
    BY <1>3
  <2>. HIDE DEF n
  <2>. QED
    BY <2>1, <2>2, <2>3 DEF Upto
<1>. QED
  BY <1>4, <1>5, <1>6 DEF PickedBy, k

(***************************************************************************)
(* Whatever the table, the loads and the clock, the loop of Plan finds the *)
(* rows Scheduler chooses from, and for every cursor picks the same one.   *)
(***************************************************************************)
THEOREM LoopFindsTie == Spec => []ScanFindsTie
<1>1. RoutingInv => ScanFindsTie
  <2>. SUFFICES ASSUME RoutingInv PROVE ScanFindsTie
    OBVIOUS
  <2>. DEFINE open == WithCapacity(rows, Eligible, load)
              tie == Tie(rows, Eligible, load)
              scan == CapacityScan
              top == PriorityScan(scan)
              available == LoadScan(top)
  <2>1. ScanInv
    BY DEF RoutingInv
  <2>2. /\ scan \in Seq(Nat) /\ Ascending(scan) /\ ToSet(scan) = open
        /\ open \subseteq DOMAIN rows
    BY <2>1, CapacityKept
  <2>3. ASSUME open # {}
        PROVE  /\ ToSet(available) = tie
               /\ \A cursor \in 0..(2 * MaxRows) :
                    PickedBy(cursor, tie, available[(cursor % Len(available)) + 1])
    <3>1. tie = LeastLoaded(rows, TopPriority(rows, open), load)
      BY DEF Tie
    <3>. HIDE DEF open, tie, scan
    <3>2. scan # <<>>
      BY <2>2, <2>3 DEF ToSet
    <3>3. /\ top \in Seq(Nat) /\ Ascending(top) /\ ToSet(top) = TopPriority(rows, open)
          /\ ToSet(top) # {} /\ ToSet(top) \subseteq DOMAIN rows
      <4>1. TopPriority(rows, open) \subseteq open
        BY DEF TopPriority
      <4>. QED
        BY <2>1, <2>2, <3>2, <4>1, PriorityKept
    <3>. HIDE DEF top
    <3>4. PICK best : IsBest(best, ToSet(top)) /\ available = best.available
      BY <2>1, <3>3, LoadKept
    <3>. HIDE DEF available
    <3>5. ToSet(available) = tie
      BY <2>1, <3>1, <3>3, <3>4, BestIsLeastLoaded
    <3>6. available \in Seq(Nat) /\ Ascending(available) /\ available # <<>>
      BY <3>3, <3>4 DEF IsBest, Ratios
    <3>7. \A cursor \in 0..(2 * MaxRows) : cursor \in Nat
      BY ScanAssumption
    <3>. QED
      BY <3>5, <3>6, <3>7, PickOfAscending
  <2>. QED
    BY <2>2, <2>3, Zenon DEF ScanFindsTie
<1>. QED
  BY <1>1, RoutingInvariance, PTL
=============================================================================
