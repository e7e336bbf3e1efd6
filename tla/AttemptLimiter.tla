---------------------------- MODULE AttemptLimiter ---------------------------
(***************************************************************************)
(* The limiter of login attempts (internal/auth/limiter.go): for every     *)
(* address and for all of them together, the admitted attempts, pruned as  *)
(* they are consulted and, once an hour, all at once.  The slices of the   *)
(* code are sets here, for the order in them decides nothing; attempts at  *)
(* the same time differ in their number.                                   *)
(*                                                                         *)
(* Login reads the clock before it asks for a slot and for the limiter's   *)
(* mutex, so the times with which Allow is called do not come in order: an *)
(* attempt arrives with a reading up to MaxDelay before now.               *)
(***************************************************************************)
EXTENDS Naturals, FiniteSets

CONSTANTS
  Addresses,                   \* client addresses
  Minute, Hour,                \* the two windows
  PerIPMinute, PerIPHour,      \* attempts of one address in each
  GlobalMinute, GlobalHour,    \* attempts of all of them in each
  MaxDelay,                    \* from the reading of the clock to the mutex
  MaxNow                       \* bound of the instance

ASSUME LimiterAssumption ==
  /\ {Minute, Hour, PerIPMinute, PerIPHour, GlobalMinute, GlobalHour} \subseteq Nat \ {0}
  /\ Minute < Hour
  /\ {MaxDelay, MaxNow} \subseteq Nat

VARIABLES
  now,        \* the clock
  byAddress,  \* the list of each address
  global,     \* the list of all attempts
  lastSweep,  \* the last sweep; 0 before the first attempt
  log         \* history: every attempt admitted

limiterVars == <<now, byAddress, global, lastSweep, log>>

LimiterInit ==
  /\ now = 1
  /\ byAddress = [a \in Addresses |-> {}]
  /\ global = {}
  /\ lastSweep = 0
  /\ log = {}

\* What an attempt that is admitted or refused now may have read.
Readings == {t \in 1..now : now <= t + MaxDelay}

\* The attempts no older than the window at the time t, those after t included.
Within(attempts, window, t) == {e \in attempts : e.at + window >= t}

\* hasCapacityLocked, on the list it has pruned.
HasCapacity(attempts, minuteLimit, hourLimit, t) ==
  /\ Cardinality(Within(attempts, Hour, t)) < hourLimit
  /\ Cardinality(Within(attempts, Minute, t)) < minuteLimit

SweepDue(t) == lastSweep # 0 /\ t >= lastSweep + Hour

\* The lists after sweepLocked; a consulted list is pruned in any case.
Swept(attempts, t) == IF SweepDue(t) THEN Within(attempts, Hour, t) ELSE attempts

\* A time before the last sweep takes its place as well.
SweepTime(t) == IF lastSweep = 0 \/ t < lastSweep \/ SweepDue(t) THEN t ELSE lastSweep

AddressAdmits(a, t) == HasCapacity(Swept(byAddress[a], t), PerIPMinute, PerIPHour, t)
GlobalAdmits(t) == HasCapacity(Swept(global, t), GlobalMinute, GlobalHour, t)

Admitted(a, t) == AddressAdmits(a, t) /\ GlobalAdmits(t)

Attempt(a, t) == [address |-> a, at |-> t, number |-> Cardinality(log) + 1]

\* Mutant of Allow: the global list counts an attempt the address refuses.
AllowCountingFirst(a, t) ==
  LET pruned == Within(byAddress[a], Hour, t)
      swept == [b \in Addresses |-> Swept(byAddress[b], t)]
      new == IF Admitted(a, t) THEN {Attempt(a, t)} ELSE {}
  IN /\ lastSweep' = SweepTime(t)
     /\ byAddress' = [swept EXCEPT ![a] = pruned \cup new]
     /\ global' = Within(global, Hour, t) \cup IF GlobalAdmits(t) THEN {Attempt(a, t)} ELSE {}
     /\ log' = log \cup new
     /\ UNCHANGED now

\* The global list is consulted, and so pruned, only when the address has room.
Allow(a, t) ==
  LET pruned == Within(byAddress[a], Hour, t)
      everyone == IF AddressAdmits(a, t) THEN Within(global, Hour, t) ELSE Swept(global, t)
      swept == [b \in Addresses |-> Swept(byAddress[b], t)]
      new == IF Admitted(a, t) THEN {Attempt(a, t)} ELSE {}
  IN /\ lastSweep' = SweepTime(t)
     /\ byAddress' = [swept EXCEPT ![a] = pruned \cup new]
     /\ global' = everyone \cup new
     /\ log' = log \cup new
     /\ UNCHANGED now

Passes ==
  /\ now < MaxNow
  /\ now' = now + 1
  /\ UNCHANGED <<byAddress, global, lastSweep, log>>

LimiterNext == Passes \/ \E a \in Addresses, t \in Readings : Allow(a, t)

LimiterSpec == LimiterInit /\ [][LimiterNext]_limiterVars

-----------------------------------------------------------------------------
\* Admitted attempts of the whole history in the window that ends at t.
InWindow(addresses, window, t) ==
  Cardinality({e \in log : e.address \in addresses /\ e.at + window >= t})

RoomInHistory(a, t) ==
  /\ InWindow({a}, Minute, t) < PerIPMinute
  /\ InWindow({a}, Hour, t) < PerIPHour
  /\ InWindow(Addresses, Minute, t) < GlobalMinute
  /\ InWindow(Addresses, Hour, t) < GlobalHour

(***************************************************************************)
(* The pruned lists decide as the whole history would, as far as the order *)
(* of the clock's readings allows: an attempt that read t is admitted when *)
(* the attempts admitted before leave room in all four windows at t, and   *)
(* only when they leave room in the four windows at now.  So an attempt    *)
(* refused for one window used up nothing of the others, a sweep forgot    *)
(* nothing that still counts now, and an attempt whose reading is current  *)
(* is admitted exactly when there is room; an earlier reading may profit   *)
(* from what later ones pruned (auth/service.go Login, limiter.go Allow).  *)
(***************************************************************************)
AdmittedByHistory ==
  \A a \in Addresses, t \in Readings :
    /\ RoomInHistory(a, t) => Admitted(a, t)
    /\ Admitted(a, t) => RoomInHistory(a, now)
=============================================================================
