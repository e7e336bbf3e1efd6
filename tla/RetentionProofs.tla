--------------------------- MODULE RetentionProofs ----------------------------
(***************************************************************************)
(* Theorems about Retention, and with it about the UsageWriter it extends: *)
(* for any number of events, any sizes of the queue, the batches and the   *)
(* sweeps, every accepted event counts once, a clean shutdown stores what  *)
(* was accepted before it, and a clean sweep leaves nothing that is due.   *)
(***************************************************************************)
EXTENDS Retention, FiniteSetTheorems, TLAPS

Distinct(s) == \A i, j \in DOMAIN s : s[i] = s[j] => i = j

\* Where an accepted event is, it is alone; and only accepted ones are anywhere.
HeldOnce ==
  /\ Distinct(queue) /\ Distinct(batch)
  /\ ToSet(queue) \cap ToSet(batch) = {}
  /\ InMemory \cap stored = {}
  /\ \A e \in InMemory \cup stored : call[e] = "accepted"

\* The events that only the totals still know.
Folded == {e \in Events : call[e] = "accepted" /\ e \notin InMemory \cup stored}

TotalsFit ==
  \A d \in 0..LastDay : daily[d] = Aggregate({e \in Folded : StartedOn[e] = d})

\* Once run is past its drain the early events have left the queue, for a
\* closed writer calls none early any more; and without an error the batch
\* has been written.
ShutdownSound ==
  /\ loop \in {"finishing", "done"} => early \cap ToSet(queue) = {}
  /\ loop = "done" /\ ~failed => batch = <<>>

RInv == RetentionTypeOK /\ HeldOnce /\ TotalsFit /\ ShutdownSound

-----------------------------------------------------------------------------
(***************************************************************************)
(* Sequences without repetition.                                           *)
(***************************************************************************)

\* A new element at the end: Send, Receive and Drain.
LEMMA Appending ==
  ASSUME NEW s \in Seq(Events), NEW e \in Events
  PROVE  /\ Append(s, e) \in Seq(Events) /\ Len(Append(s, e)) = Len(s) + 1
         /\ ToSet(Append(s, e)) = ToSet(s) \cup {e}
         /\ Distinct(s) /\ e \notin ToSet(s) => Distinct(Append(s, e))
<1>1. /\ Append(s, e) \in Seq(Events) /\ Len(Append(s, e)) = Len(s) + 1
      /\ DOMAIN s = 1..Len(s) /\ DOMAIN Append(s, e) = 1..(Len(s) + 1) /\ Len(s) \in Nat
      /\ \A i \in 1..Len(s) : Append(s, e)[i] = s[i]
      /\ Append(s, e)[Len(s) + 1] = e
  OBVIOUS
<1>2. ToSet(Append(s, e)) = ToSet(s) \cup {e}
  BY <1>1 DEF ToSet
<1>3. Distinct(s) /\ e \notin ToSet(s) => Distinct(Append(s, e))
  BY <1>1 DEF ToSet, Distinct
<1>4. QED
  BY <1>1, <1>2, <1>3

\* The first element taken out: Receive and Drain.
LEMMA Taking ==
  ASSUME NEW s \in Seq(Events), s # <<>>
  PROVE  /\ Head(s) \in Events /\ Tail(s) \in Seq(Events) /\ Len(Tail(s)) = Len(s) - 1
         /\ ToSet(s) = ToSet(Tail(s)) \cup {Head(s)}
         /\ Distinct(s) => Distinct(Tail(s)) /\ Head(s) \notin ToSet(Tail(s))
<1>1. /\ Head(s) \in Events /\ Tail(s) \in Seq(Events) /\ Len(Tail(s)) = Len(s) - 1
      /\ Len(s) \in Nat \ {0} /\ Head(s) = s[1]
      /\ DOMAIN s = 1..Len(s) /\ DOMAIN Tail(s) = 1..(Len(s) - 1)
      /\ \A i \in 1..(Len(s) - 1) : Tail(s)[i] = s[i + 1]
  OBVIOUS
<1>2. ToSet(s) = ToSet(Tail(s)) \cup {Head(s)}
  <2>1. ASSUME NEW i \in 1..Len(s) PROVE s[i] \in ToSet(Tail(s)) \cup {Head(s)}
    <3>1. CASE i = 1
      BY <1>1, <3>1
    <3>2. CASE i # 1
      <4>1. i - 1 \in 1..(Len(s) - 1) /\ (i - 1) + 1 = i
        BY <1>1, <3>2
      <4>2. QED
        BY <1>1, <4>1 DEF ToSet
    <3>3. QED
      BY <3>1, <3>2
  <2>2. \A i \in 1..(Len(s) - 1) : i + 1 \in 1..Len(s)
    BY <1>1
  <2>3. QED
    BY <1>1, <2>1, <2>2 DEF ToSet
<1>3. Distinct(s) => Distinct(Tail(s)) /\ Head(s) \notin ToSet(Tail(s))
  BY <1>1 DEF ToSet, Distinct
<1>4. QED
  BY <1>1, <1>2, <1>3

\* How often an event is in such a sequence.
LEMMA Places ==
  ASSUME NEW s \in Seq(Events), Distinct(s), NEW e
  PROVE  Cardinality({i \in DOMAIN s : s[i] = e}) = IF e \in ToSet(s) THEN 1 ELSE 0
<1>1. CASE e \in ToSet(s)
  <2>1. PICK i \in DOMAIN s : s[i] = e
    BY <1>1 DEF ToSet
  <2>2. {j \in DOMAIN s : s[j] = e} = {i}
    BY <2>1 DEF Distinct
  <2>3. QED
    BY <1>1, <2>2, FS_Singleton
<1>2. CASE e \notin ToSet(s)
  <2>1. {j \in DOMAIN s : s[j] = e} = {}
    BY <1>2 DEF ToSet
  <2>2. QED
    BY <1>2, <2>1, FS_EmptySet
<1>3. QED
  BY <1>1, <1>2

LEMMA EmptySequence == ToSet(<<>>) = {} /\ Distinct(<<>>) /\ <<>> \in Seq(Events)
BY DEF ToSet, Distinct

\* Sets of events can be counted.
LEMMA Counting ==
  ASSUME NEW E \in SUBSET Events
  PROVE  /\ IsFiniteSet(E) /\ Cardinality(E) \in Nat
         /\ Aggregate(E) \in [requests : Nat, errors : Nat]
<1>1. IsFiniteSet(E) /\ IsFiniteSet(E \cap Failures)
  BY RetentionAssumption, FS_Subset
<1>2. QED
  BY <1>1, FS_CardinalityType DEF Aggregate

\* Totals of disjoint sets add up.
LEMMA Adding ==
  ASSUME NEW E \in SUBSET Events, NEW F \in SUBSET Events, E \cap F = {}
  PROVE  Aggregate(E \cup F) = Added(Aggregate(E), Aggregate(F))
<1>1. ASSUME NEW A \in SUBSET Events, NEW B \in SUBSET Events, A \cap B = {}
      PROVE  Cardinality(A \cup B) = Cardinality(A) + Cardinality(B)
  <2>1. IsFiniteSet(A) /\ IsFiniteSet(B) /\ Cardinality(A) \in Nat /\ Cardinality(B) \in Nat
    BY Counting
  <2>2. QED
    BY <1>1, <2>1, FS_Union, FS_EmptySet
<1>2. Cardinality(E \cup F) = Cardinality(E) + Cardinality(F)
  BY <1>1
<1>3. (E \cup F) \cap Failures = (E \cap Failures) \cup (F \cap Failures)
  OBVIOUS
<1>4. Cardinality((E \cup F) \cap Failures)
        = Cardinality(E \cap Failures) + Cardinality(F \cap Failures)
  <2>1. (E \cap Failures) \cap (F \cap Failures) = {}
    OBVIOUS
  <2>2. QED
    BY <1>1, <1>3, <2>1
<1>5. QED
  BY <1>2, <1>4 DEF Aggregate, Added

-----------------------------------------------------------------------------
(***************************************************************************)
(* The steps of the writer.  Each leaves every event where it counts: what *)
(* moves, moves from one place to the next.                                *)
(***************************************************************************)
Steady == RetentionTypeOK' /\ HeldOnce' /\ Folded' = Folded /\ ShutdownSound'

LEMMA Located ==
  ASSUME RInv
  PROVE  /\ ToSet(queue) \subseteq Events /\ ToSet(batch) \subseteq Events
         /\ InMemory \subseteq Events
         /\ Len(queue) \in Nat /\ Capacity \in Nat
<1>1. queue \in Seq(Events) /\ batch \in Seq(Events)
  BY DEF RInv, RetentionTypeOK, TypeOK
<1>2. \A s \in Seq(Events) : ToSet(s) \subseteq Events /\ Len(s) \in Nat
  BY DEF ToSet
<1>3. QED
  BY <1>1, <1>2, WriterAssumption DEF InMemory

LEMMA EnqueueSteady ==
  ASSUME RInv, NEW e \in Events, Enqueue(e), UNCHANGED retention
  PROVE  Steady
<1>. USE DEF RInv, RetentionTypeOK, retention, writer
<1>1. CASE CheckOpen(e)
  <2>1. RetentionTypeOK'
    BY <1>1 DEF CheckOpen, TypeOK, Calls
  <2>2. e \notin InMemory \cup stored /\ InMemory' = InMemory
    BY <1>1 DEF CheckOpen, HeldOnce, InMemory
  <2>3. HeldOnce'
    BY <1>1, <2>2, Located DEF CheckOpen, HeldOnce, TypeOK
  <2>4. Folded' = Folded
    BY <1>1, <2>2 DEF CheckOpen, Folded, TypeOK
  <2>5. ShutdownSound'
    BY <1>1 DEF CheckOpen, ShutdownSound
  <2>6. QED
    BY <2>1, <2>3, <2>4, <2>5 DEF Steady
<1>2. CASE Send(e)
  <2>1. /\ queue' \in Seq(Events) /\ Len(queue') = Len(queue) + 1
        /\ ToSet(queue') = ToSet(queue) \cup {e}
        /\ e \notin ToSet(queue) => Distinct(queue')
    BY <1>2, Appending DEF Send, TypeOK, HeldOnce
  <2>2. RetentionTypeOK'
    BY <1>2, <2>1, Located DEF Send, TypeOK, Calls
  <2>3. e \notin InMemory \cup stored /\ InMemory' = InMemory \cup {e} /\ e \notin early
    BY <1>2, <2>1 DEF Send, HeldOnce, InMemory, TypeOK
  <2>4. HeldOnce'
    BY <1>2, <2>1, <2>3, Located DEF Send, HeldOnce, InMemory, TypeOK
  <2>5. Folded' = Folded
    BY <1>2, <2>3 DEF Send, Folded, TypeOK
  <2>6. ShutdownSound'
    BY <1>2, <2>1, <2>3 DEF Send, ShutdownSound, TypeOK
  <2>7. QED
    BY <2>2, <2>4, <2>5, <2>6 DEF Steady
<1>3. CASE WriteDirectly(e)
  <2>1. RetentionTypeOK'
    BY <1>3 DEF WriteDirectly, TypeOK, Calls
  <2>2. e \notin InMemory \cup stored /\ InMemory' = InMemory
    BY <1>3 DEF WriteDirectly, HeldOnce, InMemory
  <2>3. HeldOnce'
    BY <1>3, <2>2, Located DEF WriteDirectly, HeldOnce, TypeOK
  <2>4. Folded' = Folded
    BY <1>3, <2>2 DEF WriteDirectly, Folded, TypeOK
  <2>5. ShutdownSound'
    BY <1>3, <2>2 DEF WriteDirectly, ShutdownSound, TypeOK, InMemory
  <2>6. QED
    BY <2>1, <2>3, <2>4, <2>5 DEF Steady
<1>4. CASE FindFull(e)
  <2>1. RetentionTypeOK'
    BY <1>4 DEF FindFull, TypeOK, Calls
  <2>2. e \notin InMemory \cup stored /\ InMemory' = InMemory
    BY <1>4 DEF FindFull, HeldOnce, InMemory
  <2>3. HeldOnce'
    BY <1>4, <2>2, Located DEF FindFull, HeldOnce, TypeOK
  <2>4. Folded' = Folded
    BY <1>4, <2>2 DEF FindFull, Folded, TypeOK
  <2>5. ShutdownSound'
    BY <1>4 DEF FindFull, ShutdownSound
  <2>6. QED
    BY <2>1, <2>3, <2>4, <2>5 DEF Steady
<1>5. QED
  BY <1>1, <1>2, <1>3, <1>4 DEF Enqueue

\* The head of the queue moves to the end of the batch.
LEMMA Moving ==
  ASSUME RInv, queue # <<>>, batch' = Append(batch, Head(queue)), queue' = Tail(queue),
         UNCHANGED <<stored, call>>
  PROVE  /\ queue' \in Seq(Events) /\ Len(queue') <= Capacity /\ batch' \in Seq(Events)
         /\ ToSet(queue') \subseteq ToSet(queue)
         /\ HeldOnce' /\ Folded' = Folded
<1>1. /\ Head(queue) \in Events /\ queue' \in Seq(Events) /\ Len(queue') = Len(queue) - 1
      /\ ToSet(queue) = ToSet(queue') \cup {Head(queue)}
      /\ Distinct(queue') /\ Head(queue) \notin ToSet(queue')
  BY Taking DEF RInv, RetentionTypeOK, TypeOK, HeldOnce
<1>2. /\ batch' \in Seq(Events) /\ ToSet(batch') = ToSet(batch) \cup {Head(queue)}
      /\ Distinct(batch')
  BY <1>1, Appending DEF RInv, RetentionTypeOK, TypeOK, HeldOnce
<1>3. InMemory' = InMemory
  BY <1>1, <1>2 DEF InMemory
<1>4. Len(queue') <= Capacity
  BY <1>1, Located DEF RInv, RetentionTypeOK, TypeOK
<1>5. HeldOnce'
  BY <1>1, <1>2, <1>3 DEF RInv, HeldOnce
<1>6. Folded' = Folded
  BY <1>3 DEF Folded
<1>7. QED
  BY <1>1, <1>2, <1>4, <1>5, <1>6

LEMMA FlushSteady ==
  ASSUME RInv, UNCHANGED retention,
         \/ loop = "flushing" /\ Flush("select")
         \/ loop = "finishing" /\ Flush("done")
  PROVE  Steady
<1>. USE DEF RInv, RetentionTypeOK, retention, writer
<1>1. CASE stored' = stored \cup ToSet(batch) /\ batch' = <<>>
  <2>1. ToSet(batch) \subseteq Events
    BY Located
  <2>2. RetentionTypeOK'
    BY <1>1, <2>1, EmptySequence DEF Flush, TypeOK, Loops
  <2>3. InMemory' \cup stored' = InMemory \cup stored
    BY <1>1, EmptySequence DEF Flush, InMemory
  <2>4. HeldOnce'
    BY <1>1, <2>3, EmptySequence DEF Flush, HeldOnce, InMemory
  <2>5. Folded' = Folded
    BY <2>3 DEF Flush, Folded
  <2>6. ShutdownSound'
    BY <1>1 DEF Flush, ShutdownSound
  <2>7. QED
    BY <2>2, <2>4, <2>5, <2>6 DEF Steady
<1>2. CASE failed' = TRUE /\ UNCHANGED <<stored, batch>>
  <2>1. RetentionTypeOK'
    <3>1. loop' \in Loops /\ (loop' \in {"draining", "finishing", "done"} => stop)
      BY <1>2 DEF Flush, TypeOK, Loops
    <3>2. failed' \in BOOLEAN
      BY <1>2
    <3>3. UNCHANGED <<call, early, queue, batch, closed, stop, stored, deleted>>
      BY <1>2 DEF Flush
    <3>4. TypeOK'
      BY <3>1, <3>2, <3>3 DEF TypeOK
    <3>5. QED
      BY <3>4
  <2>2. InMemory' = InMemory
    BY <1>2 DEF Flush, InMemory
  <2>3. HeldOnce' /\ Folded' = Folded
    BY <1>2, <2>2 DEF Flush, HeldOnce, Folded
  <2>4. ShutdownSound'
    BY <1>2 DEF Flush, ShutdownSound
  <2>5. QED
    BY <2>1, <2>3, <2>4 DEF Steady
<1>3. QED
  BY <1>1, <1>2 DEF Flush

LEMMA RunSteady ==
  ASSUME RInv, Run, UNCHANGED retention
  PROVE  Steady
<1>. USE DEF RInv, RetentionTypeOK, retention, writer
<1>1. CASE Receive
  <2>1. /\ queue' \in Seq(Events) /\ Len(queue') <= Capacity /\ batch' \in Seq(Events)
        /\ HeldOnce' /\ Folded' = Folded
    BY <1>1, Moving DEF Receive
  <2>2. RetentionTypeOK' /\ ShutdownSound'
    BY <1>1, <2>1 DEF Receive, TypeOK, Loops, ShutdownSound
  <2>3. QED
    BY <2>1, <2>2 DEF Steady
<1>2. CASE Tick \/ StartDraining
  <2>1. RetentionTypeOK' /\ ShutdownSound'
    BY <1>2 DEF Tick, StartDraining, TypeOK, Loops, ShutdownSound
  <2>2. HeldOnce' /\ Folded' = Folded
    BY <1>2 DEF Tick, StartDraining, HeldOnce, Folded, InMemory
  <2>3. QED
    BY <2>1, <2>2 DEF Steady
<1>3. CASE Drain /\ queue # <<>>
  <2>1. /\ queue' \in Seq(Events) /\ Len(queue') <= Capacity /\ batch' \in Seq(Events)
        /\ HeldOnce' /\ Folded' = Folded
    BY <1>3, Moving DEF Drain
  <2>2. RetentionTypeOK' /\ ShutdownSound'
    BY <1>3, <2>1 DEF Drain, TypeOK, Loops, ShutdownSound
  <2>3. QED
    BY <2>1, <2>2 DEF Steady
<1>4. CASE Drain /\ queue = <<>>
  <2>1. RetentionTypeOK' /\ ShutdownSound'
    BY <1>4, EmptySequence DEF Drain, TypeOK, Loops, ShutdownSound
  <2>2. HeldOnce' /\ Folded' = Folded
    BY <1>4 DEF Drain, HeldOnce, Folded, InMemory
  <2>3. QED
    BY <2>1, <2>2 DEF Steady
<1>5. QED
  BY <1>1, <1>2, <1>3, <1>4, FlushSteady DEF Run

LEMMA WriterSteady ==
  ASSUME RInv, Next, UNCHANGED retention
  PROVE  Steady
<1>. USE DEF RInv, RetentionTypeOK, retention, writer
<1>1. CASE Close
  <2>1. RetentionTypeOK' /\ ShutdownSound'
    BY <1>1 DEF Close, TypeOK, Loops, ShutdownSound
  <2>2. HeldOnce' /\ Folded' = Folded
    BY <1>1 DEF Close, HeldOnce, Folded, InMemory
  <2>3. QED
    BY <2>1, <2>2 DEF Steady
<1>2. ASSUME NEW a \in Accounts, DeleteAccount(a) PROVE Steady
  <2>1. RetentionTypeOK' /\ ShutdownSound'
    BY <1>2 DEF DeleteAccount, TypeOK, Loops, ShutdownSound
  <2>2. HeldOnce' /\ Folded' = Folded
    BY <1>2 DEF DeleteAccount, HeldOnce, Folded, InMemory
  <2>3. QED
    BY <2>1, <2>2 DEF Steady
<1>3. QED
  BY <1>1, <1>2, EnqueueSteady, RunSteady DEF Next

-----------------------------------------------------------------------------
(***************************************************************************)
(* The sweeps and the restart.                                             *)
(***************************************************************************)
LEMMA SteadyTotals ==
  ASSUME RInv, Folded' = Folded, daily' = daily
  PROVE  TotalsFit'
BY DEF RInv, TotalsFit

LEMMA BatchKeeps ==
  ASSUME RInv, NEW events \in SUBSET Expired, CleanupBatch(events)
  PROVE  RInv'
<1>1. /\ events \subseteq stored /\ stored' = stored \ events /\ events \subseteq Events
      /\ sweep' \in {"waiting", "sweeping"}
      /\ UNCHANGED <<call, early, writer, deleted, day, sweptOn>>
  BY DEF CleanupBatch, Remaining, Expired, AfterBatch, RInv, RetentionTypeOK, TypeOK
<1>2. InMemory' = InMemory
  BY <1>1 DEF writer, InMemory
<1>3. HeldOnce' /\ ShutdownSound'
  BY <1>1, <1>2 DEF RInv, HeldOnce, ShutdownSound, writer
<1>4. Folded' = Folded \cup events /\ Folded \cap events = {}
  BY <1>1, <1>2 DEF RInv, HeldOnce, Folded
<1>5. ASSUME NEW d \in 0..LastDay
      PROVE  /\ daily'[d] = Aggregate({e \in Folded' : StartedOn[e] = d})
             /\ daily'[d] \in [requests : Nat, errors : Nat]
  <2>. DEFINE old == {e \in Folded : StartedOn[e] = d}
              new == {e \in events : StartedOn[e] = d}
  <2>1. daily'[d] = Added(daily[d], Aggregate(new))
    BY DEF CleanupBatch
  <2>2. daily[d] = Aggregate(old)
    BY DEF RInv, TotalsFit
  <2>3. {e \in Folded' : StartedOn[e] = d} = old \cup new /\ old \cap new = {}
    BY <1>4
  <2>4. old \in SUBSET Events /\ new \in SUBSET Events
    BY <1>1 DEF Folded
  <2>5. Aggregate(old \cup new) = Added(Aggregate(old), Aggregate(new))
    BY <2>3, <2>4, Adding
  <2>6. Aggregate(old \cup new) \in [requests : Nat, errors : Nat]
    BY <2>4, Counting
  <2>7. QED
    BY <2>1, <2>2, <2>3, <2>5, <2>6
<1>6. TotalsFit'
  BY <1>5 DEF TotalsFit
<1>7. daily' \in [0..LastDay -> [requests : Nat, errors : Nat]]
  BY <1>5 DEF CleanupBatch
<1>8. TypeOK'
  BY <1>1 DEF RInv, RetentionTypeOK, TypeOK, writer
<1>9. RetentionTypeOK'
  BY <1>1, <1>7, <1>8 DEF RInv, RetentionTypeOK
<1>10. QED
  BY <1>3, <1>6, <1>9 DEF RInv

LEMMA RestartKeeps ==
  ASSUME RInv, RestartProcess
  PROVE  RInv'
<1>. USE DEF RestartProcess
<1>1. RetentionTypeOK'
  <2>1. call' \in [Events -> Calls]
    BY DEF RInv, RetentionTypeOK, TypeOK, Calls
  <2>2. queue' \in Seq(Events) /\ Len(queue') <= Capacity /\ batch' \in Seq(Events)
    BY Located, EmptySequence
  <2>3. TypeOK'
    BY <2>1, <2>2 DEF RInv, RetentionTypeOK, TypeOK, Loops
  <2>4. -1 \in -1..LastDay
    BY RetentionAssumption
  <2>5. QED
    BY <2>3, <2>4 DEF RInv, RetentionTypeOK
<1>2. InMemory' = {}
  BY EmptySequence DEF InMemory
<1>3. HeldOnce'
  BY <1>2, EmptySequence DEF RInv, HeldOnce, RetentionTypeOK, TypeOK
<1>4. Folded' = Folded
  BY <1>2 DEF RInv, HeldOnce, Folded, RetentionTypeOK, TypeOK
<1>5. ShutdownSound'
  BY DEF ShutdownSound
<1>6. QED
  BY <1>1, <1>3, <1>4, <1>5, SteadyTotals DEF RInv

\* The sweeps that begin or give up, and the clock.
LEMMA ClockKeeps ==
  ASSUME RInv, BeginSweep \/ SweepFails \/ NextDay
  PROVE  RInv'
<1>. USE DEF BeginSweep, SweepFails, NextDay, vars, writer
<1>1. UNCHANGED <<vars, daily>>
  OBVIOUS
<1>2. HeldOnce' /\ ShutdownSound' /\ Folded' = Folded
  BY <1>1 DEF RInv, HeldOnce, ShutdownSound, Folded, InMemory
<1>3. TypeOK'
  BY <1>1 DEF RInv, RetentionTypeOK, TypeOK
<1>4. day' \in 0..LastDay /\ sweptOn' \in -1..LastDay
  BY RetentionAssumption DEF RInv, RetentionTypeOK
<1>5. RetentionTypeOK'
  BY <1>3, <1>4 DEF RInv, RetentionTypeOK
<1>6. QED
  BY <1>1, <1>2, <1>5, SteadyTotals DEF RInv

LEMMA RetentionInitInvariant == RetentionInit => RInv
<1>. SUFFICES ASSUME RetentionInit PROVE RInv
  OBVIOUS
<1>. USE DEF RetentionInit, Init
<1>1. RetentionTypeOK
  <2>1. -1 \in -1..LastDay /\ 0 \in 0..LastDay /\ Len(<<>>) <= Capacity
    BY RetentionAssumption, WriterAssumption
  <2>2. TypeOK
    BY <2>1, EmptySequence DEF TypeOK, Calls, Loops
  <2>3. QED
    BY <2>1, <2>2 DEF RetentionTypeOK, NoTotals
<1>2. InMemory = {}
  BY EmptySequence DEF InMemory
<1>3. HeldOnce
  BY <1>2, EmptySequence DEF HeldOnce
<1>4. Folded = {}
  BY DEF Folded
<1>5. TotalsFit
  BY <1>4, FS_EmptySet DEF TotalsFit, Aggregate, NoTotals
<1>6. ShutdownSound
  BY DEF ShutdownSound
<1>7. QED
  BY <1>1, <1>3, <1>5, <1>6 DEF RInv

LEMMA RetentionNextInvariant == RInv /\ [RetentionNext]_allVars => RInv'
<1>. SUFFICES ASSUME RInv, [RetentionNext]_allVars PROVE RInv'
  OBVIOUS
<1>1. CASE WriterStep
  <2>1. Steady /\ daily' = daily
    BY <1>1, WriterSteady DEF WriterStep, retention
  <2>2. QED
    BY <2>1, SteadyTotals DEF Steady, RInv
<1>2. CASE UNCHANGED allVars
  BY <1>2 DEF allVars, vars, writer, retention, RInv, RetentionTypeOK, TypeOK, HeldOnce,
              TotalsFit, Folded, InMemory, ShutdownSound
<1>3. QED
  BY <1>1, <1>2, BatchKeeps, RestartKeeps, ClockKeeps DEF RetentionNext

-----------------------------------------------------------------------------
(***************************************************************************)
(* The inductive invariant holds: an event is in one place, the totals are *)
(* those of the events that are in none, and the shutdown empties first    *)
(* the queue, then the batch (run, Close, cleanupBatch).                   *)
(***************************************************************************)
THEOREM RecordsAreSound == RetentionSpec => []RInv
BY RetentionInitInvariant, RetentionNextInvariant, PTL DEF RetentionSpec

(***************************************************************************)
(* The records and the writer stay well typed for any number of events     *)
(* (usage.Writer, usage.Retention).                                        *)
(***************************************************************************)
THEOREM TypeCorrect == RetentionSpec => []RetentionTypeOK
<1>1. RInv => RetentionTypeOK
  BY DEF RInv
<1>2. QED
  BY <1>1, RecordsAreSound, PTL

(***************************************************************************)
(* Every accepted event counts once, whatever writes, sweeps, failures and *)
(* restarts interleave (Enqueue, run, cleanupBatch).                       *)
(***************************************************************************)
THEOREM EventsCountOnce == RetentionSpec => []LedgerBalances
<1>1. ASSUME RInv PROVE LedgerBalances
  <2>1. queue \in Seq(Events) /\ batch \in Seq(Events)
    BY <1>1 DEF RInv, RetentionTypeOK, TypeOK
  <2>2. ASSUME NEW e \in Events
        PROVE  Cardinality({i \in DOMAIN queue : queue[i] = e})
                 + Cardinality({i \in DOMAIN batch : batch[i] = e})
                 + Cardinality(stored \cap {e}) <= 1
    <3>1. /\ Cardinality({i \in DOMAIN queue : queue[i] = e}) = IF e \in ToSet(queue) THEN 1 ELSE 0
          /\ Cardinality({i \in DOMAIN batch : batch[i] = e}) = IF e \in ToSet(batch) THEN 1 ELSE 0
      BY <1>1, <2>1, Places DEF RInv, HeldOnce
    <3>2. Cardinality(stored \cap {e}) = IF e \in stored THEN 1 ELSE 0
      <4>1. stored \cap {e} = IF e \in stored THEN {e} ELSE {}
        OBVIOUS
      <4>2. QED
        BY <4>1, FS_Singleton, FS_EmptySet
    <3>3. /\ ~(e \in ToSet(queue) /\ e \in ToSet(batch))
          /\ ~(e \in ToSet(queue) /\ e \in stored)
          /\ ~(e \in ToSet(batch) /\ e \in stored)
      BY <1>1 DEF RInv, HeldOnce, InMemory
    <3>4. QED
      BY <3>1, <3>2, <3>3
  <2>3. ASSUME NEW d \in 0..LastDay
        PROVE  daily[d] = Aggregate(AcceptedOn(d) \ (InMemory \cup stored))
    <3>1. AcceptedOn(d) \ (InMemory \cup stored) = {e \in Folded : StartedOn[e] = d}
      BY DEF AcceptedOn, Folded
    <3>2. QED
      BY <1>1, <3>1 DEF RInv, TotalsFit
  <2>4. QED
    BY <2>2, <2>3 DEF LedgerBalances
<1>2. QED
  BY <1>1, RecordsAreSound, PTL

(***************************************************************************)
(* A shutdown without an error leaves nothing in memory of what was        *)
(* accepted before it began (Close, run's last flush).                     *)
(***************************************************************************)
THEOREM CleanClose == RetentionSpec => []CleanCloseStoresEarly
<1>1. RInv => CleanCloseStoresEarly
  BY EmptySequence DEF RInv, ShutdownSound, CleanCloseStoresEarly
<1>2. QED
  BY <1>1, RecordsAreSound, PTL

(***************************************************************************)
(* A sweep that ends without an error leaves no record from before its     *)
(* cutoff, although the writer stores records meanwhile (Cleanup's loop).  *)
(***************************************************************************)
THEOREM SweepComplete == RetentionSpec => SweepIsComplete
<1>1. ASSUME RInv, [RetentionNext]_allVars, sweep = "sweeping", sweep' = "waiting"
      PROVE  \A e \in stored' : StartedOn[e] >= Cutoff
  <2>1. PICK events \in SUBSET Expired : CleanupBatch(events)
    BY <1>1 DEF RetentionNext, WriterStep, BeginSweep, SweepFails, RestartProcess, NextDay,
                allVars, retention
  <2>2. /\ stored \subseteq Events /\ sweptOn \in Int
        /\ \A e \in Events : StartedOn[e] \in Int
        /\ Period \in Nat /\ CleanupSize \in Nat
    BY <1>1, RetentionAssumption DEF RInv, RetentionTypeOK, TypeOK
  <2>3. Expired \subseteq Events
    BY <2>2 DEF Expired
  <2>4. IsFiniteSet(Expired) /\ Cardinality(Expired) \in Nat /\ Cardinality(events) \in Nat
    BY <2>3, Counting
  <2>5. Cardinality(events) < CleanupSize
    BY <1>1, <2>1 DEF CleanupBatch, AfterBatch
  <2>6. Cardinality(events) = Cardinality(Expired)
    BY <2>1, <2>2, <2>4, <2>5 DEF CleanupBatch, Oldest
  <2>7. events = Expired
    BY <2>4, <2>6, FS_Subset
  <2>8. stored' = stored \ Expired
    BY <2>1, <2>7 DEF CleanupBatch, Remaining
  <2>9. \A e \in stored' : e \in stored /\ ~(StartedOn[e] < Cutoff)
    BY <2>8 DEF Expired
  <2>10. Cutoff \in Int
    BY <2>2 DEF Cutoff
  <2>11. QED
    BY <2>2, <2>9, <2>10
<1>2. RInv /\ [RetentionNext]_allVars =>
        [sweep = "sweeping" /\ sweep' = "waiting"
           => \A e \in stored' : StartedOn[e] >= Cutoff]_allVars
  BY <1>1
<1>3. QED
  BY <1>2, RecordsAreSound, PTL DEF RetentionSpec, SweepIsComplete
=============================================================================
