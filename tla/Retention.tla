------------------------------ MODULE Retention ------------------------------
(***************************************************************************)
(* The life of a request record after Enqueue: the writer of UsageWriter   *)
(* stores it, and usage.Retention folds it into the totals of its day once *)
(* it is older than the period of retention, batch by batch, each batch in *)
(* one transaction.  Sweeps run at the start of the process and once a     *)
(* day; they race the writer, the deletion of accounts and the end of the  *)
(* process.                                                                *)
(***************************************************************************)
EXTENDS UsageWriter

CONSTANTS
  StartedOn,      \* the day each event's request began
  Failures,       \* the events with a status of 400 or more
  Period,         \* days a record is kept
  CleanupSize,    \* records a batch folds at most
  LastDay         \* bound of the instance

ASSUME RetentionAssumption ==
  /\ IsFiniteSet(Events)
  /\ StartedOn \in [Events -> 0..LastDay]
  /\ Failures \subseteq Events
  /\ {Period, CleanupSize} \subseteq Nat \ {0}
  /\ LastDay \in Nat

VARIABLES
  day,        \* the clock
  sweep,      \* where Retention.Run is
  sweptOn,    \* the day of the last sweep; -1 when the process has just started
  daily       \* request_daily_aggregates

retention == <<day, sweep, sweptOn, daily>>
allVars == <<vars, retention>>

NoTotals == [requests |-> 0, errors |-> 0]

RetentionInit ==
  /\ Init
  /\ day = 0
  /\ sweep = "waiting"
  /\ sweptOn = -1
  /\ daily = [d \in 0..LastDay |-> NoTotals]

-----------------------------------------------------------------------------
\* dailyAggregate.add over the records of one day.
Aggregate(events) ==
  [requests |-> Cardinality(events), errors |-> Cardinality(events \cap Failures)]

\* upsertDailyAggregate adds to the row of the day.
Added(totals, more) ==
  [requests |-> totals.requests + more.requests, errors |-> totals.errors + more.errors]

BeginSweep ==
  /\ sweep # "sweeping"
  /\ sweptOn < day
  /\ sweep' = "sweeping"
  /\ sweptOn' = day
  /\ UNCHANGED <<vars, day, daily>>

\* Cleanup computes the cutoff once, when the sweep begins.
Cutoff == sweptOn - Period

Expired == {e \in stored : StartedOn[e] < Cutoff}

\* The oldest expired records, as many as a batch takes; rows of one day are
\* in the order of their row numbers, which is any order here.
Oldest(events) ==
  /\ events \subseteq Expired
  /\ Cardinality(events) = IF Cardinality(Expired) < CleanupSize
                           THEN Cardinality(Expired) ELSE CleanupSize
  /\ \A e \in events, f \in Expired \ events : StartedOn[e] <= StartedOn[f]

\* Mutant of AfterBatch: a full batch, too, is taken for the last.
AfterAnyBatch(events) == IF Cardinality(events) <= CleanupSize THEN "waiting" ELSE "sweeping"

\* A batch that is not full is the last of its sweep.
AfterBatch(events) == IF Cardinality(events) < CleanupSize THEN "waiting" ELSE "sweeping"

\* Mutant of Remaining: the row numbers are left out of the condition.
RemainingByStart(events) ==
  {e \in stored : \A f \in events : StartedOn[f] < StartedOn[e]}

\* The statement that deletes what was aggregated.
Remaining(events) == stored \ events

CleanupBatch(events) ==
  /\ sweep = "sweeping"
  /\ Oldest(events)
  /\ daily' = [d \in 0..LastDay |-> Added(daily[d], Aggregate({e \in events : StartedOn[e] = d}))]
  /\ stored' = Remaining(events)
  /\ sweep' = AfterBatch(events)
  /\ UNCHANGED <<call, early, writer, deleted, day, sweptOn>>

\* The transaction fails: the sweep is given up until the next day.
SweepFails ==
  /\ Faults
  /\ sweep = "sweeping"
  /\ sweep' = "aborted"
  /\ UNCHANGED <<vars, day, sweptOn, daily>>

InMemory == ToSet(queue) \cup ToSet(batch)

\* The process stops, cleanly or not, and starts anew: the events the writer
\* had not stored are as if they had been refused, and a sweep comes at once.
RestartProcess ==
  /\ sweptOn # -1
  /\ call' = [e \in Events |->
                IF call[e] \in {"checked", "direct"} \/ e \in InMemory THEN "refused"
                ELSE call[e]]
  /\ early' = {}
  /\ queue' = <<>> /\ batch' = <<>>
  /\ loop' = "select"
  /\ closed' = FALSE /\ stop' = FALSE /\ failed' = FALSE
  /\ sweep' = "aborted"
  /\ sweptOn' = -1
  /\ UNCHANGED <<stored, deleted, day, daily>>

NextDay ==
  /\ day < LastDay
  /\ day' = day + 1
  /\ UNCHANGED <<vars, sweep, sweptOn, daily>>

\* An event is handed in once its request has begun.
WriterStep ==
  /\ Next
  /\ \A e \in Events : call'[e] # call[e] => StartedOn[e] <= day
  /\ UNCHANGED retention

RetentionNext ==
  \/ WriterStep
  \/ BeginSweep
  \/ \E events \in SUBSET Expired : CleanupBatch(events)
  \/ SweepFails
  \/ RestartProcess
  \/ NextDay

RetentionSpec == RetentionInit /\ [][RetentionNext]_allVars

\* The fairness of UsageWriter; sweeps need none for what follows.
FairRetentionSpec ==
  /\ RetentionSpec
  /\ WF_vars(Run)
  /\ SF_vars(loop = "flushing" /\ Flush("select") /\ batch' = <<>>)

-----------------------------------------------------------------------------
RetentionTypeOK ==
  /\ TypeOK
  /\ day \in 0..LastDay
  /\ sweep \in {"waiting", "sweeping", "aborted"}
  /\ sweptOn \in -1..LastDay
  /\ daily \in [0..LastDay -> [requests : Nat, errors : Nat]]

AcceptedOn(d) == {e \in Events : call[e] = "accepted" /\ StartedOn[e] = d}

(***************************************************************************)
(* Every accepted event counts exactly once, through the queue, the batch, *)
(* the table and the totals of its day: it is in one place of the first    *)
(* three, and the totals are those of the accepted events that are in      *)
(* none, whatever writes, sweeps, failures and restarts interleave         *)
(* (Enqueue, run, cleanupBatch).                                           *)
(***************************************************************************)
LedgerBalances ==
  /\ \A e \in Events :
       Cardinality({i \in DOMAIN queue : queue[i] = e})
         + Cardinality({i \in DOMAIN batch : batch[i] = e})
         + Cardinality(stored \cap {e}) <= 1
  /\ \A d \in 0..LastDay :
       daily[d] = Aggregate(AcceptedOn(d) \ (InMemory \cup stored))

(***************************************************************************)
(* A sweep that reports no error leaves no record from before its cutoff,  *)
(* although it works in batches and the writer stores records meanwhile    *)
(* (Cleanup's loop).                                                       *)
(***************************************************************************)
SweepIsComplete ==
  [][sweep = "sweeping" /\ sweep' = "waiting"
       => \A e \in stored' : StartedOn[e] >= Cutoff]_allVars

(***************************************************************************)
(* As long as the writer is not closed, no account is deleted and faults   *)
(* pass, every accepted event leaves the memory of the process: retries    *)
(* come with the next event or tick (run's flush).                         *)
(***************************************************************************)
EventuallyWritten ==
  \A e \in Events : e \in InMemory ~> e \notin InMemory \/ closed \/ deleted # {}
=============================================================================
