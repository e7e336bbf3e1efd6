----------------------------- MODULE UsageWriter -----------------------------
(***************************************************************************)
(* usage.Writer: the requests that hand in their events (Enqueue), the     *)
(* goroutine that collects them into batches and writes each batch in one  *)
(* transaction (run, writeBatch), the shutdown (Close), and what the       *)
(* database may answer: a transaction fails now and then, and it always    *)
(* fails while it names an account that was deleted.                       *)
(***************************************************************************)
EXTENDS SequencesExt

CONSTANTS Events,              \* one per request
          Accounts,
          AccountOf,           \* the account each event names
          Capacity,            \* of the queue
          BatchSize,           \* events that make a batch go
          Faults,              \* may a transaction fail by itself
          Deletions            \* may accounts be deleted

ASSUME WriterAssumption ==
    /\ AccountOf \in [Events -> Accounts]
    /\ {Capacity, BatchSize} \subseteq Nat \ {0}

VARIABLES
    call,                      \* how far the Enqueue of each event is
    early,                     \* events accepted before Close
    queue, batch,              \* Writer.queue, run's batch
    loop,                      \* where run is
    closed, stop,              \* Writer.closed, Writer.stop is closed
    failed,                    \* Writer.err # nil
    stored,                    \* events in request_records
    deleted                    \* accounts no longer there

writer == <<queue, batch, loop, closed, stop, failed>>
vars == <<call, early, writer, stored, deleted>>

Calls == {"idle", "checked", "direct", "accepted", "refused"}
Loops == {"select", "flushing", "draining", "finishing", "done"}

Init ==
    /\ call = [e \in Events |-> "idle"]
    /\ early = {}
    /\ queue = <<>> /\ batch = <<>>
    /\ loop = "select"
    /\ closed = FALSE /\ stop = FALSE
    /\ failed = FALSE
    /\ stored = {}
    /\ deleted = {}

\* Foreign keys: every account a transaction names has to exist.
Writable(events) == \A e \in events : AccountOf[e] \notin deleted
-----------------------------------------------------------------------------
(***************************************************************************)
(* Enqueue: the check of closed, then the queue, or, when it is full, a    *)
(* transaction of its own.                                                 *)
(***************************************************************************)
CheckOpen(e) ==
    /\ call[e] = "idle"
    /\ call' = [call EXCEPT ![e] = IF closed THEN "refused" ELSE "checked"]
    /\ UNCHANGED <<early, writer, stored, deleted>>

Send(e) ==
    /\ call[e] = "checked"
    /\ Len(queue) < Capacity
    /\ call' = [call EXCEPT ![e] = "accepted"]
    /\ early' = IF closed THEN early ELSE early \cup {e}
    /\ queue' = Append(queue, e)
    /\ UNCHANGED <<batch, loop, closed, stop, failed, stored, deleted>>

\* select's default: by the time of the write the queue may have room again.
FindFull(e) ==
    /\ call[e] = "checked"
    /\ Len(queue) >= Capacity
    /\ call' = [call EXCEPT ![e] = "direct"]
    /\ UNCHANGED <<early, writer, stored, deleted>>

WriteDirectly(e) ==
    /\ call[e] = "direct"
    /\ \/ /\ Writable({e})
          /\ call' = [call EXCEPT ![e] = "accepted"]
          /\ early' = IF closed THEN early ELSE early \cup {e}
          /\ stored' = stored \cup {e}
       \/ /\ Faults \/ ~Writable({e})
          /\ call' = [call EXCEPT ![e] = "refused"]
          /\ UNCHANGED <<early, stored>>
    /\ UNCHANGED <<writer, deleted>>
-----------------------------------------------------------------------------
(***************************************************************************)
(* run.                                                                    *)
(***************************************************************************)
Receive ==
    /\ loop = "select" /\ queue # <<>>
    /\ batch' = Append(batch, Head(queue))
    /\ queue' = Tail(queue)
    /\ loop' = IF Len(batch') >= BatchSize THEN "flushing" ELSE "select"
    /\ UNCHANGED <<call, early, closed, stop, failed, stored, deleted>>

\* Mutant of Tick: only a full batch is written.
TickWaitsForMore == FALSE /\ UNCHANGED vars

\* The ticker; with an empty batch it does nothing.
Tick ==
    /\ loop = "select" /\ batch # <<>>
    /\ loop' = "flushing"
    /\ UNCHANGED <<call, early, queue, batch, closed, stop, failed, stored, deleted>>

\* All of the batch or nothing; what is not written stays in the batch.
Flush(next) ==
    /\ loop' = next
    /\ \/ /\ Writable(ToSet(batch))
          /\ stored' = stored \cup ToSet(batch)
          /\ batch' = <<>>
          /\ UNCHANGED failed
       \/ /\ batch # <<>> /\ (Faults \/ ~Writable(ToSet(batch)))
          /\ failed' = TRUE
          /\ UNCHANGED <<stored, batch>>
    /\ UNCHANGED <<call, early, queue, closed, stop, deleted>>

\* select takes any case that is ready: stop does not wait for the queue.
StartDraining ==
    /\ loop = "select" /\ stop
    /\ loop' = "draining"
    /\ UNCHANGED <<call, early, queue, batch, closed, stop, failed, stored, deleted>>

\* Mutant of Drain: the queue is not emptied.
DrainStopsAtOnce ==
    /\ loop = "draining"
    /\ loop' = "finishing"
    /\ UNCHANGED <<call, early, queue, batch, closed, stop, failed, stored, deleted>>

Drain ==
    /\ loop = "draining"
    /\ IF queue # <<>>
       THEN /\ batch' = Append(batch, Head(queue))
            /\ queue' = Tail(queue)
            /\ UNCHANGED loop
       ELSE /\ loop' = "finishing"
            /\ UNCHANGED <<queue, batch>>
    /\ UNCHANGED <<call, early, closed, stop, failed, stored, deleted>>

Run ==
    \/ Receive \/ Tick \/ StartDraining \/ Drain
    \/ loop = "flushing" /\ Flush("select")
    \/ loop = "finishing" /\ Flush("done")
-----------------------------------------------------------------------------
\* The flag first, then the channel.
Close ==
    /\ ~stop
    /\ closed' = TRUE
    /\ stop' = closed
    /\ UNCHANGED <<call, early, queue, batch, loop, failed, stored, deleted>>

\* ON DELETE RESTRICT: only an account without records can be deleted.
DeleteAccount(a) ==
    /\ Deletions
    /\ a \notin deleted
    /\ \A e \in stored : AccountOf[e] # a
    /\ deleted' = deleted \cup {a}
    /\ UNCHANGED <<call, early, writer, stored>>

Enqueue(e) == CheckOpen(e) \/ Send(e) \/ FindFull(e) \/ WriteDirectly(e)

Next ==
    \/ \E e \in Events : Enqueue(e)
    \/ Run
    \/ Close
    \/ \E a \in Accounts : DeleteAccount(a)

Spec == Init /\ [][Next]_vars

\* run goes on; faults pass, so a flush that is tried again and again
\* succeeds in the end.
FairSpec ==
    /\ Spec
    /\ WF_vars(Run)
    /\ SF_vars(loop = "flushing" /\ Flush("select") /\ batch' = <<>>)
-----------------------------------------------------------------------------
TypeOK ==
    /\ call \in [Events -> Calls]
    /\ early \subseteq {e \in Events : call[e] = "accepted"}
    /\ queue \in Seq(Events) /\ Len(queue) <= Capacity
    /\ batch \in Seq(Events)
    /\ loop \in Loops
    /\ closed \in BOOLEAN /\ stop \in BOOLEAN /\ failed \in BOOLEAN
    /\ stored \subseteq Events
    /\ deleted \subseteq Accounts
    /\ stop => closed
    /\ loop \in {"draining", "finishing", "done"} => stop

(***************************************************************************)
(* A shutdown that reports no error leaves nothing in memory of what was   *)
(* accepted before it began (Close, run's last flush).                     *)
(***************************************************************************)
CleanCloseStoresEarly ==
    loop = "done" /\ ~failed => early \cap (ToSet(queue) \cup ToSet(batch)) = {}
=============================================================================
