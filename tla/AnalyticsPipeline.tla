------------------------- MODULE AnalyticsPipeline -------------------------
(***************************************************************************)
(* The asynchronous analytics pipeline: threads that record redirect       *)
(* attempts, the bounded queue between them and the worker, the worker     *)
(* thread that persists batches with retries, and the thread that starts   *)
(* and stops the worker.  Every method of the queue is one critical        *)
(* section of its mutex, hence one step; what happens between two of them  *)
(* interleaves freely.  Analytics is enabled (disabled, Start and          *)
(* RecordRedirectAttempt return at once).                                  *)
(***************************************************************************)
EXTENDS Naturals, Sequences, FiniteSets, Functions

CONSTANTS
    Producers,      \* threads that call RecordRedirectAttempt
    Capacity,       \* AnalyticsConfig::queue_capacity
    BatchSize,      \* AnalyticsConfig::batch_size
    MaxRetries,     \* AnalyticsConfig::retry.max_retry_attempts
    MaxEvents,      \* bound: recorded redirect attempts
    MaxStarts       \* bound: times the worker is started

\* AnalyticsConfig::Validate.
ASSUME ConfigAssumption ==
    /\ Capacity \in Nat \ {0}
    /\ BatchSize \in 1 .. Capacity
    /\ MaxRetries \in Nat

ASSUME BoundsAssumption == MaxEvents \in Nat /\ MaxStarts \in Nat

\* Events are numbered in the order they are built; the number is the event_id.
Events == 1 .. MaxEvents

VARIABLES
    queue_,     \* BoundedClickEventQueue::queue_
    enqueued_total_, dropped_total_,
    stop_,      \* BoundedClickEventQueue::stop_
    state_,     \* AnalyticsWorker::state_
    worker,     \* the worker thread: [pc, batch, expired, attempt, ok, depth]
    caller,     \* the thread inside Stop(): "idle", "notify" or "join"
    producer,   \* each recording thread: [pc, result, depth]
    rows,       \* the click_events table: copies of each event_id
    gauge,      \* IAnalyticsMetrics::SetQueueDepth
    counters,   \* the other metrics: [enqueued, dropped, persisted, failures]
    issued,     \* events built so far
    starts,     \* worker starts so far
    accepted,   \* history: events the queue accepted, in order
    abandoned,  \* history: events of batches whose retries ran out
    stopMark    \* history: length of accepted when Stop() was last called

queue == <<queue_, enqueued_total_, dropped_total_, stop_>>
metrics == <<gauge, counters>>
lifecycle == <<state_, caller, starts, stopMark>>
history == <<accepted, abandoned, issued>>
vars == <<queue_, enqueued_total_, dropped_total_, stop_, state_, worker, caller,
          producer, rows, gauge, counters, issued, starts, accepted, abandoned, stopMark>>

WorkerPCs == {"none", "loop", "collect", "persist", "report", "depth", "check", "exited"}
Worker == [pc : WorkerPCs, batch : Seq(Events), expired : BOOLEAN,
           attempt : 0 .. MaxRetries, ok : BOOLEAN, depth : Nat]
Producer == [pc : {"idle", "read", "set"}, result : {"Enqueued", "DroppedFull"}, depth : Nat]
Counters == [enqueued : Nat, dropped : Nat, persisted : Nat, failures : Nat]

\* Types, and the two static limits: the queue holds at most its capacity and
\* a batch at most batch_size events.
TypeOK ==
    /\ queue_ \in Seq(Events) /\ Len(queue_) <= Capacity
    /\ enqueued_total_ \in Nat /\ dropped_total_ \in Nat
    /\ stop_ \in BOOLEAN
    /\ state_ \in {"Stopped", "Running", "Stopping"}
    /\ worker \in Worker
    /\ Len(worker.batch) <= BatchSize
    /\ caller \in {"idle", "notify", "join"}
    /\ producer \in [Producers -> Producer]
    /\ rows \in [Events -> Nat]
    /\ gauge \in Nat
    /\ counters \in Counters
    /\ issued \in 0 .. MaxEvents
    /\ starts \in 0 .. MaxStarts
    /\ accepted \in Seq(Events)
    /\ abandoned \subseteq Events
    /\ stopMark \in Nat

noThread == [pc |-> "none", batch |-> <<>>, expired |-> FALSE, attempt |-> 0,
             ok |-> FALSE, depth |-> 0]

Init ==
    /\ queue_ = <<>> /\ enqueued_total_ = 0 /\ dropped_total_ = 0 /\ stop_ = FALSE
    /\ state_ = "Stopped" /\ worker = noThread /\ caller = "idle"
    /\ producer = [p \in Producers |-> [pc |-> "idle", result |-> "Enqueued", depth |-> 0]]
    /\ rows = [e \in Events |-> 0]
    /\ gauge = 0
    /\ counters = [enqueued |-> 0, dropped |-> 0, persisted |-> 0, failures |-> 0]
    /\ issued = 0 /\ starts = 0
    /\ accepted = <<>> /\ abandoned = {} /\ stopMark = 0

-----------------------------------------------------------------------------
(* BoundedClickEventQueue *)

\* Slip: the size check lets one event too many in.
TryEnqueueOffByOne(e, result) ==
    /\ result = "DroppedFull" <=> Len(queue_) > Capacity
    /\ IF result = "Enqueued"
       THEN /\ queue_' = Append(queue_, e)
            /\ accepted' = Append(accepted, e)
            /\ enqueued_total_' = enqueued_total_ + 1
            /\ UNCHANGED dropped_total_
       ELSE /\ dropped_total_' = dropped_total_ + 1
            /\ UNCHANGED <<queue_, accepted, enqueued_total_>>
    /\ UNCHANGED stop_

\* Slip: a full queue makes room by evicting its oldest event.
TryEnqueueEvictOldest(e, result) ==
    /\ result = "Enqueued"
    /\ queue_' = IF Len(queue_) >= Capacity THEN Append(Tail(queue_), e) ELSE Append(queue_, e)
    /\ accepted' = Append(accepted, e)
    /\ enqueued_total_' = enqueued_total_ + 1
    /\ UNCHANGED <<stop_, dropped_total_>>

\* Slip: the new event is put in front.
TryEnqueueFront(e, result) ==
    /\ Len(queue_) >= Capacity => result = "DroppedFull"
    /\ IF result = "Enqueued"
       THEN /\ queue_' = <<e>> \o queue_
            /\ accepted' = Append(accepted, e)
            /\ enqueued_total_' = enqueued_total_ + 1
            /\ UNCHANGED dropped_total_
       ELSE /\ dropped_total_' = dropped_total_ + 1
            /\ UNCHANGED <<queue_, accepted, enqueued_total_>>
    /\ UNCHANGED stop_

\* A full queue drops the new event; so does a failed allocation.
TryEnqueue(e, result) ==
    /\ Len(queue_) >= Capacity => result = "DroppedFull"
    /\ IF result = "Enqueued"
       THEN /\ queue_' = Append(queue_, e)
            /\ accepted' = Append(accepted, e)
            /\ enqueued_total_' = enqueued_total_ + 1
            /\ UNCHANGED dropped_total_
       ELSE /\ dropped_total_' = dropped_total_ + 1
            /\ UNCHANGED <<queue_, accepted, enqueued_total_>>
    /\ UNCHANGED stop_

-----------------------------------------------------------------------------
(* AnalyticsService::RecordRedirectAttempt, on any thread *)

Record(p) ==
    /\ producer[p].pc = "idle"
    /\ issued < MaxEvents
    /\ issued' = issued + 1
    /\ \E result \in {"Enqueued", "DroppedFull"} :
          /\ TryEnqueue(issued + 1, result)
          /\ producer' = [producer EXCEPT ![p] = [@ EXCEPT !.pc = "read", !.result = result]]
    /\ UNCHANGED <<lifecycle, worker, rows, metrics, abandoned>>

\* The counter, then the argument of SetQueueDepth.
RecordReadDepth(p) ==
    /\ producer[p].pc = "read"
    /\ counters' = IF producer[p].result = "Enqueued"
                   THEN [counters EXCEPT !.enqueued = @ + 1]
                   ELSE [counters EXCEPT !.dropped = @ + 1]
    /\ producer' = [producer EXCEPT ![p] = [@ EXCEPT !.pc = "set", !.depth = Len(queue_)]]
    /\ UNCHANGED <<queue, lifecycle, worker, rows, gauge, history>>

RecordSetDepth(p) ==
    /\ producer[p].pc = "set"
    /\ gauge' = producer[p].depth
    /\ producer' = [producer EXCEPT ![p] = [@ EXCEPT !.pc = "idle", !.depth = 0]]
    /\ UNCHANGED <<queue, lifecycle, worker, rows, counters, history>>

-----------------------------------------------------------------------------
(* AnalyticsWorker::Start and Stop; the caller serialises them *)

Start ==
    /\ caller = "idle" /\ state_ = "Stopped"
    /\ starts < MaxStarts
    /\ starts' = starts + 1
    /\ state_' = "Running"
    /\ worker' = [noThread EXCEPT !.pc = "loop"]
    /\ UNCHANGED <<queue, caller, stopMark, producer, rows, metrics, history>>

Stop ==
    /\ caller = "idle" /\ state_ = "Running"
    /\ state_' = "Stopping"
    /\ caller' = "notify"
    /\ stopMark' = Len(accepted)
    /\ UNCHANGED <<queue, starts, worker, producer, rows, metrics, history>>

NotifyStop ==
    /\ caller = "notify"
    /\ stop_' = TRUE
    /\ caller' = "join"
    /\ UNCHANGED <<queue_, enqueued_total_, dropped_total_, state_, starts, stopMark, worker,
                   producer, rows, metrics, history>>

Join ==
    /\ caller = "join" /\ worker.pc = "exited"
    /\ worker' = noThread
    /\ state_' = "Stopped"
    /\ caller' = "idle"
    /\ UNCHANGED <<queue, starts, stopMark, producer, rows, metrics, history>>

-----------------------------------------------------------------------------
(* The worker thread: Run and FlushOnce *)

\* The loop condition of Run, and the start of FlushOnce.
RunLoop ==
    /\ worker.pc = "loop"
    /\ worker' = IF state_ \in {"Running", "Stopping"}
                 THEN [noThread EXCEPT !.pc = "collect"]
                 ELSE [noThread EXCEPT !.pc = "exited"]
    /\ UNCHANGED <<queue, lifecycle, producer, rows, metrics, history>>

\* flush_interval runs out while the batch is being collected.
DeadlinePasses ==
    /\ worker.pc = "collect" /\ ~worker.expired
    /\ worker' = [worker EXCEPT !.expired = TRUE]
    /\ UNCHANGED <<queue, lifecycle, producer, rows, metrics, history>>

\* WaitDequeue before the deadline and TryDequeue after it take the same head.
Dequeue ==
    /\ worker.pc = "collect" /\ Len(worker.batch) < BatchSize
    /\ queue_ # <<>>
    /\ worker' = [worker EXCEPT !.batch = Append(@, Head(queue_))]
    /\ queue_' = Tail(queue_)
    /\ UNCHANGED <<enqueued_total_, dropped_total_, stop_, lifecycle, producer, rows,
                   metrics, history>>

\* Slip: a part batch waits for more events whatever its age.
EndCollectFullOnly ==
    /\ worker.pc = "collect"
    /\ Len(worker.batch) = BatchSize \/ (queue_ = <<>> /\ stop_)
    /\ worker' = [worker EXCEPT !.pc = IF worker.batch = <<>> THEN "check" ELSE "persist"]
    /\ UNCHANGED <<queue, lifecycle, producer, rows, metrics, history>>

\* Collecting ends with a full batch, or on an empty queue after the deadline
\* or once the queue was told to stop.  An empty batch skips persistence.
EndCollect ==
    /\ worker.pc = "collect"
    /\ Len(worker.batch) = BatchSize \/ (queue_ = <<>> /\ (worker.expired \/ stop_))
    /\ worker' = [worker EXCEPT !.pc = IF worker.batch = <<>> THEN "check" ELSE "persist"]
    /\ UNCHANGED <<queue, lifecycle, producer, rows, metrics, history>>

\* Slip: a plain INSERT stores an event again when a batch is retried.
insertedTwice(table, batch, n) ==
    [e \in Events |-> IF e \in Range(SubSeq(batch, 1, n)) THEN table[e] + 1 ELSE table[e]]

\* The first n rows of a batch, each INSERT OR IGNORE / ON CONFLICT DO NOTHING.
inserted(table, batch, n) ==
    [e \in Events |-> IF e \in Range(SubSeq(batch, 1, n)) /\ table[e] = 0 THEN 1 ELSE table[e]]

PersistSucceeds ==
    /\ worker.pc = "persist"
    /\ rows' = inserted(rows, worker.batch, Len(worker.batch))
    /\ worker' = [worker EXCEPT !.pc = "report", !.ok = TRUE]
    /\ UNCHANGED <<queue, lifecycle, producer, metrics, history>>

\* There is no transaction around the batch: a statement that throws leaves
\* the rows before it in the table.
PersistFails ==
    /\ worker.pc = "persist"
    /\ \E n \in 0 .. Len(worker.batch) : rows' = inserted(rows, worker.batch, n)
    /\ IF worker.attempt < MaxRetries
       THEN /\ worker' = [worker EXCEPT !.attempt = @ + 1]
            /\ UNCHANGED abandoned
       ELSE /\ worker' = [worker EXCEPT !.pc = "report", !.ok = FALSE]
            /\ abandoned' = abandoned \cup Range(worker.batch)
    /\ UNCHANGED <<queue, lifecycle, producer, metrics, accepted, issued>>

\* OnPersisted or OnWorkerFailure, then the argument of SetQueueDepth.
Report ==
    /\ worker.pc = "report"
    /\ counters' = IF worker.ok THEN [counters EXCEPT !.persisted = @ + Len(worker.batch)]
                   ELSE [counters EXCEPT !.failures = @ + 1]
    /\ worker' = [worker EXCEPT !.pc = "depth", !.batch = <<>>, !.depth = Len(queue_)]
    /\ UNCHANGED <<queue, lifecycle, producer, rows, gauge, history>>

SetDepth ==
    /\ worker.pc = "depth"
    /\ gauge' = worker.depth
    /\ worker' = [worker EXCEPT !.pc = "check"]
    /\ UNCHANGED <<queue, lifecycle, producer, rows, counters, history>>

\* Slip: the thread leaves as soon as it sees Stopping.
ExitCheckEager ==
    /\ worker.pc = "check"
    /\ worker' = [noThread EXCEPT !.pc = IF state_ = "Stopping" THEN "exited" ELSE "loop"]
    /\ UNCHANGED <<queue, lifecycle, producer, rows, metrics, history>>

\* Slip: the thread waits for a state that only its own end brings about.
ExitCheckOnStopped ==
    /\ worker.pc = "check"
    /\ worker' = [noThread EXCEPT !.pc = IF state_ = "Stopped" THEN "exited" ELSE "loop"]
    /\ UNCHANGED <<queue, lifecycle, producer, rows, metrics, history>>

\* The break of Run: stopping, and nothing left in the queue.
ExitCheck ==
    /\ worker.pc = "check"
    /\ worker' = [noThread EXCEPT
                    !.pc = IF state_ = "Stopping" /\ queue_ = <<>> THEN "exited" ELSE "loop"]
    /\ UNCHANGED <<queue, lifecycle, producer, rows, metrics, history>>

-----------------------------------------------------------------------------
WorkerStep ==
    \/ RunLoop \/ Dequeue \/ EndCollect
    \/ PersistSucceeds \/ PersistFails \/ Report \/ SetDepth \/ ExitCheck

ProducerStep(p) == Record(p) \/ RecordReadDepth(p) \/ RecordSetDepth(p)

Next ==
    \/ WorkerStep
    \/ DeadlinePasses
    \/ \E p \in Producers : ProducerStep(p)
    \/ Start \/ Stop \/ NotifyStop \/ Join

Spec == Init /\ [][Next]_vars

\* The worker thread is scheduled, its deadline runs out, and a thread inside
\* Stop() goes on.  Nobody has to record a redirect or to start or stop.
Fairness ==
    /\ WF_vars(WorkerStep)
    /\ WF_vars(DeadlinePasses)
    /\ WF_vars(NotifyStop)
    /\ WF_vars(Join)

FairSpec == Spec /\ Fairness

-----------------------------------------------------------------------------
(* Properties *)

\* The number of events the worker has taken out of the queue.
taken == Len(accepted) - Len(queue_)

\* Events leave the queue in the order they were accepted, none skipped: the
\* buffer is what is left of the accepted events, and the batch in hand is the
\* last part taken from them.
QueueIsFifo ==
    /\ Len(queue_) <= Len(accepted)
    /\ queue_ = SubSeq(accepted, taken + 1, Len(accepted))
    /\ Len(worker.batch) <= taken
    /\ worker.batch = SubSeq(accepted, taken - Len(worker.batch) + 1, taken)

\* Every event is accounted for, by the counters and by where it is.  What the
\* queue accepted plus what it dropped is what was recorded.  An accepted event
\* waits in the queue, is in the worker's hands, is stored, or belongs to a
\* batch whose retries ran out.  And analytics_events_persisted_total counts
\* events, not batches: with the events given up and the batch in hand it adds
\* up to all events taken from the queue.
EventsAccounted ==
    /\ enqueued_total_ = Len(accepted)
    /\ enqueued_total_ + dropped_total_ = issued
    /\ \A e \in Range(accepted) :
          e \in Range(queue_) \cup Range(worker.batch) \cup abandoned \/ rows[e] > 0
    /\ counters.persisted + Cardinality(abandoned \ Range(worker.batch)) + Len(worker.batch) = taken

\* When Stop() has returned, every event accepted before it was called has
\* been handed to the repository; only later arrivals may remain queued.
StopDrains ==
    state_ = "Stopped" => taken >= stopMark /\ worker.batch = <<>>

\* include/url_shortener/analytics/analytics_worker.hpp:101 says FlushOnce
\* blocks "up to `config_.flush_interval` total via `WaitDequeue`", and lines
\* 19-21 that Start() may be called again once Stop() has finished: a running
\* worker never ends an empty pass before its deadline.
RunningWorkerWaits ==
    [][(state_ = "Running" /\ worker.pc = "collect" /\ worker.batch = <<>> /\ worker'.pc = "check")
        => worker.expired]_vars

\* A Stop() that was called returns, once recording has ceased.
StopReturns == (state_ = "Stopping") ~> (state_ = "Stopped")

\* While the worker is left running, every accepted event is stored or given
\* up in the end.
RunningWorkerDelivers ==
    \A e \in Events :
        (e \in Range(queue_) /\ state_ = "Running")
            ~> (rows[e] = 1 \/ e \in abandoned \/ state_ = "Stopped")

Log == INSTANCE BestEffortLog WITH
    pending <- {e \in Range(accepted) : rows[e] = 0 /\ e \notin abandoned},
    stored <- rows,
    lost <- {e \in abandoned : rows[e] = 0}

\* The pipeline is a best-effort log: retrying a partly stored batch never stores an
\* event twice, nothing is stored that was not accepted, and nothing comes back.
ImplementsLog == Log!Spec
=============================================================================
