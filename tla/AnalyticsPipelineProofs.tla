---------------------- MODULE AnalyticsPipelineProofs ----------------------
(***************************************************************************)
(* Proofs about AnalyticsPipeline, for any number of recording threads and *)
(* events, any capacity, batch size and number of retries.                 *)
(***************************************************************************)
EXTENDS AnalyticsPipeline, Integers, FiniteSetTheorems, TLAPS

\* Events are accepted in the order of their numbers, each once.
Ordered ==
    /\ \A i \in 1 .. Len(accepted) : accepted[i] <= issued
    /\ \A i, j \in 1 .. Len(accepted) : i < j => accepted[i] < accepted[j]

\* QueueIsFifo by positions: first what was taken, the batch last, then the queue.
InOrder ==
    /\ Len(queue_) + Len(worker.batch) <= Len(accepted)
    /\ \A i \in 1 .. Len(queue_) : queue_[i] = accepted[taken + i]
    /\ \A i \in 1 .. Len(worker.batch) : worker.batch[i] = accepted[taken - Len(worker.batch) + i]

among(e, n) == \E i \in 1 .. n : accepted[i] = e

\* The events that have been dealt with: all that were taken, less the batch in hand.
settled == IF worker.pc = "report" THEN taken ELSE taken - Len(worker.batch)

\* Rows are of events that were taken; what was given up is not in hand any more.
Outcomes ==
    /\ \A e \in Events : rows[e] \in {0, 1} /\ (rows[e] = 1 => among(e, taken))
    /\ \A e \in abandoned : among(e, settled)

\* Only a worker that collects, persists or reports has a batch.
Hands == worker.pc \notin {"collect", "persist", "report"} => worker.batch = <<>>

\* The thread exists while the worker is not stopped, and leaves only when it
\* has taken what was accepted before Stop().
Lifecycle ==
    /\ state_ = "Stopped" <=> worker.pc = "none"
    /\ worker.pc = "exited" => state_ = "Stopping"
    /\ state_ = "Stopping" <=> caller # "idle"
    /\ stopMark <= Len(accepted)
    /\ worker.pc \in {"none", "exited"} => taken >= stopMark

PipelineInv == TypeOK /\ Ordered /\ InOrder /\ Outcomes /\ Hands /\ Lifecycle
-----------------------------------------------------------------------------
(* Types. *)

\* The fields of the worker.
LEMMA WorkerFields ==
    ASSUME TypeOK
    PROVE  /\ worker \in Worker
           /\ worker.pc \in WorkerPCs /\ worker.batch \in Seq(Events) /\ worker.expired \in BOOLEAN
           /\ worker.attempt \in 0 .. MaxRetries /\ worker.ok \in BOOLEAN /\ worker.depth \in Nat
           /\ Len(worker.batch) \in Nat /\ Len(queue_) \in Nat /\ Len(accepted) \in Nat
BY DEF TypeOK, Worker

\* The worker thread starts afresh.
LEMMA FreshWorker ==
    ASSUME NEW pc \in WorkerPCs
    PROVE  /\ [noThread EXCEPT !.pc = pc] \in Worker
           /\ [noThread EXCEPT !.pc = pc].pc = pc
           /\ [noThread EXCEPT !.pc = pc].batch = <<>>
<1>1. <<>> \in Seq(Events)
  OBVIOUS
<1>2. noThread \in Worker
  BY <1>1, ConfigAssumption DEF noThread, Worker, WorkerPCs
<1>3. [noThread EXCEPT !.pc = pc] \in Worker
  BY <1>2 DEF Worker
<1>4. [noThread EXCEPT !.pc = pc].pc = pc
  BY <1>2 DEF Worker
<1>5. [noThread EXCEPT !.pc = pc].batch = <<>>
  BY DEF noThread
<1> QED
  BY <1>3, <1>4, <1>5

\* No thread.
LEMMA NoWorker == noThread \in Worker /\ noThread.pc = "none" /\ noThread.batch = <<>>
<1>1. <<>> \in Seq(Events)
  OBVIOUS
<1>2. noThread \in Worker
  BY <1>1, ConfigAssumption DEF noThread, Worker, WorkerPCs
<1> QED
  BY <1>2 DEF noThread

\* The worker after each step of its thread.
LEMMA WorkerAfter ==
    ASSUME TypeOK
    PROVE  /\ Start => worker' \in Worker /\ worker'.pc = "loop" /\ worker'.batch = <<>>
           /\ Join => worker' \in Worker /\ worker'.pc = "none" /\ worker'.batch = <<>>
           /\ RunLoop => /\ worker' \in Worker /\ worker'.batch = <<>>
                         /\ worker'.pc = IF state_ \in {"Running", "Stopping"} THEN "collect" ELSE "exited"
           /\ ExitCheck =>
                 /\ worker' \in Worker /\ worker'.batch = <<>>
                 /\ worker'.pc = IF state_ = "Stopping" /\ queue_ = <<>> THEN "exited" ELSE "loop"
           /\ DeadlinePasses => worker' \in Worker /\ worker'.pc = worker.pc /\ worker'.batch = worker.batch
           /\ Dequeue => /\ worker' \in Worker /\ worker'.pc = worker.pc
                         /\ worker'.batch = Append(worker.batch, Head(queue_))
           /\ EndCollect => /\ worker' \in Worker /\ worker'.batch = worker.batch
                            /\ worker'.pc = IF worker.batch = <<>> THEN "check" ELSE "persist"
           /\ PersistSucceeds => worker' \in Worker /\ worker'.pc = "report" /\ worker'.batch = worker.batch
           /\ PersistFails => /\ worker' \in Worker /\ worker'.batch = worker.batch
                              /\ worker'.pc = IF worker.attempt < MaxRetries THEN "persist" ELSE "report"
           /\ Report => worker' \in Worker /\ worker'.pc = "depth" /\ worker'.batch = <<>>
           /\ SetDepth => worker' \in Worker /\ worker'.pc = "check" /\ worker'.batch = worker.batch
<1>0. /\ worker \in Worker /\ worker.pc \in WorkerPCs /\ worker.batch \in Seq(Events)
      /\ worker.attempt \in 0 .. MaxRetries /\ MaxRetries \in Nat
  BY WorkerFields, ConfigAssumption
<1>1. Start => worker' \in Worker /\ worker'.pc = "loop" /\ worker'.batch = <<>>
  BY FreshWorker DEF Start, WorkerPCs
<1>2. Join => worker' \in Worker /\ worker'.pc = "none" /\ worker'.batch = <<>>
  BY NoWorker DEF Join
<1>3. RunLoop => /\ worker' \in Worker /\ worker'.batch = <<>>
                 /\ worker'.pc = IF state_ \in {"Running", "Stopping"} THEN "collect" ELSE "exited"
  BY FreshWorker DEF RunLoop, WorkerPCs
<1>4. ExitCheck =>
         /\ worker' \in Worker /\ worker'.batch = <<>>
         /\ worker'.pc = IF state_ = "Stopping" /\ queue_ = <<>> THEN "exited" ELSE "loop"
  <2> DEFINE next == IF state_ = "Stopping" /\ queue_ = <<>> THEN "exited" ELSE "loop"
  <2>1. next \in WorkerPCs
    BY DEF WorkerPCs
  <2>2. ExitCheck => worker' = [noThread EXCEPT !.pc = next]
    BY DEF ExitCheck
  <2> QED
    BY <2>1, <2>2, FreshWorker, Zenon
<1>5. DeadlinePasses => worker' \in Worker /\ worker'.pc = worker.pc /\ worker'.batch = worker.batch
  BY <1>0, Zenon DEF DeadlinePasses, Worker
<1>6. Dequeue => /\ worker' \in Worker /\ worker'.pc = worker.pc
                 /\ worker'.batch = Append(worker.batch, Head(queue_))
  <2> SUFFICES ASSUME Dequeue PROVE /\ worker' \in Worker /\ worker'.pc = worker.pc
                                    /\ worker'.batch = Append(worker.batch, Head(queue_))
    OBVIOUS
  <2>1. Head(queue_) \in Events
    BY DEF Dequeue, TypeOK
  <2>2. Append(worker.batch, Head(queue_)) \in Seq(Events)
    BY <1>0, <2>1
  <2>3. worker' = [worker EXCEPT !.batch = Append(worker.batch, Head(queue_))]
    BY DEF Dequeue
  <2> QED
    BY <1>0, <2>2, <2>3, Zenon DEF Worker
<1>7. EndCollect => /\ worker' \in Worker /\ worker'.batch = worker.batch
                    /\ worker'.pc = IF worker.batch = <<>> THEN "check" ELSE "persist"
  <2> DEFINE next == IF worker.batch = <<>> THEN "check" ELSE "persist"
  <2>1. next \in WorkerPCs
    BY DEF WorkerPCs
  <2>2. EndCollect => worker' = [worker EXCEPT !.pc = next]
    BY DEF EndCollect
  <2> HIDE DEF next
  <2>3. EndCollect => worker' \in Worker /\ worker'.batch = worker.batch /\ worker'.pc = next
    BY <1>0, <2>1, <2>2 DEF Worker
  <2> QED
    BY <2>3 DEF next
<1>8. PersistSucceeds => worker' \in Worker /\ worker'.pc = "report" /\ worker'.batch = worker.batch
  <2>1. "report" \in WorkerPCs
    BY DEF WorkerPCs
  <2> QED
    BY <1>0, <2>1, Zenon DEF PersistSucceeds, Worker
<1>9. PersistFails => /\ worker' \in Worker /\ worker'.batch = worker.batch
                      /\ worker'.pc = IF worker.attempt < MaxRetries THEN "persist" ELSE "report"
  <2> SUFFICES ASSUME PersistFails
               PROVE  /\ worker' \in Worker /\ worker'.batch = worker.batch
                      /\ worker'.pc = IF worker.attempt < MaxRetries THEN "persist" ELSE "report"
    OBVIOUS
  <2>1. "report" \in WorkerPCs
    BY DEF WorkerPCs
  <2>2. CASE worker.attempt < MaxRetries
    <3>1. worker' = [worker EXCEPT !.attempt = worker.attempt + 1] /\ worker.pc = "persist"
      BY <2>2 DEF PersistFails
    <3>2. worker.attempt + 1 \in 0 .. MaxRetries
      BY <1>0, <2>2
    <3> QED
      BY <1>0, <2>2, <3>1, <3>2 DEF Worker
  <2>3. CASE ~(worker.attempt < MaxRetries)
    <3>1. worker' = [worker EXCEPT !.pc = "report", !.ok = FALSE]
      BY <2>3 DEF PersistFails
    <3> QED
      BY <1>0, <2>1, <2>3, <3>1, Zenon DEF Worker
  <2> QED
    BY <2>2, <2>3
<1>10. Report => worker' \in Worker /\ worker'.pc = "depth" /\ worker'.batch = <<>>
  <2>1. "depth" \in WorkerPCs /\ <<>> \in Seq(Events) /\ Len(queue_) \in Nat
    BY WorkerFields DEF WorkerPCs
  <2> QED
    BY <1>0, <2>1, Zenon DEF Report, Worker
<1>11. SetDepth => worker' \in Worker /\ worker'.pc = "check" /\ worker'.batch = worker.batch
  <2>1. "check" \in WorkerPCs
    BY DEF WorkerPCs
  <2> QED
    BY <1>0, <2>1 DEF SetDepth, Worker
<1> QED
  BY <1>1, <1>2, <1>3, <1>4, <1>5, <1>6, <1>7, <1>8, <1>9, <1>10, <1>11

\* The types hold initially.
LEMMA InitTypes == Init => TypeOK
<1> SUFFICES ASSUME Init PROVE TypeOK
  OBVIOUS
<1>1. worker \in Worker /\ worker.batch = <<>>
  BY NoWorker DEF Init
<1>2. producer \in [Producers -> Producer]
  BY DEF Init, Producer
<1>3. counters \in Counters
  BY DEF Init, Counters
<1>4. queue_ \in Seq(Events) /\ accepted \in Seq(Events) /\ Len(queue_) <= Capacity /\ Len(worker.batch) <= BatchSize
  BY <1>1, ConfigAssumption DEF Init
<1>5. rows \in [Events -> Nat] /\ abandoned \subseteq Events /\ issued \in 0 .. MaxEvents /\ starts \in 0 .. MaxStarts
  BY BoundsAssumption DEF Init
<1> QED
  BY <1>1, <1>2, <1>3, <1>4, <1>5, Zenon DEF Init, TypeOK

\* Every step keeps the types and the limits of queue and batch.
LEMMA TypesKept == TypeOK /\ [Next]_vars => TypeOK'
<1> SUFFICES ASSUME TypeOK, [Next]_vars PROVE TypeOK'
  OBVIOUS
<1>0. /\ worker \in Worker /\ worker.batch \in Seq(Events) /\ Len(queue_) \in Nat
      /\ queue_ \in Seq(Events) /\ accepted \in Seq(Events) /\ worker.depth \in Nat
  BY WorkerFields DEF TypeOK
<1>1. ASSUME NEW p \in Producers, Record(p) PROVE TypeOK'
  <2>1. issued + 1 \in Events /\ issued' \in 0 .. MaxEvents
    BY <1>1, BoundsAssumption DEF Record, TypeOK, Events
  <2>2. PICK result \in {"Enqueued", "DroppedFull"} :
            /\ TryEnqueue(issued + 1, result)
            /\ producer' = [producer EXCEPT ![p] = [@ EXCEPT !.pc = "read", !.result = result]]
    BY <1>1, Zenon DEF Record
  <2>3. producer' \in [Producers -> Producer]
    BY <2>2, Zenon DEF TypeOK, Producer
  <2>4. queue_' \in Seq(Events) /\ accepted' \in Seq(Events) /\ Len(queue_)' <= Capacity
    <3> DEFINE e == issued + 1
    <3> HIDE DEF e
    <3>1. e \in Events
      BY <2>1 DEF e
    <3>2. /\ Append(queue_, e) \in Seq(Events) /\ Len(Append(queue_, e)) = Len(queue_) + 1
          /\ Append(accepted, e) \in Seq(Events)
      BY <1>0, <3>1
    <3>3. Len(queue_) <= Capacity /\ Capacity \in Nat
      BY ConfigAssumption DEF TypeOK
    <3>4. CASE result = "Enqueued"
      <4>1. queue_' = Append(queue_, e) /\ accepted' = Append(accepted, e) /\ ~(Len(queue_) >= Capacity)
        BY <2>2, <3>4 DEF TryEnqueue, e
      <4> QED
        BY <1>0, <3>2, <3>3, <4>1
    <3>5. CASE result # "Enqueued"
      BY <1>0, <2>2, <3>3, <3>5 DEF TryEnqueue
    <3> QED
      BY <3>4, <3>5
  <2>6. enqueued_total_' \in Nat /\ dropped_total_' \in Nat /\ stop_' = stop_
    BY <2>2, SMTT(30) DEF TryEnqueue, TypeOK
  <2> QED
    BY <1>1, <2>1, <2>3, <2>4, <2>6, Zenon DEF Record, TypeOK, lifecycle, metrics
<1>2. ASSUME NEW p \in Producers, RecordReadDepth(p) PROVE TypeOK'
  <2>1. producer' \in [Producers -> Producer]
    BY <1>0, <1>2, Zenon DEF RecordReadDepth, TypeOK, Producer
  <2>2. counters' \in Counters
    <3>1. counters \in Counters
      BY DEF TypeOK
    <3> QED
      BY <1>2, <3>1 DEF RecordReadDepth, Counters
  <2> QED
    BY <1>2, <2>1, <2>2 DEF RecordReadDepth, TypeOK, queue, lifecycle, history
<1>3. ASSUME NEW p \in Producers, RecordSetDepth(p) PROVE TypeOK'
  <2>1. producer' \in [Producers -> Producer]
    BY <1>3, Zenon DEF RecordSetDepth, TypeOK, Producer
  <2>2. gauge' \in Nat
    BY <1>3 DEF RecordSetDepth, TypeOK, Producer
  <2> QED
    BY <1>3, <2>1, <2>2 DEF RecordSetDepth, TypeOK, queue, lifecycle, history
<1>4. ASSUME Start \/ Join \/ RunLoop \/ ExitCheck PROVE TypeOK'
  <2>1. worker' \in Worker /\ worker'.batch = <<>>
    BY <1>4, WorkerAfter
  <2>2. Len(worker.batch)' <= BatchSize
    BY <2>1, ConfigAssumption
  <2>3. starts' \in 0 .. MaxStarts
    BY <1>4, BoundsAssumption DEF Start, Join, RunLoop, ExitCheck, TypeOK, lifecycle
  <2> QED
    BY <1>4, <2>1, <2>2, <2>3 DEF Start, Join, RunLoop, ExitCheck, TypeOK, queue, lifecycle, metrics, history
<1>5. ASSUME Stop \/ NotifyStop PROVE TypeOK'
  <2>1. stopMark' \in Nat
    BY <1>0, <1>5 DEF Stop, NotifyStop, TypeOK
  <2> QED
    BY <1>5, <2>1, Zenon DEF Stop, NotifyStop, TypeOK, queue, metrics, history
<1>6. ASSUME DeadlinePasses \/ EndCollect PROVE TypeOK'
  <2>1. worker' \in Worker /\ worker'.batch = worker.batch
    BY <1>6, WorkerAfter
  <2> QED
    BY <1>6, <2>1 DEF DeadlinePasses, EndCollect, TypeOK, queue, lifecycle, metrics, history
<1>7. ASSUME Dequeue PROVE TypeOK'
  <2>1. queue_' \in Seq(Events) /\ Len(queue_)' <= Capacity
    BY <1>0, <1>7, ConfigAssumption DEF Dequeue, TypeOK
  <2>2. worker' \in Worker /\ worker'.batch = Append(worker.batch, Head(queue_))
    BY <1>7, WorkerAfter
  <2>3. Head(queue_) \in Events /\ Len(worker.batch) < BatchSize
    BY <1>0, <1>7 DEF Dequeue
  <2>4. Len(worker.batch)' <= BatchSize
    BY <1>0, <2>2, <2>3, ConfigAssumption
  <2> QED
    BY <1>7, <2>1, <2>2, <2>4, Zenon DEF Dequeue, TypeOK, lifecycle, metrics, history
<1>8. ASSUME PersistSucceeds \/ PersistFails PROVE TypeOK'
  <2>1. worker' \in Worker /\ worker'.batch = worker.batch
    BY <1>8, WorkerAfter
  <2>2. rows' \in [Events -> Nat]
    BY <1>8, SMTT(30) DEF PersistSucceeds, PersistFails, inserted, TypeOK
  <2>3. Range(worker.batch) \subseteq Events
    BY <1>0 DEF Range
  <2>4. abandoned' \subseteq Events
    BY <1>8, <2>3 DEF PersistSucceeds, PersistFails, TypeOK, history
  <2> QED
    BY <1>8, <2>1, <2>2, <2>4 DEF PersistSucceeds, PersistFails, TypeOK, queue, lifecycle, metrics, history
<1>9. ASSUME Report PROVE TypeOK'
  <2>1. worker' \in Worker /\ worker'.batch = <<>>
    BY <1>9, WorkerAfter
  <2>2. counters' \in Counters
    <3>1. counters \in Counters /\ Len(worker.batch) \in Nat
      BY WorkerFields DEF TypeOK
    <3>2. CASE worker.ok
      BY <1>9, <3>1, <3>2 DEF Report, Counters
    <3>3. CASE ~worker.ok
      BY <1>9, <3>1, <3>3 DEF Report, Counters
    <3> QED
      BY <3>2, <3>3
  <2>3. Len(worker.batch)' <= BatchSize
    BY <2>1, ConfigAssumption
  <2> QED
    BY <1>9, <2>1, <2>2, <2>3 DEF Report, TypeOK, queue, lifecycle, history
<1>10. ASSUME SetDepth PROVE TypeOK'
  <2>1. worker' \in Worker /\ worker'.batch = worker.batch
    BY <1>10, WorkerAfter
  <2>2. gauge' \in Nat
    BY <1>0, <1>10 DEF SetDepth
  <2> QED
    BY <1>10, <2>1, <2>2 DEF SetDepth, TypeOK, queue, lifecycle, history
<1>11. CASE UNCHANGED vars
  BY <1>11 DEF vars, TypeOK
<1> QED
  BY <1>1, <1>2, <1>3, <1>4, <1>5, <1>6, <1>7, <1>8, <1>9, <1>10, <1>11
     DEF Next, WorkerStep, ProducerStep
-----------------------------------------------------------------------------
(* The order of events. *)

\* A recorded event goes to the end of the queue and of what was accepted, or nowhere.
LEMMA Recorded ==
    ASSUME TypeOK, NEW p \in Producers, Record(p)
    PROVE  /\ issued' = issued + 1 /\ issued \in Nat /\ issued + 1 \in Events
           /\ \/ queue_' = Append(queue_, issued + 1) /\ accepted' = Append(accepted, issued + 1)
              \/ queue_' = queue_ /\ accepted' = accepted
           /\ UNCHANGED <<worker, rows, abandoned, state_, caller, stopMark>>
<1>1. issued' = issued + 1 /\ issued \in Nat /\ issued + 1 \in Events
  BY BoundsAssumption DEF Record, TypeOK, Events
<1>2. PICK result \in {"Enqueued", "DroppedFull"} : TryEnqueue(issued + 1, result)
  BY DEF Record
<1>3. \/ queue_' = Append(queue_, issued + 1) /\ accepted' = Append(accepted, issued + 1)
      \/ queue_' = queue_ /\ accepted' = accepted
  BY <1>2 DEF TryEnqueue
<1>4. UNCHANGED <<worker, rows, abandoned, state_, caller, stopMark>>
  BY DEF Record, lifecycle
<1> QED
  BY <1>1, <1>3, <1>4

\* The lengths of queue, history and batch.
LEMMA Lengths ==
    ASSUME TypeOK
    PROVE  /\ Len(queue_) \in Nat /\ Len(accepted) \in Nat /\ Len(worker.batch) \in Nat
           /\ queue_ \in Seq(Events) /\ accepted \in Seq(Events) /\ worker.batch \in Seq(Events)
           /\ taken \in Int
BY WorkerFields DEF TypeOK, taken

\* One more event at the end.
LEMMA Appended ==
    ASSUME NEW s \in Seq(Events), NEW e \in Events
    PROVE  /\ Append(s, e) \in Seq(Events) /\ Len(Append(s, e)) = Len(s) + 1
           /\ \A i \in 1 .. Len(s) : Append(s, e)[i] = s[i]
           /\ Append(s, e)[Len(s) + 1] = e
OBVIOUS

\* Recording only adds to what was accepted, and takes nothing.
LEMMA RecordExtends ==
    ASSUME TypeOK, NEW p \in Producers, Record(p)
    PROVE  /\ taken' = taken /\ Len(accepted') >= Len(accepted) /\ Len(accepted') \in Nat
           /\ \A i \in 1 .. Len(accepted) : accepted'[i] = accepted[i]
<1> DEFINE e == issued + 1
<1>1. /\ e \in Events
      /\ \/ queue_' = Append(queue_, e) /\ accepted' = Append(accepted, e)
         \/ queue_' = queue_ /\ accepted' = accepted
  BY Recorded
<1> HIDE DEF e
<1>2. /\ queue_ \in Seq(Events) /\ accepted \in Seq(Events)
      /\ Len(queue_) \in Nat /\ Len(accepted) \in Nat
  BY Lengths
<1>3. CASE queue_' = queue_ /\ accepted' = accepted
  BY <1>2, <1>3 DEF taken
<1>4. CASE queue_' = Append(queue_, e) /\ accepted' = Append(accepted, e)
  <2>1. /\ Len(queue_') = Len(queue_) + 1 /\ Len(accepted') = Len(accepted) + 1
        /\ \A i \in 1 .. Len(accepted) : accepted'[i] = accepted[i]
    BY <1>1, <1>2, <1>4, Appended
  <2> QED
    BY <1>2, <2>1 DEF taken
<1> QED
  BY <1>1, <1>3, <1>4

\* A step that leaves queue, accepted events and batch alone, or only empties the batch.
LEMMA OrderFrame ==
    ASSUME TypeOK, TypeOK', Ordered, InOrder, UNCHANGED <<queue_, accepted, issued>>,
           worker'.batch = worker.batch \/ worker'.batch = <<>>
    PROVE  Ordered' /\ InOrder'
<1>0. queue_' = queue_ /\ accepted' = accepted /\ issued' = issued
  OBVIOUS
<1>1. Ordered'
  BY <1>0 DEF Ordered
<1>2. taken' = taken
  BY <1>0 DEF taken
<1>3. CASE worker'.batch = worker.batch
  <2>1. Len(worker.batch)' = Len(worker.batch)
    BY <1>3
  <2> QED
    <3>1. (Len(queue_) + Len(worker.batch) <= Len(accepted))'
      BY <1>0, <2>1 DEF InOrder
    <3>2. (\A i \in 1 .. Len(queue_) : queue_[i] = accepted[taken + i])'
      BY <1>0, <1>2 DEF InOrder
    <3>3. (\A i \in 1 .. Len(worker.batch) :
              worker.batch[i] = accepted[taken - Len(worker.batch) + i])'
      BY <1>0, <1>2, <1>3, <2>1 DEF InOrder
    <3> QED
      BY <1>1, <3>1, <3>2, <3>3 DEF InOrder
<1>4. CASE worker'.batch = <<>>
  <2>1. Len(worker.batch)' = 0
    BY <1>4
  <2>2. Len(queue_) <= Len(accepted)
    BY Lengths DEF InOrder
  <2>3. (Len(queue_) + Len(worker.batch) <= Len(accepted))'
    BY <1>0, <2>1, <2>2, Lengths
  <2>4. \A i \in 1 .. Len(worker.batch)' : FALSE
    BY <2>1
  <2> QED
    <3>2. (\A i \in 1 .. Len(queue_) : queue_[i] = accepted[taken + i])'
      BY <1>0, <1>2 DEF InOrder
    <3>3. (\A i \in 1 .. Len(worker.batch) :
              worker.batch[i] = accepted[taken - Len(worker.batch) + i])'
      BY <2>4
    <3> QED
      BY <1>1, <2>3, <3>2, <3>3 DEF InOrder
<1> QED
  BY <1>1, <1>3, <1>4

\* Recording keeps the order: numbers only grow.
LEMMA RecordKeepsOrder ==
    ASSUME TypeOK, TypeOK', Ordered, InOrder, NEW p \in Producers, Record(p)
    PROVE  Ordered' /\ InOrder'
<1> DEFINE e == issued + 1
<1>1. /\ issued' = e /\ issued \in Nat /\ e \in Events /\ worker' = worker /\ e > issued
      /\ \/ queue_' = Append(queue_, e) /\ accepted' = Append(accepted, e)
         \/ queue_' = queue_ /\ accepted' = accepted
  BY Recorded
<1> HIDE DEF e
<1>2. /\ queue_ \in Seq(Events) /\ accepted \in Seq(Events) /\ Len(accepted) \in Nat /\ Len(queue_) \in Nat
      /\ Len(worker.batch) \in Nat
  BY <1>1, Lengths
<1>20. e \in Nat /\ \A i \in 1 .. Len(accepted) : accepted[i] \in Nat
  <2>1. \A x \in Events : x \in Nat
    BY BoundsAssumption DEF Events
  <2>2. \A i \in 1 .. Len(accepted) : accepted[i] \in Events
    BY <1>2
  <2> QED
    BY <1>1, <2>1, <2>2
<1>3. CASE queue_' = queue_ /\ accepted' = accepted
  <2>1. Ordered'
    BY <1>1, <1>2, <1>20, <1>3 DEF Ordered
  <2> QED
    BY <1>1, <1>3, <2>1, Zenon DEF InOrder, taken
<1>4. CASE queue_' = Append(queue_, e) /\ accepted' = Append(accepted, e)
  <2>1. /\ Len(queue_') = Len(queue_) + 1 /\ Len(accepted') = Len(accepted) + 1
        /\ \A i \in 1 .. Len(queue_) : queue_'[i] = queue_[i]
        /\ \A i \in 1 .. Len(accepted) : accepted'[i] = accepted[i]
        /\ queue_'[Len(queue_) + 1] = e /\ accepted'[Len(accepted) + 1] = e
    BY <1>1, <1>2, <1>4, Appended
  <2>2. taken' = taken /\ taken + Len(queue_) = Len(accepted) /\ taken \in Int
    BY <1>2, <2>1 DEF taken
  <2>3. Ordered'
    <3>1. ASSUME NEW i \in 1 .. Len(accepted') PROVE accepted'[i] <= issued'
      <4>1. CASE i \in 1 .. Len(accepted)
        <5>1. accepted'[i] = accepted[i] /\ accepted[i] <= issued /\ accepted[i] \in Nat
          BY <1>20, <2>1, <4>1 DEF Ordered
        <5> QED
          BY <1>1, <1>20, <5>1
      <4>2. CASE i = Len(accepted) + 1
        BY <1>1, <1>20, <2>1, <4>2
      <4> QED
        BY <1>2, <2>1, <4>1, <4>2
    <3>2. ASSUME NEW i \in 1 .. Len(accepted'), NEW j \in 1 .. Len(accepted'), i < j
          PROVE  accepted'[i] < accepted'[j]
      <4>1. i \in 1 .. Len(accepted) /\ accepted'[i] = accepted[i] /\ accepted[i] <= issued
        BY <1>2, <2>1, <3>2 DEF Ordered
      <4>2. CASE j \in 1 .. Len(accepted)
        BY <2>1, <3>2, <4>1, <4>2 DEF Ordered
      <4>3. CASE j = Len(accepted) + 1
        BY <1>1, <1>2, <1>20, <2>1, <4>1, <4>3
      <4> QED
        BY <1>2, <2>1, <4>2, <4>3
    <3> QED
      BY <3>1, <3>2 DEF Ordered
  <2>4. (Len(queue_) + Len(worker.batch) <= Len(accepted))'
    <3>1. Len(queue_) + Len(worker.batch) <= Len(accepted) /\ Len(worker.batch)' = Len(worker.batch)
      BY <1>1 DEF InOrder
    <3>2. \A l, m, n \in Nat : l + m <= n => (l + 1) + m <= n + 1
      OBVIOUS
    <3>3. (Len(queue_) + 1) + Len(worker.batch) <= Len(accepted) + 1
      BY <1>2, <3>1, <3>2, Zenon
    <3> QED
      BY <2>1, <3>1, <3>3, Zenon
  <2>5. ASSUME NEW i \in 1 .. Len(queue_') PROVE queue_'[i] = accepted'[taken' + i]
    <3>0. Len(queue_) + Len(worker.batch) <= Len(accepted)
      BY DEF InOrder
    <3>1. CASE i \in 1 .. Len(queue_)
      <4>1. queue_[i] = accepted[taken + i] /\ taken + i \in 1 .. Len(accepted)
        BY <1>2, <2>2, <3>0, <3>1 DEF InOrder
      <4> QED
        BY <2>1, <2>2, <3>1, <4>1
    <3>2. CASE i = Len(queue_) + 1
      BY <1>2, <2>1, <2>2, <3>2
    <3> QED
      BY <1>2, <2>1, <3>1, <3>2
  <2>6. ASSUME NEW i \in 1 .. Len(worker.batch)
        PROVE  worker.batch[i] = accepted'[taken' - Len(worker.batch) + i]
    <3>1. /\ worker.batch[i] = accepted[taken - Len(worker.batch) + i]
          /\ taken - Len(worker.batch) + i \in 1 .. Len(accepted)
      <4>1. /\ Len(queue_) + Len(worker.batch) <= Len(accepted)
            /\ worker.batch[i] = accepted[taken - Len(worker.batch) + i]
        BY DEF InOrder
      <4> DEFINE n == Len(worker.batch)
      <4>2. n \in Nat /\ i \in 1 .. n
        BY <1>2
      <4> HIDE DEF n
      <4>3. Len(queue_) + n <= Len(accepted)
        BY <4>1 DEF n
      <4>4. taken - n + i \in 1 .. Len(accepted)
        BY <1>2, <2>2, <4>2, <4>3
      <4> QED
        BY <4>1, <4>4 DEF n
    <3> QED
      BY <2>1, <2>2, <3>1, Zenon
  <2> QED
    BY <1>1, <2>3, <2>4, <2>5, <2>6 DEF InOrder
<1> QED
  BY <1>1, <1>3, <1>4

\* Taking the head of the queue moves the border between batch and queue by one.
LEMMA DequeueKeepsOrder ==
    ASSUME TypeOK, TypeOK', Ordered, InOrder, Dequeue
    PROVE  Ordered' /\ InOrder' /\ taken' = taken + 1 /\ Len(worker.batch)' = Len(worker.batch) + 1
<1> DEFINE e == Head(queue_)
<1>1. /\ queue_' = Tail(queue_) /\ accepted' = accepted /\ issued' = issued /\ queue_ # <<>>
      /\ worker'.batch = Append(worker.batch, e)
  BY WorkerAfter DEF Dequeue, history
<1>2. /\ queue_ \in Seq(Events) /\ Len(accepted) \in Nat /\ Len(queue_) \in Nat
      /\ worker.batch \in Seq(Events) /\ Len(worker.batch) \in Nat
  BY Lengths
<1>3. /\ Len(queue_') = Len(queue_) - 1 /\ Len(queue_) > 0 /\ e \in Events /\ e = queue_[1]
      /\ \A i \in 1 .. Len(queue_) - 1 : queue_'[i] = queue_[i + 1]
  BY <1>1, <1>2
<1> HIDE DEF e
<1>4. /\ Len(worker'.batch) = Len(worker.batch) + 1
      /\ \A i \in 1 .. Len(worker.batch) : worker'.batch[i] = worker.batch[i]
      /\ worker'.batch[Len(worker.batch) + 1] = e
  BY <1>1, <1>2, <1>3, Appended
<1>5. taken' = taken + 1 /\ taken \in Int
  BY <1>1, <1>2, <1>3 DEF taken
<1>6. Ordered'
  BY <1>1 DEF Ordered
<1>7. (Len(queue_) + Len(worker.batch) <= Len(accepted))'
  BY <1>1, <1>2, <1>3, <1>4 DEF InOrder
<1>8. ASSUME NEW i \in 1 .. Len(queue_') PROVE queue_'[i] = accepted'[taken' + i]
  <2>1. i + 1 \in 1 .. Len(queue_) /\ queue_'[i] = queue_[i + 1]
    BY <1>2, <1>3
  <2>2. queue_[i + 1] = accepted[taken + (i + 1)] /\ taken + (i + 1) = taken' + i
    BY <1>5, <2>1 DEF InOrder
  <2> QED
    BY <1>1, <2>1, <2>2
<1>9. ASSUME NEW i \in 1 .. Len(worker'.batch)
      PROVE  worker'.batch[i] = accepted'[taken' - Len(worker'.batch) + i]
  <2>1. taken' - Len(worker'.batch) + i = taken - Len(worker.batch) + i
    BY <1>2, <1>4, <1>5
  <2>2. CASE i \in 1 .. Len(worker.batch)
    BY <1>1, <1>4, <2>1, <2>2 DEF InOrder
  <2>3. CASE i = Len(worker.batch) + 1
    <3>1. e = accepted[taken + 1]
      BY <1>2, <1>3 DEF InOrder
    <3>2. taken - Len(worker.batch) + i = taken + 1
      <4> DEFINE n == Len(worker.batch)
      <4>1. n \in Nat /\ i = n + 1
        BY <1>2, <2>3
      <4> HIDE DEF n
      <4>2. taken - n + i = taken + 1
        BY <1>5, <4>1
      <4> QED
        BY <4>2 DEF n
    <3> QED
      BY <1>1, <1>4, <2>1, <2>3, <3>1, <3>2
  <2> QED
    BY <1>2, <1>4, <2>2, <2>3
<1> QED
  BY <1>4, <1>5, <1>6, <1>7, <1>8, <1>9, Zenon DEF InOrder

\* A step that records nothing and takes nothing leaves the order alone.
LEMMA OtherSteps ==
    ASSUME TypeOK, Next, ~Dequeue, \A p \in Producers : ~Record(p)
    PROVE  /\ UNCHANGED <<queue_, accepted, issued>>
           /\ worker'.batch = worker.batch \/ worker'.batch = <<>>
<1>1. CASE Start \/ Join \/ RunLoop \/ ExitCheck
  <2>1. worker'.batch = <<>>
    BY <1>1, WorkerAfter
  <2> QED
    BY <1>1, <2>1 DEF Start, Join, RunLoop, ExitCheck, queue, history
<1>2. CASE DeadlinePasses \/ EndCollect \/ PersistSucceeds \/ PersistFails \/ SetDepth
  <2>1. worker'.batch = worker.batch
    BY <1>2, WorkerAfter
  <2> QED
    BY <1>2, <2>1 DEF DeadlinePasses, EndCollect, PersistSucceeds, PersistFails, SetDepth, queue, history
<1>3. CASE Report
  <2>1. worker'.batch = <<>>
    BY <1>3, WorkerAfter
  <2> QED
    BY <1>3, <2>1 DEF Report, queue, history
<1>4. CASE Stop \/ NotifyStop
  BY <1>4 DEF Stop, NotifyStop, queue, history
<1>5. CASE \E p \in Producers : RecordReadDepth(p) \/ RecordSetDepth(p)
  BY <1>5 DEF RecordReadDepth, RecordSetDepth, queue, history
<1> QED
  BY <1>1, <1>2, <1>3, <1>4, <1>5 DEF Next, WorkerStep, ProducerStep

\* Every step keeps the order.
LEMMA OrderKept ==
    ASSUME TypeOK, TypeOK', Ordered, InOrder, Next
    PROVE  Ordered' /\ InOrder'
<1>1. CASE \E p \in Producers : Record(p)
  BY <1>1, RecordKeepsOrder
<1>2. CASE Dequeue
  BY <1>2, DequeueKeepsOrder
<1>3. CASE ~Dequeue /\ \A p \in Producers : ~Record(p)
  BY <1>3, OtherSteps, OrderFrame
<1> QED
  BY <1>1, <1>2, <1>3
-----------------------------------------------------------------------------
(* The worker's life. *)

\* Only Dequeue fills the batch, while collecting; Report empties it.
LEMMA HandsKept ==
    ASSUME TypeOK, Hands, Next
    PROVE  Hands'
<1>1. CASE Start \/ Join \/ RunLoop \/ ExitCheck \/ Report
  BY <1>1, WorkerAfter DEF Hands
<1>2. CASE DeadlinePasses \/ SetDepth
  BY <1>2, WorkerAfter DEF Hands, DeadlinePasses, SetDepth
<1>3. CASE Dequeue \/ EndCollect
  BY <1>3, WorkerAfter DEF Hands, Dequeue
<1>4. CASE PersistSucceeds \/ PersistFails
  BY <1>4, WorkerAfter DEF Hands
<1>5. CASE Stop \/ NotifyStop
  BY <1>5 DEF Hands, Stop, NotifyStop
<1>6. CASE \E p \in Producers : ProducerStep(p)
  BY <1>6 DEF Hands, ProducerStep, Record, RecordReadDepth, RecordSetDepth
<1> QED
  BY <1>1, <1>2, <1>3, <1>4, <1>5, <1>6 DEF Next, WorkerStep

\* A worker thread leaves only with an empty queue, and Stop() joins it.
LEMMA LifecycleKept ==
    ASSUME TypeOK, Lifecycle, Next
    PROVE  Lifecycle'
<1>0. /\ Len(queue_) \in Nat /\ Len(accepted) \in Nat /\ taken \in Int /\ stopMark \in Nat
      /\ state_ \in {"Stopped", "Running", "Stopping"}
  BY Lengths DEF TypeOK
<1>1. CASE Start
  <2>1. UNCHANGED <<queue_, accepted, caller, stopMark>> /\ state_ = "Stopped" /\ state_' = "Running"
    BY <1>1 DEF Start, queue, history
  <2>2. worker'.pc = "loop"
    BY <1>1, WorkerAfter
  <2> QED
    BY <2>1, <2>2 DEF Lifecycle, taken
<1>2. CASE Stop
  <2>1. /\ UNCHANGED <<queue_, accepted, worker>> /\ stopMark' = Len(accepted)
        /\ state_ = "Running" /\ state_' = "Stopping" /\ caller' = "notify"
    BY <1>2 DEF Stop, queue, history
  <2>2. worker.pc \notin {"none", "exited"}
    BY <2>1 DEF Lifecycle
  <2> QED
    BY <1>0, <2>1, <2>2 DEF Lifecycle
<1>3. CASE NotifyStop
  BY <1>3 DEF Lifecycle, NotifyStop, history, taken
<1>4. CASE Join
  <2>1. /\ UNCHANGED <<queue_, accepted, stopMark>> /\ worker.pc = "exited" /\ state_' = "Stopped"
        /\ caller' = "idle"
    BY <1>4 DEF Join, queue, history
  <2>2. worker'.pc = "none"
    BY <1>4, WorkerAfter
  <2> QED
    BY <2>1, <2>2 DEF Lifecycle, taken
<1>5. CASE RunLoop
  <2>1. UNCHANGED <<queue_, accepted, state_, caller, stopMark>> /\ worker.pc = "loop"
    BY <1>5 DEF RunLoop, queue, lifecycle, history
  <2>2. state_ # "Stopped"
    BY <2>1 DEF Lifecycle
  <2>3. worker'.pc = "collect"
    BY <1>0, <1>5, <2>2, WorkerAfter
  <2> QED
    BY <2>1, <2>2, <2>3 DEF Lifecycle
<1>6. CASE ExitCheck
  <2>1. UNCHANGED <<queue_, accepted, state_, caller, stopMark>> /\ worker.pc = "check"
    BY <1>6 DEF ExitCheck, queue, lifecycle, history
  <2>2. worker'.pc = IF state_ = "Stopping" /\ queue_ = <<>> THEN "exited" ELSE "loop"
    BY <1>6, WorkerAfter
  <2>3. queue_ = <<>> => taken = Len(accepted)
    BY <1>0 DEF taken
  <2>4. taken' = taken
    BY <2>1 DEF taken
  <2> QED
    BY <2>1, <2>2, <2>3, <2>4 DEF Lifecycle
<1>7. CASE Dequeue
  <2>1. UNCHANGED <<accepted, state_, caller, stopMark>> /\ worker.pc = "collect"
    BY <1>7 DEF Dequeue, lifecycle, history
  <2>2. worker'.pc = "collect"
    BY <1>7, <2>1, WorkerAfter
  <2> QED
    BY <2>1, <2>2 DEF Lifecycle
<1>8. CASE DeadlinePasses \/ EndCollect \/ PersistSucceeds \/ PersistFails \/ Report \/ SetDepth
  <2>1. UNCHANGED <<accepted, state_, caller, stopMark>> /\ worker.pc \notin {"none", "exited"}
    BY <1>8 DEF DeadlinePasses, EndCollect, PersistSucceeds, PersistFails, Report, SetDepth, lifecycle, history
  <2>2. worker'.pc \notin {"none", "exited"}
    BY <1>8, <2>1, WorkerAfter
  <2> QED
    BY <2>1, <2>2 DEF Lifecycle
<1>9. CASE \E p \in Producers : Record(p)
  <2>1. PICK p \in Producers : Record(p)
    BY <1>9
  <2>2. UNCHANGED <<worker, state_, caller, stopMark>>
    BY <2>1, Recorded
  <2>3. taken' = taken /\ Len(accepted') >= Len(accepted) /\ Len(accepted') \in Nat
    BY <2>1, RecordExtends
  <2> QED
    BY <1>0, <2>2, <2>3 DEF Lifecycle
<1>10. CASE \E p \in Producers : RecordReadDepth(p) \/ RecordSetDepth(p)
  BY <1>10 DEF Lifecycle, RecordReadDepth, RecordSetDepth, queue, lifecycle, history, taken
<1> QED
  BY <1>1, <1>2, <1>3, <1>4, <1>5, <1>6, <1>7, <1>8, <1>9, <1>10 DEF Next, WorkerStep, ProducerStep
-----------------------------------------------------------------------------
(* What became of the events. *)

\* How far the borders lie: settled, then taken, then all that was accepted.
LEMMA Borders ==
    ASSUME TypeOK, InOrder
    PROVE  /\ taken \in Nat /\ settled \in Nat /\ settled <= taken /\ taken <= Len(accepted)
           /\ taken - Len(worker.batch) \in Nat /\ taken - Len(worker.batch) <= settled
<1> DEFINE q == Len(queue_)  b == Len(worker.batch)  a == Len(accepted)
<1>1. q \in Nat /\ b \in Nat /\ a \in Nat /\ q + b <= a
  BY Lengths DEF InOrder
<1> HIDE DEF q, b, a
<1>2. a - q \in Nat /\ a - q - b \in Nat /\ a - q - b <= a - q /\ a - q <= a
  BY <1>1
<1>3. taken = a - q
  BY DEF taken, a, q
<1>4. settled = taken \/ settled = taken - b
  BY DEF settled, b
<1>5. taken - Len(worker.batch) = a - q - b
  BY <1>3 DEF b
<1>6. settled = a - q \/ settled = a - q - b
  BY <1>3, <1>4
<1>7. settled \in Nat /\ settled <= a - q /\ a - q - b <= settled
  BY <1>1, <1>2, <1>6
<1> QED
  BY <1>2, <1>3, <1>5, <1>7 DEF a

\* An event stays among the first n when accepted grows at its end.
LEMMA AmongKept ==
    ASSUME NEW n \in Nat, NEW m \in Nat, n <= m, n <= Len(accepted), Len(accepted) \in Nat,
           \A i \in 1 .. Len(accepted) : accepted'[i] = accepted[i],
           NEW e, among(e, n)
    PROVE  \E i \in 1 .. m : accepted'[i] = e
<1>1. PICK i \in 1 .. n : accepted[i] = e
  BY DEF among
<1>2. i \in 1 .. m /\ i \in 1 .. Len(accepted)
  BY <1>1
<1> QED
  BY <1>1, <1>2

\* A step that changes neither table nor history and moves no border back.
LEMMA OutcomesFrame ==
    ASSUME TypeOK, TypeOK', InOrder, Outcomes, UNCHANGED <<rows, abandoned>>,
           \A i \in 1 .. Len(accepted) : accepted'[i] = accepted[i],
           taken <= taken', settled <= settled'
    PROVE  Outcomes'
<1>1. /\ taken \in Nat /\ settled \in Nat /\ settled <= Len(accepted) /\ taken <= Len(accepted)
      /\ Len(accepted) \in Nat
  BY Borders, Lengths
<1>2. taken' \in Nat /\ settled' \in Nat
  <2>1. Len(queue_') \in Nat /\ Len(accepted') \in Nat /\ Len(worker'.batch) \in Nat
    <3>1. worker' \in Worker /\ queue_' \in Seq(Events) /\ accepted' \in Seq(Events)
      BY DEF TypeOK
    <3>2. worker'.batch \in Seq(Events)
      BY <3>1 DEF Worker
    <3> QED
      BY <3>1, <3>2
  <2>2. taken' \in Int
    BY <2>1 DEF taken
  <2>3. settled' = taken' \/ settled' = taken' - Len(worker'.batch)
    BY DEF settled
  <2>4. settled' \in Int
    BY <2>1, <2>2, <2>3
  <2> QED
    BY <1>1, <2>2, <2>4
<1>3. ASSUME NEW e \in Events PROVE rows'[e] \in {0, 1} /\ (rows'[e] = 1 => among(e, taken)')
  <2>1. rows'[e] = rows[e] /\ rows[e] \in {0, 1} /\ (rows[e] = 1 => among(e, taken))
    BY DEF Outcomes
  <2>2. ASSUME among(e, taken) PROVE \E i \in 1 .. taken' : accepted'[i] = e
    BY <1>1, <1>2, <2>2, AmongKept
  <2> QED
    BY <2>1, <2>2 DEF among
<1>4. ASSUME NEW e \in abandoned' PROVE among(e, settled)'
  <2>1. among(e, settled)
    BY <1>4 DEF Outcomes
  <2>2. \E i \in 1 .. settled' : accepted'[i] = e
    BY <1>1, <1>2, <2>1, AmongKept
  <2> QED
    BY <2>2 DEF among
<1> QED
  BY <1>3, <1>4 DEF Outcomes

\* The events of the batch are the last ones taken.
LEMMA BatchTaken ==
    ASSUME TypeOK, InOrder, NEW e \in Range(worker.batch)
    PROVE  \E i \in 1 .. taken : i > taken - Len(worker.batch) /\ accepted[i] = e
<1> DEFINE n == Len(worker.batch)
<1>1. n \in Nat /\ taken \in Nat /\ taken - n \in Nat /\ worker.batch \in Seq(Events)
  BY Borders, Lengths
<1>2. PICK j \in 1 .. n : worker.batch[j] = e
  BY <1>1 DEF Range
<1>3. accepted[taken - n + j] = e
  BY <1>2 DEF InOrder
<1> HIDE DEF n
<1>4. taken - n + j \in 1 .. taken /\ taken - n + j > taken - n
  BY <1>1
<1> QED
  BY <1>3, <1>4 DEF n

\* One attempt stores events of the batch only, each at most once, and never removes a row.
LEMMA Attempted ==
    ASSUME TypeOK, PersistSucceeds \/ PersistFails
    PROVE  /\ \A e \in Events : \/ rows'[e] = rows[e]
                                \/ e \in Range(worker.batch) /\ rows[e] = 0 /\ rows'[e] = 1
           /\ UNCHANGED <<queue_, accepted>>
           /\ \/ abandoned' = abandoned
              \/ abandoned' = abandoned \cup Range(worker.batch) /\ worker'.pc = "report"
           /\ worker.pc = "persist" /\ worker'.batch = worker.batch
           /\ worker'.pc \in {"persist", "report"}
<1>0. worker.batch \in Seq(Events) /\ Len(worker.batch) \in Nat
  BY WorkerFields
<1>1. PICK n \in 0 .. Len(worker.batch) : rows' = inserted(rows, worker.batch, n)
  BY <1>0 DEF PersistSucceeds, PersistFails
<1>2. ASSUME NEW e \in Events, e \in Range(SubSeq(worker.batch, 1, n)) PROVE e \in Range(worker.batch)
  <2>1. PICK i \in DOMAIN SubSeq(worker.batch, 1, n) : SubSeq(worker.batch, 1, n)[i] = e
    BY <1>2 DEF Range
  <2>2. i \in 1 .. n /\ worker.batch[i] = e
    BY <1>0, <1>1, <2>1
  <2> QED
    BY <1>0, <1>1, <2>2 DEF Range
<1>3. \A e \in Events : \/ rows'[e] = rows[e]
                        \/ e \in Range(worker.batch) /\ rows[e] = 0 /\ rows'[e] = 1
  BY <1>1, <1>2 DEF inserted
<1>4. UNCHANGED <<queue_, accepted>> /\ worker.pc = "persist"
  BY DEF PersistSucceeds, PersistFails, queue, history
<1>5. worker'.batch = worker.batch /\ worker'.pc \in {"persist", "report"}
  BY WorkerAfter
<1>6. \/ abandoned' = abandoned
      \/ abandoned' = abandoned \cup Range(worker.batch) /\ worker'.pc = "report"
  BY WorkerAfter DEF PersistSucceeds, PersistFails, history
<1> QED
  BY <1>3, <1>4, <1>5, <1>6

\* An attempt to persist moves the whole batch past the border, or nothing.
LEMMA AttemptKeepsOutcomes ==
    ASSUME TypeOK, InOrder, Outcomes, PersistSucceeds \/ PersistFails
    PROVE  Outcomes'
<1>0. taken \in Nat /\ settled \in Nat /\ settled <= taken
  BY Borders
<1>1. taken' = taken /\ accepted' = accepted
  BY Attempted DEF taken
<1>2. \A e : among(e, taken)' <=> among(e, taken)
  BY <1>1 DEF among
<1>3. \A e \in Range(worker.batch) : among(e, taken)
  BY BatchTaken DEF among
<1>4. ASSUME NEW e \in Events PROVE rows'[e] \in {0, 1} /\ (rows'[e] = 1 => among(e, taken)')
  <2>1. rows[e] \in {0, 1} /\ (rows[e] = 1 => among(e, taken))
    BY DEF Outcomes
  <2>2. rows'[e] = rows[e] \/ (e \in Range(worker.batch) /\ rows'[e] = 1)
    BY Attempted
  <2> QED
    BY <1>2, <1>3, <2>1, <2>2
<1>5. settled' = IF worker'.pc = "report" THEN taken ELSE settled
  BY <1>1, Attempted DEF settled
<1>6. ASSUME NEW e \in abandoned' PROVE among(e, settled)'
  <2>1. CASE e \in abandoned
    <3>1. PICK i \in 1 .. settled : accepted[i] = e
      BY <2>1 DEF Outcomes, among
    <3>2. i \in 1 .. settled'
      BY <1>0, <1>5, <3>1
    <3> QED
      BY <1>1, <3>1, <3>2 DEF among
  <2>2. CASE e \notin abandoned
    <3>1. e \in Range(worker.batch) /\ worker'.pc = "report"
      BY <1>6, <2>2, Attempted
    <3> QED
      BY <1>1, <1>3, <1>5, <3>1 DEF among
  <2> QED
    BY <2>1, <2>2
<1> QED
  BY <1>4, <1>6 DEF Outcomes

\* The steps that neither record nor persist move no event to another outcome.
LEMMA SettledFrame ==
    ASSUME TypeOK, Hands, Lifecycle, Next, ~Dequeue, ~PersistSucceeds, ~PersistFails,
           \A p \in Producers : ~Record(p)
    PROVE  UNCHANGED <<rows, abandoned>> /\ settled' = settled
<1>0. taken' = taken /\ taken \in Int /\ Len(worker.batch) \in Nat
  BY OtherSteps, Lengths DEF taken
<1>1. UNCHANGED <<rows, abandoned>>
  BY Zenon DEF Next, WorkerStep, ProducerStep, Start, Stop, NotifyStop, Join, RunLoop, DeadlinePasses, EndCollect,
         Report, SetDepth, ExitCheck, RecordReadDepth, RecordSetDepth, history
<1>2. CASE Start \/ Join \/ RunLoop \/ ExitCheck
  <2>1. worker.pc \in {"none", "exited", "loop", "check"}
    BY <1>2 DEF Start, Join, RunLoop, ExitCheck, Lifecycle
  <2>2. worker.batch = <<>> /\ settled = taken - Len(worker.batch)
    BY <2>1 DEF Hands, settled
  <2>3. worker'.batch = <<>> /\ worker'.pc # "report"
    BY <1>2, WorkerAfter
  <2> QED
    BY <1>0, <1>1, <2>2, <2>3 DEF settled
<1>3. CASE Report
  <2>1. worker.pc = "report" /\ worker'.pc = "depth" /\ worker'.batch = <<>>
    BY <1>3, WorkerAfter DEF Report
  <2>2. settled = taken /\ settled' = taken - 0
    BY <1>0, <2>1 DEF settled
  <2> QED
    BY <1>0, <1>1, <2>2
<1>4. CASE DeadlinePasses \/ EndCollect \/ SetDepth
  <2>1. worker.pc # "report" /\ worker'.pc # "report" /\ worker'.batch = worker.batch
    BY <1>4, WorkerAfter DEF DeadlinePasses, EndCollect, SetDepth
  <2> QED
    BY <1>0, <1>1, <2>1 DEF settled
<1>5. CASE worker' = worker
  BY <1>0, <1>1, <1>5 DEF settled
<1> QED
  BY <1>2, <1>3, <1>4, <1>5, Zenon DEF Next, WorkerStep, ProducerStep, Stop, NotifyStop, RecordReadDepth, RecordSetDepth

\* Every step keeps the account of rows and given-up events.
LEMMA OutcomesKept ==
    ASSUME TypeOK, TypeOK', Ordered, InOrder, Outcomes, Hands, Lifecycle, Next
    PROVE  Outcomes'
<1>0. taken \in Nat /\ settled \in Nat /\ Len(worker.batch) \in Nat
  BY Borders, Lengths
<1>1. CASE PersistSucceeds \/ PersistFails
  BY <1>1, AttemptKeepsOutcomes
<1>2. CASE \E p \in Producers : Record(p)
  <2>1. PICK p \in Producers : Record(p)
    BY <1>2
  <2>2. UNCHANGED <<worker, rows, abandoned>>
    BY <2>1, Recorded
  <2>3. taken' = taken /\ \A i \in 1 .. Len(accepted) : accepted'[i] = accepted[i]
    BY <2>1, RecordExtends
  <2>4. settled' = settled
    BY <2>2, <2>3 DEF settled
  <2> QED
    BY <1>0, <2>2, <2>3, <2>4, OutcomesFrame
<1>3. CASE Dequeue
  <2>1. UNCHANGED <<rows, abandoned, accepted>> /\ worker.pc = "collect"
    BY <1>3 DEF Dequeue, history
  <2>2. taken' = taken + 1 /\ Len(worker'.batch) = Len(worker.batch) + 1 /\ worker'.pc = "collect"
    BY <1>3, <2>1, DequeueKeepsOrder, WorkerAfter
  <2>3. settled = taken - Len(worker.batch) /\ settled' = taken' - Len(worker'.batch)
    BY <2>1, <2>2 DEF settled
  <2>4. settled' = settled /\ taken <= taken'
    BY <1>0, <2>2, <2>3
  <2> QED
    BY <1>0, <2>1, <2>4, OutcomesFrame
<1>4. CASE ~Dequeue /\ ~PersistSucceeds /\ ~PersistFails /\ \A p \in Producers : ~Record(p)
  <2>1. UNCHANGED <<rows, abandoned>> /\ settled' = settled
    BY <1>4, SettledFrame
  <2>2. taken' = taken /\ accepted' = accepted
    BY <1>4, OtherSteps DEF taken
  <2> QED
    BY <1>0, <2>1, <2>2, OutcomesFrame
<1> QED
  BY <1>1, <1>2, <1>3, <1>4
-----------------------------------------------------------------------------
(* The theorems. *)

\* The inductive invariant: order, outcomes and the worker's life together.
THEOREM PipelineInvariant == Spec => []PipelineInv
<1>1. Init => PipelineInv
  <2> SUFFICES ASSUME Init PROVE PipelineInv
    OBVIOUS
  <2>1. TypeOK
    BY InitTypes
  <2>2. worker.pc = "none" /\ worker.batch = <<>>
    BY NoWorker DEF Init
  <2>3. Len(queue_) = 0 /\ Len(accepted) = 0 /\ Len(worker.batch) = 0 /\ taken = 0
    BY <2>2 DEF Init, taken
  <2>4. Ordered /\ InOrder
    BY <2>3 DEF Ordered, InOrder
  <2>5. Outcomes
    BY DEF Init, Outcomes
  <2>6. Hands /\ Lifecycle
    BY <2>2, <2>3 DEF Hands, Lifecycle, Init
  <2> QED
    BY <2>1, <2>4, <2>5, <2>6 DEF PipelineInv
<1>2. PipelineInv /\ [Next]_vars => PipelineInv'
  <2> SUFFICES ASSUME PipelineInv, [Next]_vars PROVE PipelineInv'
    OBVIOUS
  <2> USE DEF PipelineInv
  <2>1. TypeOK'
    BY TypesKept
  <2>2. CASE Next
    BY <2>1, <2>2, OrderKept, OutcomesKept, HandsKept, LifecycleKept
  <2>3. CASE UNCHANGED vars
    BY <2>1, <2>3, Zenon DEF vars, Ordered, InOrder, Outcomes, Hands, Lifecycle, taken, settled, among
  <2> QED
    BY <2>2, <2>3
<1> QED
  BY <1>1, <1>2, PTL DEF Spec

\* Types and the limits of queue and batch, for every configuration that
\* AnalyticsConfig::Validate accepts.
THEOREM TypeCorrect == Spec => []TypeOK
<1>1. PipelineInv => TypeOK
  BY DEF PipelineInv
<1> QED
  BY <1>1, PipelineInvariant, PTL

\* A Stop() that returned has drained what was accepted before it was called.
THEOREM StopHasDrained == Spec => []StopDrains
<1>1. PipelineInv => StopDrains
  BY DEF PipelineInv, StopDrains, Lifecycle, Hands
<1> QED
  BY <1>1, PipelineInvariant, PTL

\* Sequences of events with the same elements are the same.
LEMMA SameSequence ==
    ASSUME NEW s \in Seq(Events), NEW t \in Seq(Events), Len(s) = Len(t),
           \A i \in 1 .. Len(s) : s[i] = t[i]
    PROVE  s = t
OBVIOUS

\* Events leave the queue in the order TryEnqueue accepted them, none skipped.
THEOREM QueueStaysFifo == Spec => []QueueIsFifo
<1>1. PipelineInv => QueueIsFifo
  <2> SUFFICES ASSUME PipelineInv PROVE QueueIsFifo
    OBVIOUS
  <2> DEFINE n == Len(worker.batch)  a == Len(accepted)  q == Len(queue_)
  <2>1. /\ queue_ \in Seq(Events) /\ accepted \in Seq(Events) /\ worker.batch \in Seq(Events)
        /\ n \in Nat /\ a \in Nat /\ q \in Nat /\ taken = a - q
    BY Lengths DEF PipelineInv, taken
  <2>2. taken \in Nat /\ taken <= a /\ taken - n \in Nat
    BY Borders DEF PipelineInv
  <2>3. queue_ = SubSeq(accepted, taken + 1, a)
    <3>1. \A i \in 1 .. q : queue_[i] = accepted[taken + i]
      BY DEF PipelineInv, InOrder
    <3> HIDE DEF a, q, n
    <3>2. SubSeq(accepted, taken + 1, a) \in Seq(Events) /\ Len(SubSeq(accepted, taken + 1, a)) = q
      BY <2>1, <2>2 DEF a
    <3>3. \A i \in 1 .. q : SubSeq(accepted, taken + 1, a)[i] = accepted[taken + i]
      BY <2>1, <2>2 DEF a
    <3> QED
      BY <2>1, <3>1, <3>2, <3>3, SameSequence DEF q
  <2>4. worker.batch = SubSeq(accepted, taken - n + 1, taken)
    <3> DEFINE t == SubSeq(accepted, taken - n + 1, taken)
    <3>1. \A i \in 1 .. n : worker.batch[i] = accepted[taken - n + i]
      BY DEF PipelineInv, InOrder
    <3>2. Len(worker.batch) = n
      OBVIOUS
    <3> HIDE DEF a, q, n
    <3>3. t \in Seq(Events) /\ Len(t) = n
      BY <2>1, <2>2 DEF a
    <3>4. \A i \in 1 .. n : t[i] = accepted[taken - n + i]
      BY <2>1, <2>2, SMTT(30) DEF a
    <3> HIDE DEF t
    <3>5. \A i \in 1 .. Len(worker.batch) : worker.batch[i] = t[i]
      BY <3>1, <3>2, <3>4
    <3>6. worker.batch \in Seq(Events) /\ Len(worker.batch) = Len(t)
      BY <2>1, <3>2, <3>3
    <3>7. worker.batch = t
      BY <3>3, <3>5, <3>6, SameSequence
    <3> QED
      BY <3>7 DEF t
  <2>5. q <= a /\ n <= taken
    <3> HIDE DEF a, q, n
    <3> QED
      BY <2>1, <2>2
  <2> QED
    BY <2>3, <2>4, <2>5, Zenon DEF QueueIsFifo
<1> QED
  BY <1>1, PipelineInvariant, PTL
-----------------------------------------------------------------------------
(* The pipeline implements the best-effort log. *)

\* The log's variables, as AnalyticsPipeline maps them.
pendingBar == {e \in Range(accepted) : rows[e] = 0 /\ e \notin abandoned}
lostBar == {e \in abandoned : rows[e] = 0}

\* An event not yet built is in no part of the log.
LEMMA NextIsUnseen ==
    ASSUME PipelineInv
    PROVE  /\ issued + 1 \notin Range(accepted) /\ issued + 1 \notin abandoned
           /\ issued + 1 \in Events => rows[issued + 1] = 0
<1> DEFINE e == issued + 1
<1>1. /\ issued \in Nat /\ accepted \in Seq(Events) /\ Len(accepted) \in Nat
      /\ taken \in Nat /\ taken <= Len(accepted) /\ settled \in Nat /\ settled <= Len(accepted)
  <2>1. issued \in Nat /\ accepted \in Seq(Events) /\ Len(accepted) \in Nat
    BY BoundsAssumption DEF PipelineInv, TypeOK
  <2>2. taken \in Nat /\ taken <= Len(accepted) /\ settled \in Nat /\ settled <= taken
    BY Borders DEF PipelineInv
  <2> QED
    BY <2>1, <2>2
<1>2. \A i \in 1 .. Len(accepted) : accepted[i] # e
  BY <1>1 DEF PipelineInv, Ordered
<1> HIDE DEF e
<1>3. \A n \in Nat : n <= Len(accepted) => ~among(e, n)
  BY <1>1, <1>2 DEF among
<1>4. e \notin Range(accepted)
  BY <1>1, <1>2 DEF Range
<1>5. e \notin abandoned
  BY <1>1, <1>3 DEF PipelineInv, Outcomes
<1>6. e \in Events => rows[e] = 0
  BY <1>1, <1>3 DEF PipelineInv, Outcomes
<1> QED
  BY <1>4, <1>5, <1>6 DEF e

\* The batch that is being persisted holds no event that was given up.
LEMMA BatchIsOpen ==
    ASSUME PipelineInv, worker.pc = "persist", NEW e \in Range(worker.batch)
    PROVE  e \in Range(accepted) /\ e \notin abandoned
<1>1. /\ accepted \in Seq(Events) /\ Len(accepted) \in Nat /\ taken \in Nat /\ taken <= Len(accepted)
      /\ settled = taken - Len(worker.batch) /\ settled \in Nat
  BY Borders, Lengths DEF PipelineInv, settled
<1>2. PICK i \in 1 .. taken : i > settled /\ accepted[i] = e
  BY <1>1, BatchTaken DEF PipelineInv
<1>3. i \in 1 .. Len(accepted)
  BY <1>1, <1>2
<1>4. e \in Range(accepted)
  BY <1>1, <1>2, <1>3 DEF Range
<1>5. ASSUME e \in abandoned PROVE FALSE
  <2>1. PICK j \in 1 .. settled : accepted[j] = e
    BY <1>5 DEF PipelineInv, Outcomes, among
  <2>2. j \in 1 .. Len(accepted) /\ j < i
    BY <1>1, <1>2, <2>1
  <2>3. accepted[j] < accepted[i]
    BY <1>3, <2>2 DEF PipelineInv, Ordered
  <2>4. e \in Nat
    BY <1>1, <1>2, <1>3, BoundsAssumption, SMTT(30) DEF Events
  <2> QED
    BY <1>2, <2>1, <2>3, <2>4
<1> QED
  BY <1>4, <1>5

\* An attempt to persist settles pending events: those stored now, and those given up.
LEMMA AttemptSettles ==
    ASSUME PipelineInv, PersistSucceeds \/ PersistFails
    PROVE  Log!Settle({e \in Events : rows'[e] # rows[e]}, lostBar' \ lostBar)
<1> DEFINE kept == {e \in Events : rows'[e] # rows[e]}
           dropped == lostBar' \ lostBar
           B == Range(worker.batch)
<1>0. /\ rows \in [Events -> Nat] /\ abandoned \subseteq Events /\ B \subseteq Events
      /\ rows' \in [Events -> Nat] /\ Range(accepted) \subseteq Events
  <2>1. rows \in [Events -> Nat] /\ abandoned \subseteq Events /\ accepted \in Seq(Events)
    BY DEF PipelineInv, TypeOK
  <2>2. B \subseteq Events
    BY WorkerFields DEF PipelineInv, Range
  <2>3. rows' \in [Events -> Nat]
    BY <2>1 DEF PersistSucceeds, PersistFails, inserted
  <2> QED
    BY <2>1, <2>2, <2>3 DEF Range
<1>1. /\ \A e \in Events : rows'[e] = rows[e] \/ (e \in B /\ rows[e] = 0 /\ rows'[e] = 1)
      /\ abandoned' = abandoned \/ abandoned' = abandoned \cup B
      /\ accepted' = accepted
  BY Attempted DEF PipelineInv
<1>2. \A e \in B : e \in Range(accepted) /\ e \notin abandoned
  BY BatchIsOpen, Attempted DEF PipelineInv
<1> HIDE DEF B
<1>3. kept \subseteq pendingBar /\ kept \cap dropped = {}
  BY <1>0, <1>1, <1>2 DEF pendingBar, lostBar
<1>4. dropped \subseteq pendingBar
  BY <1>0, <1>1, <1>2 DEF pendingBar, lostBar
<1>5. lostBar \subseteq lostBar'
  BY <1>0, <1>1, <1>2 DEF lostBar
<1>6. pendingBar' = {e \in Range(accepted) : rows'[e] = 0 /\ e \notin abandoned'}
  BY <1>1 DEF pendingBar
<1>7. pendingBar' = pendingBar \ (kept \cup dropped)
  <2>1. ASSUME NEW e \in pendingBar' PROVE e \in pendingBar \ (kept \cup dropped)
    BY <1>0, <1>1, <1>6, <2>1 DEF pendingBar, lostBar
  <2>2. ASSUME NEW e \in pendingBar \ (kept \cup dropped) PROVE e \in pendingBar'
    BY <1>0, <1>1, <1>6, <2>2 DEF pendingBar, lostBar
  <2> QED
    BY <2>1, <2>2
<1>8. rows' = [e \in Events |-> IF e \in kept THEN 1 ELSE rows[e]]
  BY <1>0, <1>1
<1>9. lostBar' = lostBar \cup dropped
  BY <1>5
<1> QED
  BY <1>3, <1>4, <1>7, <1>8, <1>9 DEF Log!Settle, pendingBar, lostBar

\* Recording an event is accepting it, or nothing when the queue dropped it.
LEMMA RecordAccepts ==
    ASSUME PipelineInv, NEW p \in Producers, Record(p)
    PROVE  (\E e \in Events : Log!Accept(e)) \/ UNCHANGED <<pendingBar, rows, lostBar>>
<1>0. PICK e \in Events : e = issued + 1
  BY Recorded DEF PipelineInv
<1>1. /\ UNCHANGED <<rows, abandoned>>
      /\ accepted' = Append(accepted, e) \/ accepted' = accepted
  BY <1>0, Recorded DEF PipelineInv
<1>2. e \notin Range(accepted) /\ e \notin abandoned /\ rows[e] = 0 /\ accepted \in Seq(Events)
  BY <1>0, NextIsUnseen DEF PipelineInv, TypeOK
<1>3. lostBar' = lostBar
  BY <1>1 DEF lostBar
<1>4. CASE accepted' = accepted
  BY <1>1, <1>3, <1>4 DEF pendingBar
<1>5. CASE accepted' = Append(accepted, e)
  <2>1. Range(accepted') = Range(accepted) \cup {e}
    <3>1. /\ Append(accepted, e) \in Seq(Events) /\ Len(Append(accepted, e)) = Len(accepted) + 1
          /\ \A i \in 1 .. Len(accepted) : Append(accepted, e)[i] = accepted[i]
          /\ Append(accepted, e)[Len(accepted) + 1] = e
      BY <1>1, <1>2, Appended
    <3>2. /\ DOMAIN accepted = 1 .. Len(accepted) /\ DOMAIN accepted' = 1 .. Len(accepted')
          /\ Len(accepted) \in Nat /\ Len(accepted') = Len(accepted) + 1
      BY <1>2, <1>5, <3>1
    <3>3. DOMAIN accepted' = DOMAIN accepted \cup {Len(accepted) + 1}
      BY <3>2
    <3> QED
      BY <1>5, <3>1, <3>2, <3>3 DEF Range
  <2>2. pendingBar' = pendingBar \cup {e}
    BY <1>1, <1>2, <2>1 DEF pendingBar
  <2>3. e \in {x \in Events : x \notin pendingBar \cup lostBar /\ rows[x] = 0}
    BY <1>1, <1>2 DEF pendingBar, lostBar
  <2>4. Log!Accept(e)
    BY <1>1, <1>3, <2>2, <2>3 DEF Log!Accept, Log!Unseen, pendingBar, lostBar
  <2> QED
    BY <2>4
<1> QED
  BY <1>1, <1>4, <1>5

\* The pipeline is a best-effort log: no event is stored twice by a retried
\* InsertBatch, none that was never accepted, and none comes back once stored
\* or given up.
THEOREM PipelineImplementsLog == Spec => ImplementsLog
<1>1. Init => Log!Init
  <2> SUFFICES ASSUME Init PROVE Log!Init
    OBVIOUS
  <2>1. Range(accepted) = {} /\ abandoned = {} /\ rows = [e \in Events |-> 0]
    BY DEF Init, Range
  <2> QED
    BY <2>1 DEF Log!Init
<1>2. PipelineInv /\ [Next]_vars => [Log!Next]_(Log!vars)
  <2> SUFFICES ASSUME PipelineInv, [Next]_vars PROVE [Log!Next]_(Log!vars)
    OBVIOUS
  <2>1. UNCHANGED <<pendingBar, rows, lostBar>> => UNCHANGED Log!vars
    BY DEF Log!vars, pendingBar, lostBar
  <2>2. CASE \E p \in Producers : Record(p)
    BY <2>1, <2>2, RecordAccepts DEF Log!Next
  <2>3. CASE PersistSucceeds \/ PersistFails
    BY <2>3, AttemptSettles DEF Log!Next, lostBar
  <2>4. CASE UNCHANGED <<accepted, rows, abandoned>>
    BY <2>1, <2>4 DEF pendingBar, lostBar
  <2>5. CASE Dequeue
    BY <2>4, <2>5 DEF Dequeue, history
  <2>6. CASE /\ Next /\ ~Dequeue /\ ~PersistSucceeds /\ ~PersistFails
             /\ \A p \in Producers : ~Record(p)
    BY <2>4, <2>6, OtherSteps, SettledFrame DEF PipelineInv
  <2>7. CASE UNCHANGED vars
    BY <2>4, <2>7 DEF vars
  <2> QED
    BY <2>2, <2>3, <2>5, <2>6, <2>7
<1> QED
  BY <1>1, <1>2, PipelineInvariant, PTL DEF Spec, ImplementsLog, Log!Spec
-----------------------------------------------------------------------------
(* Every event is accounted for. *)

\* EventsAccounted, with what holds it up: the settled events by their positions, and
\* what Report relies on when it has read how the attempts ended.
Books ==
    /\ enqueued_total_ = Len(accepted) /\ enqueued_total_ + dropped_total_ = issued
    /\ \A i \in 1 .. settled : accepted[i] \in abandoned \/ rows[accepted[i]] > 0
    /\ worker.pc = "report" =>
          /\ worker.ok => Range(worker.batch) \cap abandoned = {}
          /\ ~worker.ok => Range(worker.batch) \subseteq abandoned
    /\ counters.persisted + Cardinality(abandoned \ Range(worker.batch)) + Len(worker.batch) = taken

\* An accepted event that is not settled is in the batch or in the queue.
LEMMA Placed ==
    ASSUME TypeOK, InOrder, NEW i \in 1 .. Len(accepted), i > taken - Len(worker.batch)
    PROVE  accepted[i] \in Range(queue_) \cup Range(worker.batch)
<1> DEFINE b == Len(worker.batch)
<1>1. /\ queue_ \in Seq(Events) /\ worker.batch \in Seq(Events) /\ Len(queue_) \in Nat /\ b \in Nat
      /\ Len(accepted) \in Nat /\ taken = Len(accepted) - Len(queue_)
      /\ taken \in Nat /\ taken - b \in Nat
  BY Lengths, Borders DEF taken
<1>2. CASE i > taken
  <2>1. i - taken \in 1 .. Len(queue_) /\ taken + (i - taken) = i
    BY <1>1, <1>2
  <2>2. queue_[i - taken] = accepted[i]
    BY <2>1 DEF InOrder
  <2> QED
    BY <1>1, <2>1, <2>2 DEF Range
<1>3. CASE i <= taken
  <2>1. i - (taken - b) \in 1 .. b /\ taken - b + (i - (taken - b)) = i
    <3> HIDE DEF b
    <3>1. i > taken - b
      BY DEF b
    <3> QED
      BY <1>1, <1>3, <3>1
  <2>2. worker.batch[i - (taken - b)] = accepted[i]
    BY <2>1 DEF InOrder
  <2> QED
    BY <1>1, <2>1, <2>2 DEF Range
<1> QED
  BY <1>1, <1>2, <1>3

\* The books say what the run checks.
LEMMA BooksImply ==
    ASSUME PipelineInv, Books
    PROVE  EventsAccounted
<1>1. ASSUME NEW e \in Range(accepted)
      PROVE  e \in Range(queue_) \cup Range(worker.batch) \cup abandoned \/ rows[e] > 0
  <2>1. /\ accepted \in Seq(Events) /\ taken \in Nat /\ settled \in Nat /\ Len(accepted) \in Nat
        /\ taken - Len(worker.batch) \in Nat /\ taken - Len(worker.batch) <= settled
    BY Lengths, Borders DEF PipelineInv
  <2>2. PICK i \in 1 .. Len(accepted) : accepted[i] = e
    BY <1>1, <2>1 DEF Range
  <2>3. CASE i > taken - Len(worker.batch)
    BY <2>2, <2>3, Placed DEF PipelineInv
  <2>4. CASE i <= taken - Len(worker.batch)
    <3>1. i \in 1 .. settled
      BY <2>1, <2>2, <2>4
    <3> QED
      BY <2>2, <3>1 DEF Books
  <2> QED
    BY <2>1, <2>2, <2>3, <2>4
<1> QED
  BY <1>1 DEF Books, EventsAccounted

\* The accepted events are all different.
LEMMA AllDiffer ==
    ASSUME TypeOK, Ordered, NEW i \in 1 .. Len(accepted), NEW j \in 1 .. Len(accepted), i # j
    PROVE  accepted[i] # accepted[j]
<1>1. accepted \in Seq(Events) /\ Len(accepted) \in Nat
  BY Lengths
<1>2. accepted[i] \in Nat /\ accepted[j] \in Nat
  BY <1>1, BoundsAssumption DEF Events
<1>3. i < j \/ j < i
  BY <1>1
<1> QED
  BY <1>2, <1>3 DEF Ordered

\* An event that is past the border has not been given up.
LEMMA PastIsOpen ==
    ASSUME PipelineInv, NEW i \in 1 .. Len(accepted), i > settled
    PROVE  accepted[i] \notin abandoned
<1>1. settled \in Nat /\ Len(accepted) \in Nat /\ settled <= Len(accepted)
  BY Borders, Lengths DEF PipelineInv
<1>2. ASSUME accepted[i] \in abandoned PROVE FALSE
  <2>1. PICK j \in 1 .. settled : accepted[j] = accepted[i]
    BY <1>2 DEF PipelineInv, Outcomes, among
  <2>2. j \in 1 .. Len(accepted) /\ j # i
    BY <1>1, <2>1
  <2> QED
    BY <2>1, <2>2, AllDiffer DEF PipelineInv
<1> QED
  BY <1>2

\* The batch has as many events as it is long.
LEMMA BatchCounted ==
    ASSUME PipelineInv
    PROVE  /\ IsFiniteSet(Range(worker.batch)) /\ Cardinality(Range(worker.batch)) = Len(worker.batch)
           /\ IsFiniteSet(abandoned)
<1> DEFINE s == worker.batch  n == Len(worker.batch)
<1>1. /\ s \in Seq(Events) /\ n \in Nat /\ taken \in Nat /\ taken - n \in Nat
      /\ Len(accepted) \in Nat /\ taken <= Len(accepted)
  BY Lengths, Borders DEF PipelineInv
<1>2. ASSUME NEW i \in 1 .. n, NEW j \in 1 .. n, s[i] = s[j] PROVE i = j
  <2>1. s[i] = accepted[taken - n + i] /\ s[j] = accepted[taken - n + j]
    BY DEF PipelineInv, InOrder
  <2> HIDE DEF n, s
  <2>2. taken - n + i \in 1 .. Len(accepted) /\ taken - n + j \in 1 .. Len(accepted)
    BY <1>1
  <2>3. taken - n + i = taken - n + j
    <3>1. accepted[taken - n + i] = accepted[taken - n + j]
      BY <1>2, <2>1, Zenon
    <3> QED
      BY <2>2, <3>1, AllDiffer, Zenon DEF PipelineInv
  <2> QED
    BY <1>1, <2>3
<1>3. s \in [1 .. n -> Range(s)] /\ DOMAIN s = 1 .. n
  BY <1>1 DEF Range
<1>4. s \in Bijection(1 .. n, Range(s))
  BY <1>2, <1>3 DEF Bijection, Injection, Surjection, IsInjective, Range
<1>5. ExistsBijection(1 .. n, Range(s))
  BY <1>4 DEF ExistsBijection
<1>6. IsFiniteSet(Range(s)) /\ Cardinality(Range(s)) = n
  BY <1>1, <1>5, FS_NatBijection, FS_CountingElements
<1>7. IsFiniteSet(Events)
  BY BoundsAssumption, FS_Interval DEF Events
<1>8. abandoned \in SUBSET Events
  BY DEF PipelineInv, TypeOK
<1> QED
  BY <1>6, <1>7, <1>8, FS_Subset

\* Steps that move no event and count none.
LEMMA BooksFrame ==
    ASSUME Books, UNCHANGED <<queue_, enqueued_total_, dropped_total_, issued, accepted, rows, abandoned>>,
           counters'.persisted = counters.persisted, settled' = settled,
           worker'.batch = worker.batch, worker'.pc # "report" \/ worker' = worker
    PROVE  Books'
<1>1. taken' = taken
  BY DEF taken
<1>2. \A i \in 1 .. settled' : accepted'[i] \in abandoned' \/ rows'[accepted'[i]] > 0
  BY DEF Books
<1>3. (worker.pc = "report" =>
          /\ worker.ok => Range(worker.batch) \cap abandoned = {}
          /\ ~worker.ok => Range(worker.batch) \subseteq abandoned)'
  BY DEF Books
<1> QED
  BY <1>1, <1>2, <1>3 DEF Books

\* A recorded event is counted by the queue, accepted or dropped.
LEMMA RecordKeepsBooks ==
    ASSUME PipelineInv, Books, NEW p \in Producers, Record(p)
    PROVE  Books'
<1>1. TypeOK /\ InOrder /\ Ordered
  BY DEF PipelineInv
<1>2. /\ UNCHANGED <<worker, rows, abandoned>> /\ issued' = issued + 1 /\ issued \in Nat
      /\ issued + 1 \in Events
  BY <1>1, Recorded
<1>3. /\ taken' = taken /\ \A i \in 1 .. Len(accepted) : accepted'[i] = accepted[i]
  BY <1>1, RecordExtends
<1>4. UNCHANGED counters
  BY DEF Record, metrics
<1>5. settled' = settled
  BY <1>2, <1>3 DEF settled
<1>6. settled \in Nat /\ settled <= Len(accepted) /\ Len(accepted) \in Nat /\ accepted \in Seq(Events)
  BY <1>1, Borders, Lengths
<1>7. enqueued_total_' = Len(accepted') /\ enqueued_total_' + dropped_total_' = issued'
  <2>1. PICK result \in {"Enqueued", "DroppedFull"} : TryEnqueue(issued + 1, result)
    BY DEF Record
  <2>2. enqueued_total_ \in Nat /\ dropped_total_ \in Nat
    BY <1>1 DEF TypeOK
  <2>3. Len(Append(accepted, issued + 1)) = Len(accepted) + 1
    BY <1>2, <1>6, Appended
  <2>4. enqueued_total_ = Len(accepted) /\ enqueued_total_ + dropped_total_ = issued
    BY DEF Books
  <2> QED
    BY <1>2, <2>1, <2>2, <2>3, <2>4 DEF TryEnqueue
<1>8. ASSUME NEW i \in 1 .. settled' PROVE accepted'[i] \in abandoned' \/ rows'[accepted'[i]] > 0
  <2>1. i \in 1 .. settled /\ i \in 1 .. Len(accepted)
    BY <1>5, <1>6
  <2> QED
    BY <1>2, <1>3, <2>1 DEF Books
<1>9. (worker.pc = "report" =>
          /\ worker.ok => Range(worker.batch) \cap abandoned = {}
          /\ ~worker.ok => Range(worker.batch) \subseteq abandoned)'
  BY <1>2 DEF Books
<1> QED
  BY <1>2, <1>3, <1>4, <1>7, <1>8, <1>9 DEF Books

\* The event that is taken has not been given up, so it counts as in hand.
LEMMA DequeueKeepsBooks ==
    ASSUME PipelineInv, TypeOK', Books, Dequeue
    PROVE  Books'
<1> DEFINE e == Head(queue_)
<1>1. /\ UNCHANGED <<enqueued_total_, dropped_total_, issued, accepted, rows, abandoned, counters>>
      /\ worker.pc = "collect" /\ queue_ # <<>>
  BY DEF Dequeue, history, metrics
<1>2. /\ worker'.pc = "collect" /\ worker'.batch = Append(worker.batch, e)
      /\ taken' = taken + 1 /\ Len(worker'.batch) = Len(worker.batch) + 1
  BY <1>1, WorkerAfter, DequeueKeepsOrder DEF PipelineInv
<1>3. /\ taken \in Nat /\ Len(worker.batch) \in Nat /\ worker.batch \in Seq(Events)
      /\ queue_ \in Seq(Events) /\ Len(accepted) \in Nat /\ Len(queue_) \in Nat
      /\ settled \in Nat /\ settled <= taken
      /\ taken = Len(accepted) - Len(queue_)
  BY Borders, Lengths DEF PipelineInv, taken
<1>4. settled' = settled
  <2> DEFINE n == Len(worker.batch)
  <2>1. settled = taken - n /\ settled' = taken' - Len(worker'.batch)
    BY <1>1, <1>2 DEF settled
  <2>2. n \in Nat /\ Len(worker'.batch) = n + 1
    BY <1>2, <1>3
  <2>3. taken \in Nat /\ taken' = taken + 1
    BY <1>2, <1>3
  <2> HIDE DEF n
  <2> QED
    BY <2>1, <2>2, <2>3
<1>5. 1 \in 1 .. Len(queue_) /\ e = queue_[1] /\ e \in Events
  BY <1>1, <1>3
<1> HIDE DEF e
<1>6. e \notin abandoned
  <2>1. taken + 1 \in 1 .. Len(accepted) /\ taken + 1 > settled
    BY <1>3, <1>5
  <2>2. e = accepted[taken + 1]
    BY <1>5 DEF PipelineInv, InOrder
  <2> QED
    BY <2>1, <2>2, PastIsOpen
<1>7. Range(worker'.batch) = Range(worker.batch) \cup {e}
  <2>1. /\ Append(worker.batch, e) \in Seq(Events) /\ Len(Append(worker.batch, e)) = Len(worker.batch) + 1
        /\ \A i \in 1 .. Len(worker.batch) : Append(worker.batch, e)[i] = worker.batch[i]
        /\ Append(worker.batch, e)[Len(worker.batch) + 1] = e
    BY <1>3, <1>5, Appended
  <2>2. /\ DOMAIN worker.batch = 1 .. Len(worker.batch)
        /\ DOMAIN worker'.batch = (1 .. Len(worker.batch)) \cup {Len(worker.batch) + 1}
    BY <1>2, <1>3, <2>1
  <2> DEFINE n == Len(worker.batch)
  <2>3. /\ \A i \in 1 .. n : worker'.batch[i] = worker.batch[i]
        /\ worker'.batch[n + 1] = e
    BY <1>2, <2>1, Zenon
  <2>4. DOMAIN worker.batch = 1 .. n /\ DOMAIN worker'.batch = (1 .. n) \cup {n + 1}
    BY <2>2
  <2> HIDE DEF n
  <2> QED
    BY <2>3, <2>4 DEF Range
<1>8. abandoned' \ Range(worker'.batch) = abandoned \ Range(worker.batch)
  BY <1>1, <1>6, <1>7
<1>9. Cardinality(abandoned \ Range(worker.batch)) \in Nat
  <2>1. IsFiniteSet(abandoned \ Range(worker.batch))
    <3>1. IsFiniteSet(abandoned)
      BY BatchCounted
    <3> QED
      BY <3>1, FS_Difference, Zenon
  <2> QED
    BY <2>1, FS_CardinalityType
<1>10. counters'.persisted + Cardinality(abandoned' \ Range(worker'.batch)) + Len(worker'.batch) = taken'
  <2>1. counters.persisted \in Nat
    BY DEF PipelineInv, TypeOK, Counters
  <2>2. counters.persisted + Cardinality(abandoned \ Range(worker.batch)) + Len(worker.batch) = taken
    BY DEF Books
  <2>3. counters' = counters /\ Cardinality(abandoned' \ Range(worker'.batch)) = Cardinality(abandoned \ Range(worker.batch))
    BY <1>1, <1>8, Zenon
  <2> DEFINE n == Len(worker.batch)  c == Cardinality(abandoned \ Range(worker.batch))
  <2>4. /\ n \in Nat /\ c \in Nat /\ counters.persisted + c + n = taken /\ Len(worker'.batch) = n + 1
        /\ Cardinality(abandoned' \ Range(worker'.batch)) = c
    BY <1>2, <1>3, <1>9, <2>2, <2>3
  <2> HIDE DEF n, c
  <2>5. PICK k \in Nat : k = counters.persisted
    BY <2>1, Zenon
  <2>6. k + c + n = taken
    BY <2>4, <2>5, Zenon
  <2>7. k + c + (n + 1) = taken + 1
    BY <2>4, <2>6
  <2> QED
    BY <1>2, <2>3, <2>4, <2>5, <2>7
<1> QED
  BY <1>1, <1>2, <1>4, <1>10 DEF Books

\* The outcomes that are known stay known.
LEMMA AttemptSettled ==
    ASSUME PipelineInv, Books, PersistSucceeds \/ PersistFails, NEW i \in 1 .. settled
    PROVE  accepted'[i] \in abandoned' \/ rows'[accepted'[i]] > 0
<1>1. TypeOK
  BY DEF PipelineInv
<1>2. accepted' = accepted /\ abandoned \subseteq abandoned'
  BY <1>1, Attempted
<1>3. settled \in Nat /\ settled <= Len(accepted) /\ Len(accepted) \in Nat /\ accepted \in Seq(Events)
  BY <1>1, Borders, Lengths DEF PipelineInv
<1>4. accepted[i] \in Events
  BY <1>3
<1>5. rows'[accepted[i]] = rows[accepted[i]] \/ rows'[accepted[i]] = 1
  BY <1>1, <1>4, Attempted
<1> QED
  BY <1>2, <1>5 DEF Books

\* All events of the batch are settled once the attempts have ended.
LEMMA BatchSettles ==
    ASSUME PipelineInv, Books, PersistSucceeds \/ PersistFails,
           \A e \in Range(worker.batch) : e \in abandoned' \/ rows'[e] > 0
    PROVE  \A i \in 1 .. taken : accepted'[i] \in abandoned' \/ rows'[accepted'[i]] > 0
<1> SUFFICES ASSUME NEW i \in 1 .. taken PROVE accepted'[i] \in abandoned' \/ rows'[accepted'[i]] > 0
  OBVIOUS
<1> DEFINE n == Len(worker.batch)
<1>1. TypeOK /\ InOrder
  BY DEF PipelineInv
<1>2. accepted' = accepted /\ worker.pc = "persist"
  BY <1>1, Attempted
<1>3. /\ taken \in Nat /\ n \in Nat /\ taken - n \in Nat /\ settled = taken - n
      /\ worker.batch \in Seq(Events)
  BY <1>1, <1>2, Borders, Lengths DEF settled
<1>4. CASE i <= taken - n
  <2>1. i \in 1 .. settled
    BY <1>3, <1>4
  <2> QED
    BY <2>1, AttemptSettled
<1>5. CASE i > taken - n
  <2>1. i - (taken - n) \in 1 .. n /\ taken - n + (i - (taken - n)) = i
    <3> HIDE DEF n
    <3> QED
      BY <1>3, <1>5
  <2>2. worker.batch[i - (taken - n)] = accepted[i]
    BY <1>1, <2>1 DEF InOrder
  <2>3. accepted[i] \in Range(worker.batch)
    BY <1>3, <2>1, <2>2 DEF Range
  <2> QED
    BY <1>2, <2>3
<1> QED
  BY <1>3, <1>4, <1>5

\* An attempt leaves the count alone: the batch stays in hand.
LEMMA AttemptCount ==
    ASSUME PipelineInv, Books, PersistSucceeds \/ PersistFails
    PROVE  /\ enqueued_total_' = Len(accepted') /\ enqueued_total_' + dropped_total_' = issued'
           /\ counters'.persisted + Cardinality(abandoned' \ Range(worker'.batch)) + Len(worker'.batch) = taken'
           /\ taken' = taken
<1>1. TypeOK
  BY DEF PipelineInv
<1>2. /\ UNCHANGED <<enqueued_total_, dropped_total_, issued, counters>>
  BY DEF PersistSucceeds, PersistFails, queue, history, metrics
<1>3. /\ UNCHANGED <<queue_, accepted>> /\ worker'.batch = worker.batch
      /\ abandoned' = abandoned \/ abandoned' = abandoned \cup Range(worker.batch)
  BY <1>1, Attempted
<1>4. abandoned' \ Range(worker'.batch) = abandoned \ Range(worker.batch)
  <2>1. Range(worker'.batch) = Range(worker.batch)
    BY <1>3
  <2> QED
    BY <1>3, <2>1, Zenon
<1>5. taken' = taken
  BY <1>3 DEF taken
<1> QED
  BY <1>2, <1>3, <1>4, <1>5, Zenon DEF Books

\* A batch that is persisted has all its events in the table, and none was given up.
LEMMA SuccessKeepsBooks ==
    ASSUME PipelineInv, Books, PersistSucceeds
    PROVE  Books'
<1>1. TypeOK
  BY DEF PipelineInv
<1>2. worker.pc = "persist" /\ accepted' = accepted /\ abandoned' = abandoned
  BY DEF PersistSucceeds, history
<1>3. worker'.pc = "report" /\ worker'.batch = worker.batch
  BY <1>1, WorkerAfter
<1>4. worker'.ok
  BY <1>1, WorkerFields DEF PersistSucceeds, Worker
<1>5. worker.batch \in Seq(Events) /\ Len(worker.batch) \in Nat
  BY <1>1, Lengths
<1>6. ASSUME NEW e \in Range(worker.batch) PROVE rows'[e] > 0
  <2>1. e \in Events
    BY <1>5 DEF Range
  <2>2. rows' = inserted(rows, worker.batch, Len(worker.batch))
    BY DEF PersistSucceeds
  <2>3. SubSeq(worker.batch, 1, Len(worker.batch)) = worker.batch
    BY <1>5
  <2>4. rows[e] \in Nat
    BY <1>1, <2>1 DEF TypeOK
  <2>5. rows'[e] = IF rows[e] = 0 THEN 1 ELSE rows[e]
    <3>1. rows'[e] = IF e \in Range(SubSeq(worker.batch, 1, Len(worker.batch))) /\ rows[e] = 0 THEN 1 ELSE rows[e]
      BY <2>1, <2>2, Zenon DEF inserted
    <3>2. e \in Range(SubSeq(worker.batch, 1, Len(worker.batch)))
      BY <1>6, <2>3, Zenon
    <3> QED
      BY <3>1, <3>2
  <2> QED
    BY <2>4, <2>5
<1>7. settled' = taken
  BY <1>3, AttemptCount DEF settled
<1>8. \A i \in 1 .. settled' : accepted'[i] \in abandoned' \/ rows'[accepted'[i]] > 0
  BY <1>6, <1>7, BatchSettles
<1>9. Range(worker'.batch) \cap abandoned' = {}
  BY <1>2, <1>3, BatchIsOpen
<1> QED
  BY <1>4, <1>8, <1>9, AttemptCount DEF Books

\* A batch that failed is tried again, or given up as a whole.
LEMMA FailureKeepsBooks ==
    ASSUME PipelineInv, Books, PersistFails
    PROVE  Books'
<1>1. TypeOK
  BY DEF PipelineInv
<1>2. worker.pc = "persist" /\ worker'.batch = worker.batch
  BY <1>1, WorkerAfter DEF PersistFails
<1>3. CASE worker.attempt < MaxRetries
  <2>1. worker'.pc = "persist"
    BY <1>1, <1>3, WorkerAfter
  <2>2. settled' = settled
    BY <1>2, <2>1, AttemptCount DEF settled
  <2>3. \A i \in 1 .. settled' : accepted'[i] \in abandoned' \/ rows'[accepted'[i]] > 0
    BY <2>2, AttemptSettled
  <2> QED
    BY <2>1, <2>3, AttemptCount DEF Books
<1>4. CASE ~(worker.attempt < MaxRetries)
  <2>1. /\ worker'.pc = "report"
        /\ worker' = [worker EXCEPT !.pc = "report", !.ok = FALSE]
        /\ abandoned' = abandoned \cup Range(worker.batch)
    BY <1>1, <1>4, WorkerAfter DEF PersistFails
  <2>2. ~worker'.ok
    BY <1>1, <2>1, WorkerFields DEF Worker
  <2>3. settled' = taken
    BY <2>1, AttemptCount DEF settled
  <2>4. \A i \in 1 .. settled' : accepted'[i] \in abandoned' \/ rows'[accepted'[i]] > 0
    BY <2>1, <2>3, BatchSettles
  <2>5. Range(worker'.batch) \subseteq abandoned'
    BY <1>2, <2>1
  <2> QED
    BY <2>2, <2>4, <2>5, AttemptCount DEF Books
<1> QED
  BY <1>3, <1>4

\* The batch that leaves the worker's hands is counted as persisted or as given up.
LEMMA ReportKeepsBooks ==
    ASSUME PipelineInv, Books, Report
    PROVE  Books'
<1> DEFINE n == Len(worker.batch)
           B == Range(worker.batch)
           c == Cardinality(abandoned \ B)
           m == counters.persisted
<1>1. TypeOK
  BY DEF PipelineInv
<1>2. /\ worker.pc = "report"
      /\ UNCHANGED <<queue_, enqueued_total_, dropped_total_, issued, accepted, rows, abandoned>>
  BY DEF Report, queue, history
<1>3. worker'.pc = "depth" /\ worker'.batch = <<>>
  BY <1>1, WorkerAfter
<1>4. taken \in Nat /\ n \in Nat /\ m \in Nat /\ counters \in Counters
  BY <1>1, Borders, Lengths DEF PipelineInv, TypeOK, Counters
<1>5. taken' = taken /\ settled = taken /\ settled' = taken
  <2>1. taken' = taken
    BY <1>2 DEF taken
  <2>2. settled = taken /\ settled' = taken - 0
    BY <1>2, <1>3, <2>1 DEF settled
  <2> QED
    BY <1>4, <2>1, <2>2
<1>6. /\ IsFiniteSet(abandoned) /\ Cardinality(B) = n
      /\ Cardinality(abandoned) \in Nat /\ c \in Nat
      /\ c = Cardinality(abandoned) - Cardinality(abandoned \cap B)
  <2>1. IsFiniteSet(abandoned) /\ Cardinality(B) = n
    BY BatchCounted
  <2>2. IsFiniteSet(abandoned \ B) /\ c = Cardinality(abandoned) - Cardinality(abandoned \cap B)
    BY <2>1, FS_Difference, Zenon
  <2> QED
    BY <2>1, <2>2, FS_CardinalityType
<1>7. m + c + n = taken
  BY DEF Books
<1>8. abandoned' \ Range(worker'.batch) = abandoned
  <2>1. Range(worker'.batch) = {}
    BY <1>3 DEF Range
  <2> QED
    BY <1>2, <2>1
<1>9. counters'.persisted + Cardinality(abandoned) = taken
  <2>1. CASE worker.ok
    <3>1. B \cap abandoned = {}
      BY <1>2, <2>1 DEF Books
    <3>2. abandoned \ B = abandoned
      BY <3>1
    <3>3. c = Cardinality(abandoned)
      BY <3>2
    <3>4. counters' = [counters EXCEPT !.persisted = @ + Len(worker.batch)]
      BY <2>1 DEF Report
    <3>5. counters'.persisted = m + n
      BY <1>4, <3>4 DEF Counters
    <3> HIDE DEF n, m, c, B
    <3> QED
      BY <1>4, <1>6, <1>7, <3>3, <3>5
  <2>2. CASE ~worker.ok
    <3>1. B \subseteq abandoned
      BY <1>2, <2>2 DEF Books
    <3>2. abandoned \cap B = B
      BY <3>1
    <3>3. counters' = [counters EXCEPT !.failures = @ + 1]
      BY <2>2 DEF Report
    <3>4. counters'.persisted = m
      BY <1>4, <3>3 DEF Counters
    <3>5. c = Cardinality(abandoned) - n
      BY <1>6, <3>2, Zenon
    <3> HIDE DEF n, m, c, B
    <3> QED
      BY <1>4, <1>6, <1>7, <3>4, <3>5
  <2> QED
    BY <2>1, <2>2
<1>10. counters'.persisted + Cardinality(abandoned' \ Range(worker'.batch)) + Len(worker'.batch) = taken'
  <2>1. Len(worker'.batch) = 0
    BY <1>3
  <2>2. Cardinality(abandoned' \ Range(worker'.batch)) = Cardinality(abandoned)
    BY <1>8, Zenon
  <2>3. counters'.persisted + Cardinality(abandoned) + 0 = taken
    BY <1>4, <1>9
  <2> QED
    BY <1>5, <2>1, <2>2, <2>3
<1>11. \A i \in 1 .. settled' : accepted'[i] \in abandoned' \/ rows'[accepted'[i]] > 0
  BY <1>2, <1>5 DEF Books
<1> QED
  BY <1>2, <1>3, <1>10, <1>11 DEF Books

\* The other steps leave the batch as it is.
LEMMA OthersKeepBooks ==
    ASSUME PipelineInv, Books, Next, ~Dequeue, ~PersistSucceeds, ~PersistFails, ~Report,
           \A p \in Producers : ~Record(p)
    PROVE  Books'
<1>1. TypeOK /\ Hands /\ Lifecycle
  BY DEF PipelineInv
<1>2. UNCHANGED <<queue_, accepted, issued, rows, abandoned>> /\ settled' = settled
  BY <1>1, OtherSteps, SettledFrame
<1>3. UNCHANGED <<enqueued_total_, dropped_total_>>
  BY Zenon DEF Next, WorkerStep, ProducerStep, Start, Stop, NotifyStop, Join, RunLoop, DeadlinePasses, EndCollect,
         SetDepth, ExitCheck, RecordReadDepth, RecordSetDepth, queue
<1>4. counters'.persisted = counters.persisted
  <2>1. CASE \E p \in Producers : RecordReadDepth(p)
    <3>1. counters \in Counters
      BY <1>1 DEF TypeOK
    <3> QED
      BY <2>1, <3>1 DEF RecordReadDepth, Counters
  <2>2. CASE counters' = counters
    BY <2>2
  <2> QED
    BY <2>1, <2>2, Zenon DEF Next, WorkerStep, ProducerStep, Start, Stop, NotifyStop, Join, RunLoop, DeadlinePasses,
       EndCollect, SetDepth, ExitCheck, RecordSetDepth, metrics
<1>5. worker'.batch = worker.batch /\ (worker'.pc # "report" \/ worker' = worker)
  <2>1. CASE Start \/ Join \/ RunLoop \/ ExitCheck
    <3>1. worker.pc \in {"none", "exited", "loop", "check"}
      BY <1>1, <2>1 DEF Start, Join, RunLoop, ExitCheck, Lifecycle
    <3>2. worker.batch = <<>>
      BY <1>1, <3>1 DEF Hands
    <3> QED
      BY <1>1, <2>1, <3>2, WorkerAfter
  <2>2. CASE DeadlinePasses \/ EndCollect \/ SetDepth
    BY <1>1, <2>2, WorkerAfter DEF DeadlinePasses, EndCollect, SetDepth
  <2>3. CASE worker' = worker
    BY <2>3
  <2> QED
    BY <2>1, <2>2, <2>3, Zenon DEF Next, WorkerStep, ProducerStep, Stop, NotifyStop, RecordReadDepth, RecordSetDepth
<1> QED
  BY <1>2, <1>3, <1>4, <1>5, BooksFrame

\* Every recorded event is accounted for, by the counters and by where it is: dropped, in
\* the queue, in the worker's hands, stored or given up.  This includes that the counter of
\* persisted events counts each of them once, whatever was retried.
THEOREM AllAccountedFor == Spec => []EventsAccounted
<1>1. Init => Books
  <2> SUFFICES ASSUME Init PROVE Books
    OBVIOUS
  <2>1. worker.pc = "none" /\ worker.batch = <<>>
    BY NoWorker DEF Init
  <2>2. /\ Len(accepted) = 0 /\ Len(queue_) = 0 /\ Len(worker.batch) = 0 /\ taken = 0
        /\ enqueued_total_ = 0 /\ dropped_total_ = 0 /\ issued = 0 /\ counters.persisted = 0
    BY <2>1 DEF Init, taken
  <2>3. settled = 0
    <3>1. settled = taken - Len(worker.batch)
      BY <2>1 DEF settled
    <3> QED
      BY <2>2, <3>1
  <2>4. abandoned \ Range(worker.batch) = {}
    BY DEF Init
  <2>5. Cardinality(abandoned \ Range(worker.batch)) = 0
    BY <2>4, FS_EmptySet
  <2> QED
    BY <2>1, <2>2, <2>3, <2>5 DEF Books
<1>2. PipelineInv /\ Books /\ [Next]_vars => Books'
  <2> SUFFICES ASSUME PipelineInv, Books, [Next]_vars PROVE Books'
    OBVIOUS
  <2>1. TypeOK'
    BY TypesKept DEF PipelineInv
  <2>2. CASE UNCHANGED vars
    BY <2>2, BooksFrame DEF vars, settled, taken
  <2>3. CASE Next
    BY <2>1, <2>3, RecordKeepsBooks, DequeueKeepsBooks, SuccessKeepsBooks, FailureKeepsBooks,
       ReportKeepsBooks, OthersKeepBooks
  <2> QED
    BY <2>2, <2>3
<1>3. PipelineInv /\ Books => EventsAccounted
  BY BooksImply
<1> QED
  BY <1>1, <1>2, <1>3, PipelineInvariant, PTL DEF Spec
=============================================================================
