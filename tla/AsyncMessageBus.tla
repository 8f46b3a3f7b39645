-------------------------- MODULE AsyncMessageBus --------------------------
(***************************************************************************)
(* AsyncMessageBus (infrastructure/messaging/bus.py): a bounded queue      *)
(* between publish(), which any thread calls, and a worker thread that     *)
(* publishes on the wrapped bus; close() stops the worker.  The queue's    *)
(* own lock makes put and get single steps; everything else of the worker  *)
(* and of close() interleaves.  The bus is only built fail-open            *)
(* (_maybe_wrap_async), so a full queue drops the event.  Events are       *)
(* numbered in the order of the publish() calls.                           *)
(***************************************************************************)
EXTENDS Integers, Sequences

CONSTANTS QueueSize,   \* maxsize of the queue
          MaxEvents,   \* bound: so many publish() calls
          Sentinel     \* _SENTINEL

ASSUME QueueAssumption ==
    /\ QueueSize \in Nat \ {0}
    /\ MaxEvents \in Nat
    /\ Sentinel \notin Nat

VARIABLES queue,      \* _queue
          published,  \* number of publish() calls so far
          dropped,    \* events that found the queue full
          worker,     \* where the worker thread is
          item,       \* the event it is publishing, or 0
          delivered,  \* events that the wrapped bus took, in order
          failed,     \* events on which it raised
          stopped,    \* _stopped
          closer,     \* where close() is
          closedAt    \* history: publish() calls before close() set _stopped

queueVars == <<queue, published, dropped, worker, item, delivered, failed,
               stopped, closer, closedAt>>

Event == 1..MaxEvents

QueueTypeOK ==
    /\ queue \in Seq(Event \cup {Sentinel})
    /\ Len(queue) <= QueueSize
    /\ published \in 0..MaxEvents
    /\ dropped \subseteq Event
    /\ worker \in {"getting", "timedOut", "publishing", "sawSentinel", "sawStop"}
    /\ item \in Event \cup {0}
    /\ delivered \in Seq(Event)
    /\ failed \subseteq Event
    /\ stopped \in BOOLEAN
    /\ closer \in {"open", "putting", "joining", "closed"}
    /\ closedAt \in 0..MaxEvents

QueueInit ==
    /\ queue = << >>
    /\ published = 0
    /\ dropped = {}
    /\ worker = "getting"
    /\ item = 0
    /\ delivered = << >>
    /\ failed = {}
    /\ stopped = FALSE
    /\ closer = "open"
    /\ closedAt = 0

Full == Len(queue) >= QueueSize
Exited == worker \in {"sawSentinel", "sawStop"}

workerVars == <<worker, item, delivered, failed>>
closeVars == <<stopped, closer, closedAt>>

----------------------------------------------------------------------------
(* publish(): nothing keeps it from being called during or after close() *)

\* A mutant of Publish: a full queue gives up its oldest entry.
PublishOverOldest ==
    /\ published < MaxEvents
    /\ published' = published + 1
    /\ queue' = Append(IF Full THEN Tail(queue) ELSE queue, published')
    /\ UNCHANGED <<dropped, workerVars, closeVars>>

Publish ==
    /\ published < MaxEvents
    /\ published' = published + 1
    /\ IF Full
         THEN dropped' = dropped \cup {published'} /\ UNCHANGED queue
         ELSE queue' = Append(queue, published') /\ UNCHANGED dropped
    /\ UNCHANGED <<workerVars, closeVars>>

----------------------------------------------------------------------------
(* _run(): the worker thread *)

WorkerGets ==
    /\ worker = "getting"
    /\ queue # << >>
    /\ queue' = Tail(queue)
    /\ IF Head(queue) = Sentinel
         THEN worker' = "sawSentinel" /\ UNCHANGED item
         ELSE worker' = "publishing" /\ item' = Head(queue)
    /\ UNCHANGED <<published, dropped, delivered, failed, closeVars>>

\* get(timeout=0.5) raises Empty; the worker looks at _stopped after that.
WorkerTimesOut ==
    /\ worker = "getting"
    /\ queue = << >>
    /\ worker' = "timedOut"
    /\ UNCHANGED <<queue, published, dropped, item, delivered, failed, closeVars>>

\* A mutant of WorkerChecksStop: the worker only ends at the sentinel.
WorkerWaitsAgain ==
    /\ worker = "timedOut"
    /\ worker' = "getting"
    /\ UNCHANGED <<queue, published, dropped, item, delivered, failed, closeVars>>

WorkerChecksStop ==
    /\ worker = "timedOut"
    /\ worker' = IF stopped THEN "sawStop" ELSE "getting"
    /\ UNCHANGED <<queue, published, dropped, item, delivered, failed, closeVars>>

\* A mutant of WorkerPublishes: an event that failed is put back.
WorkerPutsBack ==
    /\ worker = "publishing"
    /\ \/ delivered' = Append(delivered, item) /\ UNCHANGED queue
       \/ ~Full /\ queue' = Append(queue, item) /\ UNCHANGED delivered
    /\ item' = 0
    /\ worker' = "getting"
    /\ UNCHANGED <<published, dropped, failed, closeVars>>

\* The wrapped bus takes the event or raises.
WorkerPublishes ==
    /\ worker = "publishing"
    /\ \/ delivered' = Append(delivered, item) /\ UNCHANGED failed
       \/ failed' = failed \cup {item} /\ UNCHANGED delivered
    /\ item' = 0
    /\ worker' = "getting"
    /\ UNCHANGED <<queue, published, dropped, closeVars>>

----------------------------------------------------------------------------
(* close(): a second call finds _stopped set and returns *)

CloseBegins ==
    /\ closer = "open"
    /\ stopped' = TRUE
    /\ closedAt' = published
    /\ closer' = "putting"
    /\ UNCHANGED <<queue, published, dropped, workerVars>>

\* A mutant of ClosePuts: the sentinel is put first.
ClosePutsFirst ==
    /\ closer = "putting"
    /\ queue' = IF Full THEN queue ELSE <<Sentinel>> \o queue
    /\ closer' = "joining"
    /\ UNCHANGED <<published, dropped, workerVars, stopped, closedAt>>

\* The sentinel is left out when the queue is full.
ClosePuts ==
    /\ closer = "putting"
    /\ queue' = IF Full THEN queue ELSE Append(queue, Sentinel)
    /\ closer' = "joining"
    /\ UNCHANGED <<published, dropped, workerVars, stopped, closedAt>>

\* join() returns because the worker has ended or because the drain timeout
\* has passed; then the wrapped bus is closed.
CloseReturns ==
    /\ closer = "joining"
    /\ closer' = "closed"
    /\ UNCHANGED <<queue, published, dropped, workerVars, stopped, closedAt>>

WorkerStep == WorkerGets \/ WorkerTimesOut \/ WorkerChecksStop \/ WorkerPublishes
CloseStep == CloseBegins \/ ClosePuts \/ CloseReturns

QueueNext == Publish \/ WorkerStep \/ CloseStep

QueueSpec == QueueInit /\ [][QueueNext]_queueVars

\* The worker thread runs, the wrapped bus returns from each publish, and a
\* close() that has begun goes on; nothing obliges anyone to publish or close.
QueueFairSpec ==
    QueueSpec /\ WF_queueVars(WorkerStep) /\ WF_queueVars(ClosePuts \/ CloseReturns)

----------------------------------------------------------------------------
(* What the bus promises *)

\* Events reach the wrapped bus in the order of their publication and at most
\* once, whatever was dropped or failed in between.
DeliveredInOrder ==
    \A i, j \in 1..Len(delivered) : i < j => delivered[i] < delivered[j]

InQueue(n) == \E i \in 1..Len(queue) : queue[i] = n
IsDelivered(n) == \E i \in 1..Len(delivered) : delivered[i] = n

\* Every published event is delivered, failed, dropped, in hand or queued: the
\* worker's exception handling and the end of the thread lose none of them.
EventsAccountedFor ==
    \A n \in 1..published :
        n \in dropped \/ n \in failed \/ n = item \/ InQueue(n) \/ IsDelivered(n)

\* A worker that ends at the sentinel leaves no event behind that had been
\* published when close() was called: the sentinel never overtakes an event.
SentinelDrains ==
    worker = "sawSentinel" => \A n \in 1..closedAt : ~InQueue(n)

\* Neither events nor the sentinel overtake what was published before them.
EventsKeepOrder == DeliveredInOrder /\ SentinelDrains

\* close() ends the worker thread in the end, also when the sentinel did not fit
\* into the queue, and close() itself returns.
CloseStopsWorker == stopped ~> (Exited /\ closer = "closed")

=============================================================================
