-------------------------- MODULE EventDispatcher --------------------------
(***************************************************************************)
(* The transactional outbox of financial events (src/domain-events):       *)
(* FinancialEventBus.publish stores an event and emits it in process, and  *)
(* FinancialEventDispatcher ships the stored rows to a broker, in ticks.   *)
(* Several pods may run a dispatcher on the same table.                    *)
(*                                                                         *)
(* The events are those of one customer: the guarantees are stated per     *)
(* customer.  A step ends where the code awaits the database or the broker.*)
(***************************************************************************)
EXTENDS Integers, FiniteSets

CONSTANTS
    Events,         \* business causes: each has one deterministic event id
    Pods,           \* processes that run a dispatcher
    MaxAttempts,    \* maxAttempts (16 in the code)
    MaxConcurrent,  \* maxConcurrent (8 in the code)
    BatchSize,      \* batchSize (64 in the code)
    MaxFaults,      \* failures of broker, database and processes (bound)
    MaxReplays      \* replays an operator asks for (bound)

ASSUME DispatcherAssumption ==
    /\ IsFiniteSet(Events) /\ IsFiniteSet(Pods)
    /\ MaxAttempts \in Nat \ {0} /\ MaxConcurrent \in Nat \ {0}
    /\ BatchSize \in Nat \ {0}
    /\ MaxFaults \in Nat /\ MaxReplays \in Nat

VARIABLES
    published,  \* position of an event's row by publishedAt; 0: no row
    attempts,   \* the row's attempts
    delivered,  \* rows whose deliveredAt is set
    emitting,   \* events stored by a publisher that has yet to emit them
    emitted,    \* how often each event reached the in-process listeners
    shipped,    \* how often the broker accepted each event
    pod,        \* the tick each dispatcher is running
    faults,     \* failures so far
    replays     \* replays so far

rows == <<published, attempts, delivered>>
outboxVars == <<rows, emitting, emitted, shipped, pod, faults, replays>>

\* seen: attempts as the tick's query returned them.  acked, refused: rows whose
\* adapter.publish has settled and whose UPDATE is still to come.
NoTick == [phase |-> "idle", queue |-> {}, seen |-> [e \in Events |-> 0],
           acked |-> {}, refused |-> {}]

PodState == [phase : {"idle", "checking", "shipping"}, queue : SUBSET Events,
             seen : [Events -> 0 .. MaxAttempts], acked : SUBSET Events,
             refused : SUBSET Events]

OutboxInit ==
    /\ published = [e \in Events |-> 0]
    /\ attempts = [e \in Events |-> 0]
    /\ delivered = {}
    /\ emitting = {}
    /\ emitted = [e \in Events |-> 0]
    /\ shipped = [e \in Events |-> 0]
    /\ pod = [p \in Pods |-> NoTick]
    /\ faults = 0
    /\ replays = 0

Stored == {e \in Events : published[e] > 0}

Fault == faults < MaxFaults /\ faults' = faults + 1

Replay == replays < MaxReplays /\ replays' = replays + 1

Count(f, e) == [f EXCEPT ![e] = @ + 1]

-----------------------------------------------------------------------------
(* FinancialEventBus *)

\* Mutant: the unique index does not stop a second publish.
Insert_Again(e) ==
    /\ e \notin emitting
    /\ published' = [published EXCEPT ![e] =
                        IF @ = 0 THEN Cardinality(Stored) + 1 ELSE @]
    /\ emitting' = emitting \cup {e}
    /\ UNCHANGED <<attempts, delivered, emitted, shipped, pod, faults, replays>>

\* publish: the row is stored first.  (A repeated publish of a stored event runs
\* into the unique index, P2002, and returns without emitting: a stutter.)
Insert(e) ==
    /\ e \notin Stored
    /\ published' = [published EXCEPT ![e] = Cardinality(Stored) + 1]
    /\ emitting' = emitting \cup {e}
    /\ UNCHANGED <<attempts, delivered, emitted, shipped, pod, faults, replays>>

\* Then it is emitted to the in-process listeners.
Emit(e) ==
    /\ e \in emitting
    /\ emitting' = emitting \ {e}
    /\ emitted' = Count(emitted, e)
    /\ UNCHANGED <<rows, shipped, pod, faults, replays>>

\* The outbox cannot be written (by a first or by a repeated publish): the event
\* is emitted all the same.
PersistFails(e) ==
    /\ Fault
    /\ emitted' = Count(emitted, e)
    /\ UNCHANGED <<rows, emitting, shipped, pod, replays>>

\* The publisher's process dies between the two.
PublisherCrash(e) ==
    /\ e \in emitting
    /\ Fault
    /\ emitting' = emitting \ {e}
    /\ UNCHANGED <<rows, emitted, shipped, pod, replays>>

\* replay: stored events are emitted again.
ReplayEmit(e) ==
    /\ e \in Stored
    /\ Replay
    /\ emitted' = Count(emitted, e)
    /\ UNCHANGED <<rows, emitting, shipped, pod, faults>>

-----------------------------------------------------------------------------
(* FinancialEventDispatcher.tick *)

\* working = true; a second tick of the same process returns "busy".
BeginTick(p) ==
    /\ pod[p].phase = "idle"
    /\ pod' = [pod EXCEPT ![p].phase = "checking"]
    /\ UNCHANGED <<rows, emitting, emitted, shipped, faults, replays>>

\* safeHealthCheck is false, or the row query throws: the tick ends, working = false.
Unhealthy(p) ==
    /\ pod[p].phase = "checking"
    /\ Fault
    /\ pod' = [pod EXCEPT ![p] = NoTick]
    /\ UNCHANGED <<rows, emitting, emitted, shipped, replays>>

\* Mutants: rows that are delivered are shipped too; one attempt too few.
Selectable_Any(e) == e \in Stored /\ attempts[e] < MaxAttempts
Selectable_OneLess(e) ==
    e \in Stored /\ e \notin delivered /\ attempts[e] + 1 < MaxAttempts

\* deliveredAt is null and attempts < maxAttempts.
Selectable(e) == e \in Stored /\ e \notin delivered /\ attempts[e] < MaxAttempts

\* The oldest BatchSize selectable rows, as they are now.
Batch ==
    LET ahead(e) == {f \in Events : Selectable(f) /\ published[f] < published[e]}
    IN  {e \in Events : Selectable(e) /\ Cardinality(ahead(e)) < BatchSize}

Fetch(p) ==
    /\ pod[p].phase = "checking"
    /\ pod' = [pod EXCEPT ![p] = [NoTick EXCEPT !.phase = "shipping",
                                    !.queue = Batch, !.seen = attempts]]
    /\ UNCHANGED <<rows, emitting, emitted, shipped, faults, replays>>

\* A worker has taken the row: the queue, here with the rows in flight, is shifted
\* oldest first, and a worker that waits for an UPDATE takes none.
Takes(p, e) ==
    LET older == {f \in pod[p].queue : published[f] < published[e]}
    IN  /\ e \in pod[p].queue
        /\ Cardinality(older \cup pod[p].acked \cup pod[p].refused) < MaxConcurrent

\* Mutant: deliveredAt is set before the broker answers.
Ship_MarkFirst(p, e) ==
    /\ Takes(p, e)
    /\ delivered' = delivered \cup {e}
    /\ pod' = [pod EXCEPT ![p].queue = @ \ {e}, ![p].refused = @ \cup {e}]
    /\ UNCHANGED <<published, attempts, emitting, emitted, shipped, faults, replays>>

\* The adapter accepts the event.
Ship(p, e) ==
    /\ Takes(p, e)
    /\ shipped' = Count(shipped, e)
    /\ pod' = [pod EXCEPT ![p].queue = @ \ {e}, ![p].acked = @ \cup {e}]
    /\ UNCHANGED <<rows, emitting, emitted, faults, replays>>

\* adapter.publish throws; the broker may have accepted the event all the same.
Refuse(p, e) ==
    /\ Takes(p, e)
    /\ Fault
    /\ shipped' \in {shipped, Count(shipped, e)}
    /\ pod' = [pod EXCEPT ![p].queue = @ \ {e}, ![p].refused = @ \cup {e}]
    /\ UNCHANGED <<rows, emitting, emitted, replays>>

MarkDelivered(p, e) ==
    /\ e \in pod[p].acked
    /\ delivered' = delivered \cup {e}
    /\ pod' = [pod EXCEPT ![p].acked = @ \ {e}]
    /\ UNCHANGED <<published, attempts, emitting, emitted, shipped, faults, replays>>

\* attempts becomes the value the query returned, plus one, on an undelivered row.
RecordFailure(p, e) ==
    /\ e \in pod[p].refused
    /\ attempts' = IF e \in delivered THEN attempts
                   ELSE [attempts EXCEPT ![e] = pod[p].seen[e] + 1]
    /\ pod' = [pod EXCEPT ![p].refused = @ \ {e}]
    /\ UNCHANGED <<published, delivered, emitting, emitted, shipped, faults, replays>>

\* Either UPDATE fails: it is logged and forgotten.
UpdateFails(p, e) ==
    /\ e \in pod[p].acked \cup pod[p].refused
    /\ Fault
    /\ pod' = [pod EXCEPT ![p].acked = @ \ {e}, ![p].refused = @ \ {e}]
    /\ UNCHANGED <<rows, emitting, emitted, shipped, replays>>

\* Promise.all of the workers, then working = false.
EndTick(p) ==
    /\ pod[p].phase = "shipping"
    /\ pod[p].queue = {} /\ pod[p].acked = {} /\ pod[p].refused = {}
    /\ pod' = [pod EXCEPT ![p] = NoTick]
    /\ UNCHANGED <<rows, emitting, emitted, shipped, faults, replays>>

\* The process dies and restarts: nothing of the tick is kept.
Restart(p) ==
    /\ pod[p].phase # "idle"
    /\ Fault
    /\ pod' = [pod EXCEPT ![p] = NoTick]
    /\ UNCHANGED <<rows, emitting, emitted, shipped, replays>>

\* replayDelivered: delivered rows are shipped again.
ReplayShip(e) ==
    /\ e \in delivered
    /\ Replay
    /\ shipped' = Count(shipped, e)
    /\ UNCHANGED <<rows, emitting, emitted, pod, faults>>

-----------------------------------------------------------------------------
\* What a dispatcher does by itself, once somebody calls tick.
Dispatch(p) ==
    \/ BeginTick(p) \/ Fetch(p) \/ EndTick(p)
    \/ \E e \in Events : Ship(p, e) \/ MarkDelivered(p, e) \/ RecordFailure(p, e)

OutboxNext ==
    \/ \E e \in Events :
        \/ Insert(e) \/ Emit(e) \/ PersistFails(e) \/ PublisherCrash(e)
        \/ ReplayEmit(e) \/ ReplayShip(e)
    \/ \E p \in Pods :
        \/ Dispatch(p) \/ Unhealthy(p) \/ Restart(p)
        \/ \E e \in Events : Refuse(p, e) \/ UpdateFails(p, e)

OutboxSpec == OutboxInit /\ [][OutboxNext]_outboxVars

\* tick is called again and again, and an awaited call comes back.
LiveSpec == OutboxSpec /\ \A p \in Pods : WF_outboxVars(Dispatch(p))

-----------------------------------------------------------------------------
(* Properties *)

\* Every variable keeps its type; attempts never passes maxAttempts.
OutboxTypeOK ==
    /\ published \in [Events -> Nat]
    /\ attempts \in [Events -> 0 .. MaxAttempts]
    /\ delivered \subseteq Events
    /\ emitting \subseteq Events
    /\ emitted \in [Events -> Nat]
    /\ shipped \in [Events -> Nat]
    /\ pod \in [Pods -> PodState]
    /\ faults \in 0 .. MaxFaults
    /\ replays \in 0 .. MaxReplays

\* A row counts as delivered only after the broker accepted it ("Mark delivered
\* ONLY after broker ack"), whatever fails or restarts in between.
DeliveredWasShipped == \A e \in delivered : shipped[e] > 0

\* The broker sees an event once per pod, plus once for each lost answer, UPDATE or
\* process and each replay somebody asked for, although the pods fetch overlapping
\* batches and mark the rows one by one.
ReshipBound ==
    \A e \in Events : shipped[e] <= Cardinality(Pods) + faults + replays

\* The in-process listeners see an event again only after an outage of the
\* outbox or a replay: publishing it again under the same id does not emit it.
EmitBound == \A e \in Events : emitted[e] <= 1 + faults + replays

\* A row once marked delivered is never shipped again ("never re-ships an
\* already-delivered row") unless an operator replays it.
NeverReships ==
    [][\A e \in delivered : shipped'[e] > shipped[e] => replays' > replays]_outboxVars

\* The attempts of a row are never lowered ("adapter failures increment
\* attempts"), so that a failing row does reach the dead letters.
AttemptsNeverFall == [][\A e \in Events : attempts'[e] >= attempts[e]]_outboxVars

\* Events of a customer reach the broker for the first time in the order they
\* were stored ("Ordered delivery (per customer)").
OrderedDelivery ==
    [][\A e, f \in Events :
        (shipped[e] = 0 /\ shipped'[e] > 0 /\ e \in Stored /\ f \in Stored
            /\ published[e] < published[f]) => shipped[f] = 0]_outboxVars

\* A stored event is eventually marked delivered: it survives restarts, lost
\* updates and a broker that fails less often than maxAttempts ("At-least-once").
EventuallyDelivered == \A e \in Events : (e \in Stored) ~> (e \in delivered)

=============================================================================
