------------------------------ MODULE Dispatch ------------------------------
(***************************************************************************)
(* Pickup instructions from the call center to a driver:                   *)
(*   dispatch/dispatch.service.ts           create, acknowledge, the       *)
(*                       order.created listener, the SLA monitor and the   *)
(*                       reconciliation                                    *)
(*   dispatch/dispatch.reconciliation.job.ts, dispatch.escalation.job.ts   *)
(*                       one pass at a time per process                    *)
(*   dispatch/dispatch-metrics.service.ts   the counters of DriverMetrics  *)
(*                                                                         *)
(* An invoice is the only thing that completes a dispatch.  It announces   *)
(* itself by an event in the memory of the process that created it, which  *)
(* a crash loses; the reconciliation finds such dispatches again.  The     *)
(* counters are written after the row, in a statement of their own.        *)
(***************************************************************************)
EXTENDS Integers, FiniteSets, FiniteSetsExt

CONSTANTS
    MaxDispatches, \* dispatches ever created (bound)
    MaxOrders,     \* orders that name a dispatch (bound)
    Pairs,         \* a customer and a driver
    Pods,          \* processes
    Sessions,      \* call-center requests served at the same time
    BatchLimit,    \* candidates per reconciliation pass (100)
    MaxFaults,     \* crashes and failed statements (bound)
    Workloads,     \* parts of the service exercised together
    NoPair

Dispatches == 1 .. MaxDispatches
Orders == 1 .. MaxOrders

\* Age in tiers: 1, 2, 3 are two, five and ten minutes.
Tiers == {"firstAlertAt", "escalatedAt", "breachedAt"}
Due == [t \in Tiers |-> CASE t = "firstAlertAt" -> 1 [] t = "escalatedAt" -> 2 [] t = "breachedAt" -> 3]
Oldest == 3
NoStamp == 0

Counters == {"assigned", "acknowledged", "completed"}

ASSUME DispatchAssumption ==
    /\ MaxDispatches \in Nat /\ MaxOrders \in Nat /\ BatchLimit \in Nat \ {0}
    /\ Workloads \subseteq SUBSET {"overlap", "completion", "sla"}
    /\ MaxFaults \in Nat /\ NoPair \notin Pairs

VARIABLES
    dispatch, \* Dispatch rows; a stamp holds the age at which it was set
    age,      \* how old each row is
    order,    \* dispatchId of each order, 0 before it exists
    event,    \* order.created events waiting in each process
    sla,      \* the monitor of each process: the rows read, and the patch of one
    recon,    \* the reconciliation of each process: running, candidates left
    draft,    \* create requests that found no duplicate
    metric,   \* DriverMetrics
    faults,   \* crashes and failures so far
    overlapped, \* history: two create requests, or two monitors, have run at the
                \* same time
    workload    \* the parts of this behaviour

rows == <<dispatch, age, order>>
memory == <<event, sla, recon>>
vars == <<rows, memory, draft, metric, faults, overlapped, workload>>

NoDispatch == [status |-> "ABSENT", pair |-> NoPair, order |-> 0, acknowledged |-> FALSE,
               stamp |-> [t \in Tiers |-> NoStamp]]
NoMonitor == [row |-> 0, now |-> [d \in {} |-> 0], patch |-> {}]
NoRecon == [running |-> FALSE, left |-> {}]

Init ==
    /\ dispatch = [d \in Dispatches |-> NoDispatch]
    /\ age = [d \in Dispatches |-> 0]
    /\ order = [o \in Orders |-> 0]
    /\ event = [p \in Pods |-> {}]
    /\ sla = [p \in Pods |-> NoMonitor]
    /\ recon = [p \in Pods |-> NoRecon]
    /\ draft = [s \in Sessions |-> NoPair]
    /\ metric = [k \in Counters |-> 0]
    /\ faults = 0
    /\ overlapped = FALSE
    /\ workload \in Workloads

Exists(d) == dispatch[d].status # "ABSENT"
Open(d) == dispatch[d].status \in {"ASSIGNED", "IN_PROGRESS"}

\* Time passes; of two rows the older one is the one created first.
Tick(d) ==
    /\ Exists(d) /\ age[d] < Oldest
    /\ \A c \in Dispatches : c < d => age[c] > age[d] \/ age[c] = Oldest
    /\ age' = [age EXCEPT ![d] = @ + 1]
    /\ UNCHANGED <<dispatch, order, memory, draft, metric, faults, overlapped>>

-----------------------------------------------------------------------------
(* Counters *)

\* UPDATE ... SET count = count + 1 once the row is written.  Nobody reads the
\* counters, so the update is taken together with the row; a crash in between,
\* or a failure, which is logged and forgotten, loses it.
Count(k) ==
    \/ metric' = [metric EXCEPT ![k] = @ + 1] /\ UNCHANGED faults
    \/ faults < MaxFaults /\ faults' = faults + 1 /\ UNCHANGED metric

-----------------------------------------------------------------------------
(* create and acknowledge *)

Duplicate(pair) ==
    \E d \in Dispatches : dispatch[d].status = "ASSIGNED" /\ dispatch[d].pair = pair

\* A duplicate is returned as it is; otherwise the insert follows.
BeginCreate(s, pair) ==
    /\ draft[s] = NoPair
    /\ "overlap" \in workload \/ \A r \in Sessions : draft[r] = NoPair
    /\ ~Duplicate(pair)
    /\ draft' = [draft EXCEPT ![s] = pair]
    /\ overlapped' = (overlapped \/ \E r \in Sessions : draft[r] # NoPair)
    /\ UNCHANGED <<rows, memory, metric, faults>>

CommitCreate(s, d) ==
    /\ draft[s] # NoPair
    /\ ~Exists(d) /\ \A c \in Dispatches : c < d => Exists(c)
    /\ dispatch' = [dispatch EXCEPT ![d].status = "ASSIGNED", ![d].pair = draft[s]]
    /\ draft' = [draft EXCEPT ![s] = NoPair]
    /\ Count("assigned")
    /\ UNCHANGED <<age, order, event, sla, recon, overlapped>>

\* Mutant: a dispatch that was completed meanwhile is taken up again.
Acknowledge_Any(d) ==
    /\ Exists(d) /\ dispatch[d].status # "IN_PROGRESS"
    /\ dispatch' = [dispatch EXCEPT ![d].status = "IN_PROGRESS", ![d].acknowledged = TRUE]
    /\ Count("acknowledged")
    /\ UNCHANGED <<age, order, event, sla, recon, draft, overlapped>>

\* updateMany asks for ASSIGNED again: one step.
Acknowledge(d) ==
    /\ dispatch[d].status = "ASSIGNED"
    /\ dispatch' = [dispatch EXCEPT ![d].status = "IN_PROGRESS", ![d].acknowledged = TRUE]
    /\ Count("acknowledged")
    /\ UNCHANGED <<age, order, event, sla, recon, draft, overlapped>>

-----------------------------------------------------------------------------
(* Completion *)

\* An order that names the dispatch is committed, then announced; nothing asks
\* whether the dispatch is still open.
CreateOrder(p, o, d) ==
    /\ order[o] = 0 /\ \A c \in Orders : c < o => order[c] # 0
    /\ Exists(d)
    /\ order' = [order EXCEPT ![o] = d]
    /\ event' = [event EXCEPT ![p] = @ \cup {o}]
    /\ UNCHANGED <<dispatch, age, sla, recon, draft, metric, faults, overlapped>>

\* Mutant: the update names the id only.
Close_Any(d, o) ==
    /\ dispatch' = [dispatch EXCEPT ![d].status = "COMPLETED", ![d].order = o]
    /\ Count("completed")

\* updateMany on the open statuses; no row is a no-op, else the count follows.
Close(d, o) ==
    IF Open(d)
    THEN /\ dispatch' = [dispatch EXCEPT ![d].status = "COMPLETED", ![d].order = o]
         /\ Count("completed")
    ELSE UNCHANGED <<dispatch, metric, faults>>

HandleOrderCreated(p, o) ==
    /\ o \in event[p]
    /\ event' = [event EXCEPT ![p] = @ \ {o}]
    /\ Close(order[o], o)
    /\ UNCHANGED <<age, order, sla, recon, draft, overlapped>>

OrdersOf(d) == {o \in Orders : order[o] = d}

\* Mutant: only dispatches the driver has not started.
Candidates_Assigned == {d \in Dispatches : dispatch[d].status = "ASSIGNED" /\ OrdersOf(d) # {}}

Candidates == {d \in Dispatches : Open(d) /\ OrdersOf(d) # {}}

\* The oldest candidates, each with its oldest order.
Batch ==
    {[dispatch |-> d, order |-> Min(OrdersOf(d))] :
        d \in {c \in Candidates : Cardinality({b \in Candidates : b < c}) < BatchLimit}}

ReconStart(p) ==
    /\ ~recon[p].running
    /\ Batch # {}
    /\ recon' = [recon EXCEPT ![p] = [running |-> TRUE, left |-> Batch]]
    /\ UNCHANGED <<rows, event, sla, draft, metric, faults, overlapped>>

\* Candidates are taken in the order they were read.
ReconcileOne(p) ==
    \E c \in recon[p].left :
        /\ \A b \in recon[p].left : c.dispatch <= b.dispatch
        /\ Close(c.dispatch, c.order)
        /\ recon' = [recon EXCEPT ![p] = [running |-> recon[p].left # {c},
                                          left |-> recon[p].left \ {c}]]
        /\ UNCHANGED <<age, order, event, sla, draft, overlapped>>

\* A row that throws ends the pass; the job only logs it.
ReconFails(p) ==
    /\ recon[p].running
    /\ faults < MaxFaults
    /\ faults' = faults + 1
    /\ recon' = [recon EXCEPT ![p] = NoRecon]
    /\ UNCHANGED <<rows, event, sla, draft, metric, overlapped>>

-----------------------------------------------------------------------------
(* The SLA monitor *)

\* Tiers a row of this age should have and has not.
Missing(d, now) == {t \in Tiers : now >= Due[t] /\ dispatch[d].stamp[t] = NoStamp}

\* One pass: ASSIGNED rows that need a stamp (the window of the last hours holds
\* them all); `now` is fixed here.
MonitorStart(p) ==
    LET seen == {d \in Dispatches : dispatch[d].status = "ASSIGNED" /\ Missing(d, age[d]) # {}}
    IN  /\ sla[p] = NoMonitor
        /\ seen # {}
        /\ sla' = [sla EXCEPT ![p] = [row |-> 0, now |-> [d \in seen |-> age[d]], patch |-> {}]]
        /\ overlapped' = (overlapped \/ \E q \in Pods : sla[q] # NoMonitor)
        /\ UNCHANGED <<rows, event, recon, draft, metric, faults>>

\* The row's transaction reads it again: still ASSIGNED, still without a stamp?
MonitorRead(p, d) ==
    /\ sla[p].row = 0 /\ d \in DOMAIN sla[p].now
    /\ sla' = [sla EXCEPT ![p] =
                 [row |-> d, now |-> sla[p].now,
                  patch |-> IF dispatch[d].status = "ASSIGNED"
                            THEN Missing(d, sla[p].now[d]) ELSE {}]]
    /\ UNCHANGED <<rows, event, recon, draft, metric, faults, overlapped>>

\* Mutant: the patch stamps the highest tier only.
Patched_Highest(stamp, patch, now) ==
    [t \in Tiers |-> IF t \in patch /\ \A u \in patch : Due[u] <= Due[t] THEN now ELSE stamp[t]]

Patched(stamp, patch, now) == [t \in Tiers |-> IF t \in patch THEN now ELSE stamp[t]]

\* UPDATE by id; the row is done, and after the last one the pass.
MonitorWrite(p) ==
    LET d == sla[p].row
        rest == DOMAIN sla[p].now \ {d}
    IN  /\ d # 0
        /\ dispatch' = [dispatch EXCEPT ![d].stamp = Patched(@, sla[p].patch, sla[p].now[d])]
        /\ sla' = [sla EXCEPT ![p] = [row |-> 0, now |-> [c \in rest |-> sla[p].now[c]],
                                      patch |-> {}]]
        /\ UNCHANGED <<age, order, event, recon, draft, metric, faults, overlapped>>

\* A process dies with all it has in memory; requests of clients are retried.
Crash(p) ==
    /\ faults < MaxFaults
    /\ faults' = faults + 1
    /\ event' = [event EXCEPT ![p] = {}]
    /\ sla' = [sla EXCEPT ![p] = NoMonitor]
    /\ recon' = [recon EXCEPT ![p] = NoRecon]
    /\ UNCHANGED <<rows, draft, metric, overlapped>>

Request ==
    \/ \E s \in Sessions, pair \in Pairs : BeginCreate(s, pair)
    \/ \E d \in Dispatches : (\E s \in Sessions : CommitCreate(s, d)) \/ Acknowledge(d)

Completion(p) ==
    \/ \E o \in Orders : HandleOrderCreated(p, o) \/ \E d \in Dispatches : CreateOrder(p, o, d)
    \/ ReconStart(p) \/ ReconcileOne(p) \/ ReconFails(p)

Monitor(p) == MonitorStart(p) \/ (\E d \in Dispatches : MonitorRead(p, d)) \/ MonitorWrite(p)

Step ==
    \/ Request
    \/ \E p \in Pods : \/ Crash(p)
                       \/ "completion" \in workload /\ Completion(p)
                       \/ "sla" \in workload /\ Monitor(p)
    \/ "sla" \in workload /\ \E d \in Dispatches : Tick(d)

Next == Step /\ UNCHANGED workload

Spec == Init /\ [][Next]_vars

\* The scheduler keeps firing the reconciliation and a pass keeps going; the
\* listener gets no fairness: every event may be lost.
Fairness ==
    \A p \in Pods : /\ WF_vars(ReconStart(p) /\ UNCHANGED workload)
                    /\ WF_vars(ReconcileOne(p) /\ UNCHANGED workload)
LiveSpec == Spec /\ Fairness

-----------------------------------------------------------------------------
(* Properties *)

DispatchRow == [status : {"ABSENT", "ASSIGNED", "IN_PROGRESS", "COMPLETED"},
                pair : Pairs \cup {NoPair}, order : Orders \cup {0},
                acknowledged : BOOLEAN, stamp : [Tiers -> 0 .. Oldest]]

\* Every row keeps its type (schema.prisma: Dispatch, DriverMetrics).
TypeOK ==
    /\ dispatch \in [Dispatches -> DispatchRow]
    /\ age \in [Dispatches -> 0 .. Oldest]
    /\ order \in [Orders -> Dispatches \cup {0}]
    /\ event \in [Pods -> SUBSET Orders]
    /\ draft \in [Sessions -> Pairs \cup {NoPair}]
    /\ metric \in [Counters -> Nat]
    /\ faults \in 0 .. MaxFaults
    /\ overlapped \in BOOLEAN /\ workload \in Workloads

\* A driver has one unstarted instruction per customer, as long as requests
\* do not overlap (the duplicate check and the insert are apart).
OneAssigned ==
    ~overlapped =>
        \A c, d \in Dispatches :
            /\ dispatch[c].status = "ASSIGNED" /\ dispatch[d].status = "ASSIGNED"
            /\ dispatch[c].pair = dispatch[d].pair
            => c = d

\* The order that closed a dispatch is one of its own, and only a closed
\* dispatch has one, whether the listener or the reconciliation got there first.
ClosedByItsOrder ==
    \A d \in Dispatches :
        IF dispatch[d].status = "COMPLETED" THEN dispatch[d].order \in OrdersOf(d)
        ELSE dispatch[d].order = 0

Happened(k) ==
    Cardinality({d \in Dispatches :
        CASE k = "assigned" -> Exists(d)
          [] k = "acknowledged" -> dispatch[d].acknowledged
          [] k = "completed" -> dispatch[d].status = "COMPLETED"})

\* The driver's counters never count an instruction twice, and miss one only
\* after a crash or a failed update.
CountedOnce ==
    \A k \in Counters :
        metric[k] <= Happened(k) /\ (faults = 0 => metric[k] = Happened(k))

\* A higher tier is never stamped without the lower ones, although the monitors
\* of several processes write the same row from what they read before; and never
\* earlier, as long as monitors do not overlap.
StampsInOrder ==
    \A d \in Dispatches, t, u \in Tiers :
        Due[t] <= Due[u] /\ dispatch[d].stamp[u] # NoStamp
        => dispatch[d].stamp[t] # NoStamp
           /\ (~overlapped => dispatch[d].stamp[t] <= dispatch[d].stamp[u])

\* A completed dispatch stays completed, by the same order.
CompletedIsFinal ==
    [][\A d \in Dispatches : dispatch[d].status = "COMPLETED"
          => dispatch'[d].status = "COMPLETED" /\ dispatch'[d].order = dispatch[d].order]_vars

\* "Each tier writes once": a stamp never moves, as long as the monitors of two
\* processes do not overlap.
StampNeverMoves ==
    [][\A d \in Dispatches, t \in Tiers :
          dispatch[d].stamp[t] # NoStamp /\ ~overlapped'
          => dispatch'[d].stamp[t] = dispatch[d].stamp[t]]_vars

\* A dispatch with an invoice is completed in the end, even when every event is
\* lost and whatever the passes' batch limit.
InvoicedIsCompleted ==
    \A d \in Dispatches : OrdersOf(d) # {} ~> dispatch[d].status = "COMPLETED"
=============================================================================
