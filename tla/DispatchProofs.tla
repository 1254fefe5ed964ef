--------------------------- MODULE DispatchProofs ---------------------------
(***************************************************************************)
(* For any number of dispatches, orders, processes and faults: a dispatch  *)
(* is closed once and by an order of its own, a driver has one unstarted   *)
(* instruction per customer, and the tiers of the SLA monitor are stamped  *)
(* in order.  A driver's counters count each dispatch once.                *)
(*                                                                         *)
(* None of this is inductive by itself.  RefsOK says what an event in      *)
(* memory and a candidate of a reconciliation pass stand for; DraftOK what *)
(* a create request still knows when it inserts; PatchOK what a monitor's  *)
(* patch leaves out; CountInv ties the counters to sets of dispatches.     *)
(***************************************************************************)
EXTENDS Dispatch, WellFoundedInduction, FiniteSetTheorems, TLAPS

MonitorRow == [row : Dispatches \cup {0},
               now : UNION {[S -> 0 .. Oldest] : S \in SUBSET Dispatches},
               patch : SUBSET Tiers]
Candidate == [dispatch : Dispatches, order : Orders]
ReconRow == [running : BOOLEAN, left : SUBSET Candidate]

MemoryOK ==
    /\ sla \in [Pods -> MonitorRow]
    /\ recon \in [Pods -> ReconRow]
    /\ \A p \in Pods : sla[p].row # 0 => sla[p].row \in DOMAIN sla[p].now

RefsOK ==
    /\ \A p \in Pods : \A o \in event[p] : order[o] \in Dispatches
    /\ \A p \in Pods : \A c \in recon[p].left : order[c.order] = c.dispatch

CInv == TypeOK /\ MemoryOK /\ RefsOK /\ ClosedByItsOrder

-----------------------------------------------------------------------------

\* A non-empty set of numbers has a smallest one.
LEMMA MinIn ==
    ASSUME NEW S \in SUBSET Nat, S # {}
    PROVE  Min(S) \in S
<1>1. PICK x \in S : \A y \in S : ~(<<y, x>> \in OpToRel(<, Nat))
  BY WFMin, NatLessThanWellFounded
<1>2. ASSUME NEW y \in S PROVE x <= y
  <2>1. x \in Nat /\ y \in Nat /\ <<y, x>> \in Nat \X Nat
    OBVIOUS
  <2>2. ~(y < x)
    BY <1>1, <2>1 DEF OpToRel
  <2> QED BY <2>1, <2>2
<1> QED BY <1>2 DEF Min

\* The tiers and when they are due.
LEMMA DueType == \A t \in Tiers : Due[t] \in 1 .. Oldest
BY DEF Due, Tiers, Oldest

\* A counter that is written, or lost.
LEMMA CountType ==
    ASSUME TypeOK, NEW k \in Counters, Count(k)
    PROVE  metric' \in [Counters -> Nat] /\ faults' \in 0 .. MaxFaults
BY DispatchAssumption DEF TypeOK, Count

\* What the rows must do for CInv to survive a step that leaves `memory` alone or
\* shrinks it.
LEMMA CloseStep ==
    ASSUME CInv, NEW d \in Dispatches, NEW o \in Orders, order[o] = d, Close(d, o),
           UNCHANGED <<age, order, draft, overlapped, workload>>
    PROVE  /\ dispatch' \in [Dispatches -> DispatchRow]
           /\ metric' \in [Counters -> Nat] /\ faults' \in 0 .. MaxFaults
           /\ ClosedByItsOrder'
<1>1. CASE Open(d)
  <2>1. dispatch' = [dispatch EXCEPT ![d].status = "COMPLETED", ![d].order = o] /\ Count("completed")
    BY <1>1 DEF Close
  <2>2. dispatch \in [Dispatches -> DispatchRow]
    BY DEF CInv, TypeOK
  <2>3. dispatch' \in [Dispatches -> DispatchRow]
    <3> DEFINE r == [dispatch[d] EXCEPT !.status = "COMPLETED", !.order = o]
    <3>1. r \in DispatchRow
      BY <2>2 DEF DispatchRow
    <3>2. dispatch' = [dispatch EXCEPT ![d] = r]
      BY <2>1, <2>2
    <3> HIDE DEF r
    <3> QED BY <3>1, <3>2, <2>2
  <2>4. \A c \in Dispatches : IF c = d THEN dispatch'[c].status = "COMPLETED" /\ dispatch'[c].order = o
                              ELSE dispatch'[c] = dispatch[c]
    BY <2>1, <2>2 DEF DispatchRow
  <2>5. ClosedByItsOrder'
    BY <2>4 DEF CInv, ClosedByItsOrder, OrdersOf
  <2>6. metric' \in [Counters -> Nat] /\ faults' \in 0 .. MaxFaults
    BY <2>1, CountType DEF CInv, Counters
  <2> QED BY <2>3, <2>5, <2>6
<1>2. CASE ~Open(d)
  BY <1>2 DEF Close, CInv, TypeOK, ClosedByItsOrder, OrdersOf
<1> QED BY <1>1, <1>2

\* Steps that touch neither the status nor the order of a row.
LEMMA SameClosing ==
    ASSUME CInv, UNCHANGED order,
           \A d \in Dispatches : dispatch'[d].status = dispatch[d].status
                                 /\ dispatch'[d].order = dispatch[d].order
    PROVE  ClosedByItsOrder'
BY DEF CInv, ClosedByItsOrder, OrdersOf

\* Memory that only shrinks.
LEMMA SmallerMemory ==
    ASSUME CInv, UNCHANGED <<order, sla>>,
           event' \in [Pods -> SUBSET Orders], recon' \in [Pods -> ReconRow],
           \A p \in Pods : event'[p] \subseteq event[p] /\ recon'[p].left \subseteq recon[p].left
    PROVE  MemoryOK' /\ RefsOK'
<1>1. MemoryOK'
  BY DEF CInv, MemoryOK
<1>2. RefsOK'
  BY DEF CInv, RefsOK
<1> QED BY <1>1, <1>2

\* The empty memory of a process.
LEMMA EmptyMemory == NoMonitor \in MonitorRow /\ NoMonitor.row = 0 /\ NoRecon \in ReconRow /\ NoRecon.left = {}
<1>1. [d \in {} |-> 0] \in [{} -> 0 .. Oldest]
  BY DEF Oldest
<1>2. {} \in SUBSET Dispatches
  OBVIOUS
<1>3. [d \in {} |-> 0] \in UNION {[S -> 0 .. Oldest] : S \in SUBSET Dispatches}
  BY <1>1, <1>2
<1>4. NoMonitor \in MonitorRow /\ NoMonitor.row = 0
  BY <1>3 DEF NoMonitor, MonitorRow
<1>5. NoRecon \in ReconRow /\ NoRecon.left = {}
  BY DEF NoRecon, ReconRow
<1> QED BY <1>4, <1>5

\* Nothing has happened yet.
LEMMA InitCInv == Init => CInv
<1> SUFFICES ASSUME Init PROVE CInv
  OBVIOUS
<1>1. NoDispatch \in DispatchRow /\ NoDispatch.status = "ABSENT" /\ NoDispatch.order = 0
  BY DEF NoDispatch, DispatchRow, NoStamp, Oldest
<1>2. TypeOK
  <2>1. dispatch \in [Dispatches -> DispatchRow]
    BY <1>1 DEF Init
  <2>2. age \in [Dispatches -> 0 .. Oldest] /\ order \in [Orders -> Dispatches \cup {0}]
    BY DEF Init, Oldest
  <2>3. event \in [Pods -> SUBSET Orders] /\ draft \in [Sessions -> Pairs \cup {NoPair}]
    BY DEF Init
  <2>4. metric \in [Counters -> Nat] /\ faults \in 0 .. MaxFaults
    BY DispatchAssumption DEF Init
  <2>5. overlapped \in BOOLEAN /\ workload \in Workloads
    BY DEF Init
  <2> QED BY <2>1, <2>2, <2>3, <2>4, <2>5 DEF TypeOK
<1>3. MemoryOK
  BY EmptyMemory DEF Init, MemoryOK
<1>4. RefsOK
  BY EmptyMemory DEF Init, RefsOK
<1>5. ClosedByItsOrder
  BY <1>1 DEF Init, ClosedByItsOrder
<1> QED BY <1>2, <1>3, <1>4, <1>5 DEF CInv

-----------------------------------------------------------------------------
(* One lemma per group of actions *)

\* Steps that leave rows and memory alone.
LEMMA QuietCInv ==
    ASSUME CInv, UNCHANGED <<dispatch, order, memory, metric, faults, workload>>,
           age' \in [Dispatches -> 0 .. Oldest], draft' \in [Sessions -> Pairs \cup {NoPair}],
           overlapped' \in BOOLEAN
    PROVE  CInv'
<1>1. TypeOK'
  BY DEF CInv, TypeOK, memory
<1>2. MemoryOK' /\ RefsOK'
  BY DEF CInv, MemoryOK, RefsOK, memory
<1>3. ClosedByItsOrder'
  BY SameClosing
<1> QED BY <1>1, <1>2, <1>3 DEF CInv

\* A row becomes ASSIGNED or IN_PROGRESS.
LEMMA RowCInv ==
    ASSUME CInv, NEW d \in Dispatches, NEW r \in DispatchRow, NEW k \in Counters,
           dispatch' = [dispatch EXCEPT ![d] = r],
           dispatch[d].status # "COMPLETED", r.status # "COMPLETED", r.order = dispatch[d].order,
           Count(k), draft' \in [Sessions -> Pairs \cup {NoPair}],
           UNCHANGED <<age, order, event, sla, recon, overlapped, workload>>
    PROVE  CInv'
<1>1. dispatch \in [Dispatches -> DispatchRow]
  BY DEF CInv, TypeOK
<1>2. metric' \in [Counters -> Nat] /\ faults' \in 0 .. MaxFaults
  BY CountType DEF CInv
<1>3. TypeOK'
  BY <1>1, <1>2 DEF CInv, TypeOK
<1>4. MemoryOK' /\ RefsOK'
  BY DEF CInv, MemoryOK, RefsOK
<1>5. \A c \in Dispatches : dispatch'[c] = IF c = d THEN r ELSE dispatch[c]
  BY <1>1
<1>6. ClosedByItsOrder'
  BY <1>5 DEF CInv, ClosedByItsOrder, OrdersOf
<1> QED BY <1>3, <1>4, <1>6 DEF CInv

\* create, acknowledge.
LEMMA RequestCInv ==
    ASSUME CInv, Request, UNCHANGED workload
    PROVE  CInv'
<1>0. dispatch \in [Dispatches -> DispatchRow] /\ draft \in [Sessions -> Pairs \cup {NoPair}]
  BY DEF CInv, TypeOK
<1>1. ASSUME NEW s \in Sessions, NEW pair \in Pairs, BeginCreate(s, pair) PROVE CInv'
  <2>1. draft' \in [Sessions -> Pairs \cup {NoPair}]
    BY <1>0, <1>1 DEF BeginCreate
  <2>2. overlapped' \in BOOLEAN
    BY <1>1 DEF BeginCreate
  <2>3. age' \in [Dispatches -> 0 .. Oldest] /\ UNCHANGED <<dispatch, order, memory, metric, faults>>
    BY <1>1 DEF BeginCreate, rows, CInv, TypeOK
  <2> QED BY <2>1, <2>2, <2>3, QuietCInv
<1>2. ASSUME NEW s \in Sessions, NEW d \in Dispatches, CommitCreate(s, d) PROVE CInv'
  <2> DEFINE r == [dispatch[d] EXCEPT !.status = "ASSIGNED", !.pair = draft[s]]
  <2>1. dispatch[d].status = "ABSENT"
    BY <1>2 DEF CommitCreate, Exists
  <2>2. r \in DispatchRow /\ r.status = "ASSIGNED" /\ r.order = dispatch[d].order
    BY <1>0 DEF DispatchRow
  <2>3. dispatch' = [dispatch EXCEPT ![d] = r]
    BY <1>0, <1>2 DEF CommitCreate
  <2>4. draft' \in [Sessions -> Pairs \cup {NoPair}]
    BY <1>0, <1>2 DEF CommitCreate
  <2>5. Count("assigned") /\ "assigned" \in Counters
        /\ UNCHANGED <<age, order, event, sla, recon, overlapped>>
    BY <1>2 DEF CommitCreate, Counters
  <2> HIDE DEF r
  <2> QED BY <2>1, <2>2, <2>3, <2>4, <2>5, RowCInv
<1>3. ASSUME NEW d \in Dispatches, Acknowledge(d) PROVE CInv'
  <2> DEFINE r == [dispatch[d] EXCEPT !.status = "IN_PROGRESS", !.acknowledged = TRUE]
  <2>1. dispatch[d].status = "ASSIGNED"
    BY <1>3 DEF Acknowledge
  <2>2. r \in DispatchRow /\ r.status = "IN_PROGRESS" /\ r.order = dispatch[d].order
    BY <1>0 DEF DispatchRow
  <2>3. dispatch' = [dispatch EXCEPT ![d] = r]
    BY <1>0, <1>3 DEF Acknowledge
  <2>4. draft' \in [Sessions -> Pairs \cup {NoPair}]
    BY <1>0, <1>3 DEF Acknowledge
  <2>5. Count("acknowledged") /\ "acknowledged" \in Counters
        /\ UNCHANGED <<age, order, event, sla, recon, overlapped>>
    BY <1>3 DEF Acknowledge, Counters
  <2> HIDE DEF r
  <2> QED BY <2>1, <2>2, <2>3, <2>4, <2>5, RowCInv
<1> QED BY <1>1, <1>2, <1>3 DEF Request

\* A pass of the reconciliation reads dispatches with orders of their own.
LEMMA BatchOK ==
    ASSUME CInv, NEW c \in Batch
    PROVE  c \in Candidate /\ order[c.order] = c.dispatch
<1>1. PICK d \in Dispatches : d \in Candidates /\ c = [dispatch |-> d, order |-> Min(OrdersOf(d))]
  BY DEF Batch, Candidates
<1>2. OrdersOf(d) \in SUBSET Nat /\ OrdersOf(d) # {}
  BY <1>1 DEF Candidates, OrdersOf, Orders
<1>3. Min(OrdersOf(d)) \in OrdersOf(d)
  BY <1>2, MinIn
<1> QED BY <1>1, <1>3 DEF OrdersOf, Candidate

\* Orders, the listener and the reconciliation.
LEMMA CompletionCInv ==
    ASSUME CInv, NEW p \in Pods, Completion(p), UNCHANGED workload
    PROVE  CInv'
<1>0. /\ event \in [Pods -> SUBSET Orders] /\ recon \in [Pods -> ReconRow]
      /\ order \in [Orders -> Dispatches \cup {0}] /\ 0 \notin Dispatches
  BY DEF CInv, TypeOK, MemoryOK, Dispatches
<1>1. ASSUME NEW o \in Orders, HandleOrderCreated(p, o) PROVE CInv'
  <2>1. order[o] \in Dispatches
    BY <1>1 DEF HandleOrderCreated, CInv, RefsOK
  <2>2. /\ dispatch' \in [Dispatches -> DispatchRow]
        /\ metric' \in [Counters -> Nat] /\ faults' \in 0 .. MaxFaults
        /\ ClosedByItsOrder'
    BY <1>1, <2>1, CloseStep DEF HandleOrderCreated
  <2>3. /\ event' \in [Pods -> SUBSET Orders]
        /\ \A q \in Pods : event'[q] \subseteq event[q]
        /\ UNCHANGED <<age, order, sla, recon, draft, overlapped>>
    BY <1>0, <1>1 DEF HandleOrderCreated
  <2>4. MemoryOK' /\ RefsOK'
    BY <1>0, <2>3, SmallerMemory
  <2>5. TypeOK'
    BY <2>2, <2>3 DEF CInv, TypeOK
  <2> QED BY <2>2, <2>4, <2>5 DEF CInv
<1>2. ASSUME NEW o \in Orders, NEW d \in Dispatches, CreateOrder(p, o, d) PROVE CInv'
  <2>1. /\ order' = [order EXCEPT ![o] = d] /\ order[o] = 0
        /\ event' = [event EXCEPT ![p] = @ \cup {o}]
        /\ UNCHANGED <<dispatch, age, sla, recon, draft, metric, faults, overlapped>>
    BY <1>2 DEF CreateOrder
  <2>2. TypeOK'
    BY <1>0, <2>1 DEF CInv, TypeOK
  <2>3. MemoryOK'
    BY <2>1 DEF CInv, MemoryOK
  <2>4. \A x \in Orders : order'[x] = IF x = o THEN d ELSE order[x]
    BY <1>0, <2>1
  <2>5. \A q \in Pods : event'[q] \subseteq event[q] \cup {o} /\ event[q] \subseteq Orders
    BY <1>0, <2>1
  <2>6. \A q \in Pods : \A x \in event'[q] : order'[x] \in Dispatches
    BY <2>4, <2>5 DEF CInv, RefsOK
  <2>7. ASSUME NEW q \in Pods, NEW c \in recon[q].left PROVE order'[c.order] = c.dispatch
    <3>1. c \in Candidate /\ order[c.order] = c.dispatch
      BY <1>0, <2>7 DEF CInv, RefsOK, ReconRow
    <3>2. c.order \in Orders /\ c.dispatch \in Dispatches
      BY <3>1 DEF Candidate
    <3> QED BY <3>1, <3>2, <2>1, <2>4, <1>0
  <2>8. RefsOK'
    BY <2>1, <2>6, <2>7 DEF RefsOK
  <2>9. \A c \in Dispatches : OrdersOf(c) \subseteq OrdersOf(c)'
    BY <2>1, <2>4, <1>0 DEF OrdersOf
  <2>10. ClosedByItsOrder'
    BY <2>1, <2>9 DEF CInv, ClosedByItsOrder
  <2> QED BY <2>2, <2>3, <2>8, <2>10 DEF CInv
<1>3. ASSUME ReconStart(p) PROVE CInv'
  <2>1. recon' = [recon EXCEPT ![p] = [running |-> TRUE, left |-> Batch]]
        /\ UNCHANGED <<dispatch, age, order, event, sla, draft, metric, faults, overlapped>>
    BY <1>3 DEF ReconStart, rows
  <2>2. Batch \subseteq Candidate
    BY BatchOK
  <2>3. recon' \in [Pods -> ReconRow]
    BY <1>0, <2>1, <2>2 DEF ReconRow
  <2>4. TypeOK' /\ MemoryOK'
    BY <2>1, <2>3 DEF CInv, TypeOK, MemoryOK
  <2>5. \A q \in Pods : recon'[q].left = IF q = p THEN Batch ELSE recon[q].left
    BY <1>0, <2>1
  <2>6. RefsOK'
    BY <2>1, <2>5, BatchOK DEF CInv, RefsOK
  <2>7. ClosedByItsOrder'
    BY <2>1, SameClosing
  <2> QED BY <2>4, <2>6, <2>7 DEF CInv
<1>4. ASSUME ReconcileOne(p) PROVE CInv'
  <2>1. PICK c \in recon[p].left :
          /\ Close(c.dispatch, c.order)
          /\ recon' = [recon EXCEPT ![p] = [running |-> recon[p].left # {c}, left |-> recon[p].left \ {c}]]
          /\ UNCHANGED <<age, order, event, sla, draft, overlapped>>
    BY <1>4 DEF ReconcileOne
  <2>2. c \in Candidate /\ order[c.order] = c.dispatch
    BY <1>0, <2>1 DEF CInv, RefsOK, ReconRow
  <2>3. c.order \in Orders /\ c.dispatch \in Dispatches
    BY <2>2 DEF Candidate
  <2>4. /\ dispatch' \in [Dispatches -> DispatchRow]
        /\ metric' \in [Counters -> Nat] /\ faults' \in 0 .. MaxFaults
        /\ ClosedByItsOrder'
    BY <2>1, <2>2, <2>3, CloseStep
  <2>5. recon[p].left \subseteq Candidate
    BY <1>0 DEF ReconRow
  <2>6. [running |-> recon[p].left # {c}, left |-> recon[p].left \ {c}] \in ReconRow
    BY <2>5 DEF ReconRow
  <2>7. recon' \in [Pods -> ReconRow]
    BY <1>0, <2>1, <2>6
  <2>8. \A q \in Pods : recon'[q].left \subseteq recon[q].left
    BY <1>0, <2>1
  <2>9. MemoryOK' /\ RefsOK'
    BY <1>0, <2>1, <2>7, <2>8, SmallerMemory
  <2>10. TypeOK'
    BY <2>1, <2>4 DEF CInv, TypeOK
  <2> QED BY <2>4, <2>9, <2>10 DEF CInv
<1>5. ASSUME ReconFails(p) PROVE CInv'
  <2>1. /\ recon' = [recon EXCEPT ![p] = NoRecon] /\ faults' = faults + 1 /\ faults < MaxFaults
        /\ UNCHANGED <<dispatch, age, order, event, sla, draft, metric, overlapped>>
    BY <1>5 DEF ReconFails, rows
  <2>2. recon' \in [Pods -> ReconRow] /\ \A q \in Pods : recon'[q].left \subseteq recon[q].left
    BY <1>0, <2>1, EmptyMemory
  <2>3. MemoryOK' /\ RefsOK'
    BY <1>0, <2>1, <2>2, SmallerMemory
  <2>4. faults' \in 0 .. MaxFaults
    BY <2>1, DispatchAssumption DEF CInv, TypeOK
  <2>5. TypeOK'
    BY <2>1, <2>4 DEF CInv, TypeOK
  <2>6. ClosedByItsOrder'
    BY <2>1, SameClosing
  <2> QED BY <2>3, <2>5, <2>6 DEF CInv
<1> QED BY <1>1, <1>2, <1>3, <1>4, <1>5 DEF Completion

\* A process dies.
LEMMA CrashCInv ==
    ASSUME CInv, NEW p \in Pods, Crash(p), UNCHANGED workload
    PROVE  CInv'
<1>1. /\ faults' = faults + 1 /\ faults < MaxFaults
      /\ event' = [event EXCEPT ![p] = {}]
      /\ sla' = [sla EXCEPT ![p] = NoMonitor]
      /\ recon' = [recon EXCEPT ![p] = NoRecon]
      /\ UNCHANGED <<dispatch, age, order, draft, metric, overlapped>>
  BY DEF Crash, rows
<1>2. event \in [Pods -> SUBSET Orders] /\ sla \in [Pods -> MonitorRow] /\ recon \in [Pods -> ReconRow]
  BY DEF CInv, TypeOK, MemoryOK
<1>3. faults' \in 0 .. MaxFaults
  BY <1>1, DispatchAssumption DEF CInv, TypeOK
<1>4. TypeOK'
  BY <1>1, <1>2, <1>3 DEF CInv, TypeOK
<1>5. sla' \in [Pods -> MonitorRow] /\ recon' \in [Pods -> ReconRow]
  BY <1>1, <1>2, EmptyMemory
<1>6. \A q \in Pods : sla'[q].row # 0 => sla'[q].row \in DOMAIN sla'[q].now
  BY <1>1, <1>2, EmptyMemory DEF CInv, MemoryOK
<1>7. RefsOK'
  BY <1>1, <1>2, EmptyMemory DEF CInv, RefsOK
<1>8. ClosedByItsOrder'
  BY <1>1, SameClosing
<1> QED BY <1>4, <1>5, <1>6, <1>7, <1>8 DEF CInv, MemoryOK

\* What a monitor remembers of the ages is a function on dispatches.
LEMMA NowType ==
    ASSUME CInv, NEW p \in Pods
    PROVE  /\ DOMAIN sla[p].now \subseteq Dispatches
           /\ \A d \in DOMAIN sla[p].now : sla[p].now[d] \in 0 .. Oldest
           /\ sla[p].now = [d \in DOMAIN sla[p].now |-> sla[p].now[d]]
<1>1. sla[p].now \in UNION {[S -> 0 .. Oldest] : S \in SUBSET Dispatches}
  BY DEF CInv, MemoryOK, MonitorRow
<1>2. PICK S \in SUBSET Dispatches : sla[p].now \in [S -> 0 .. Oldest]
  BY <1>1
<1> QED BY <1>2

\* The monitor as a step on one process's memory, and stamps that are ages.
LEMMA OneMonitor ==
    ASSUME CInv, NEW p \in Pods, NEW S \in SUBSET Dispatches, NEW now \in [S -> 0 .. Oldest],
           NEW row \in Dispatches \cup {0}, NEW patch \in SUBSET Tiers, row # 0 => row \in S,
           sla' = [sla EXCEPT ![p] = [row |-> row, now |-> now, patch |-> patch]],
           dispatch' \in [Dispatches -> DispatchRow],
           \A d \in Dispatches : dispatch'[d].status = dispatch[d].status
                                 /\ dispatch'[d].order = dispatch[d].order,
           UNCHANGED <<age, order, event, recon, draft, metric, faults, workload>>,
           overlapped' \in BOOLEAN
    PROVE  CInv'
<1>1. TypeOK'
  BY DEF CInv, TypeOK
<1> DEFINE m == [row |-> row, now |-> now, patch |-> patch]
<1>2. now \in UNION {[T -> 0 .. Oldest] : T \in SUBSET Dispatches}
  OBVIOUS
<1>3. m \in MonitorRow
  BY <1>2 DEF MonitorRow
<1>4. sla \in [Pods -> MonitorRow]
  BY DEF CInv, MemoryOK
<1>5. sla' \in [Pods -> MonitorRow]
  BY <1>3, <1>4
<1>6. \A q \in Pods : sla'[q].row # 0 => sla'[q].row \in DOMAIN sla'[q].now
  BY <1>4 DEF CInv, MemoryOK
<1>7. MemoryOK'
  BY <1>5, <1>6 DEF CInv, MemoryOK
<1>8. RefsOK'
  BY DEF CInv, RefsOK
<1>9. ClosedByItsOrder'
  BY SameClosing
<1> QED BY <1>1, <1>7, <1>8, <1>9 DEF CInv

\* One row is stamped.
LEMMA PatchedType ==
    ASSUME dispatch \in [Dispatches -> DispatchRow], NEW d \in Dispatches,
           NEW patch \in SUBSET Tiers, NEW now \in 0 .. Oldest,
           dispatch' = [dispatch EXCEPT ![d].stamp = Patched(@, patch, now)]
    PROVE  /\ dispatch' \in [Dispatches -> DispatchRow]
           /\ \A c \in Dispatches : c # d => dispatch'[c] = dispatch[c]
           /\ dispatch'[d].status = dispatch[d].status /\ dispatch'[d].order = dispatch[d].order
           /\ dispatch'[d].pair = dispatch[d].pair
           /\ \A t \in Tiers : dispatch'[d].stamp[t] = IF t \in patch THEN now ELSE dispatch[d].stamp[t]
<1> DEFINE st == Patched(dispatch[d].stamp, patch, now)
<1>1. dispatch[d] \in DispatchRow /\ dispatch[d].stamp \in [Tiers -> 0 .. Oldest]
  BY DEF DispatchRow
<1>2. st \in [Tiers -> 0 .. Oldest] /\ \A t \in Tiers : st[t] = IF t \in patch THEN now ELSE dispatch[d].stamp[t]
  BY <1>1 DEF Patched
<1> DEFINE r == [dispatch[d] EXCEPT !.stamp = st]
<1>3. dispatch' = [dispatch EXCEPT ![d] = r]
  OBVIOUS
<1> HIDE DEF st
<1>4. /\ r \in DispatchRow /\ r.status = dispatch[d].status /\ r.order = dispatch[d].order
      /\ r.pair = dispatch[d].pair /\ r.stamp = st
  BY <1>1, <1>2 DEF DispatchRow
<1> HIDE DEF r
<1>5. dispatch'[d] = r /\ \A c \in Dispatches : c # d => dispatch'[c] = dispatch[c]
  BY <1>3
<1>6. dispatch' \in [Dispatches -> DispatchRow]
  BY <1>3, <1>4
<1> QED BY <1>2, <1>4, <1>5, <1>6

\* The SLA monitor.
LEMMA MonitorCInv ==
    ASSUME CInv, NEW p \in Pods, Monitor(p), UNCHANGED workload
    PROVE  CInv'
<1>0. /\ dispatch \in [Dispatches -> DispatchRow] /\ sla \in [Pods -> MonitorRow]
      /\ age \in [Dispatches -> 0 .. Oldest] /\ overlapped \in BOOLEAN
  BY DEF CInv, TypeOK, MemoryOK
<1>1. ASSUME MonitorStart(p) PROVE CInv'
  <2> DEFINE S == {d \in Dispatches : dispatch[d].status = "ASSIGNED" /\ Missing(d, age[d]) # {}}
             now == [d \in S |-> age[d]]
  <2>2. sla' = [sla EXCEPT ![p] = [row |-> 0, now |-> now, patch |-> {}]]
    BY <1>1 DEF MonitorStart
  <2>3. now \in [S -> 0 .. Oldest] /\ S \in SUBSET Dispatches
    BY <1>0
  <2>4. UNCHANGED <<dispatch, age, order, event, recon, draft, metric, faults>> /\ overlapped' \in BOOLEAN
    BY <1>1 DEF MonitorStart, rows
  <2>5. 0 \in Dispatches \cup {0} /\ {} \in SUBSET Tiers /\ (0 # 0 => 0 \in S)
    OBVIOUS
  <2>6. \A d \in Dispatches : dispatch'[d].status = dispatch[d].status /\ dispatch'[d].order = dispatch[d].order
    BY <2>4
  <2>7. dispatch' \in [Dispatches -> DispatchRow]
    BY <1>0, <2>4
  <2> HIDE DEF S, now
  <2> QED BY <2>2, <2>3, <2>4, <2>5, <2>6, <2>7, OneMonitor, Zenon
<1>2. ASSUME NEW d \in Dispatches, MonitorRead(p, d) PROVE CInv'
  <2> DEFINE patch == IF dispatch[d].status = "ASSIGNED" THEN Missing(d, sla[p].now[d]) ELSE {}
  <2>1. d \in DOMAIN sla[p].now
        /\ sla' = [sla EXCEPT ![p] = [row |-> d, now |-> sla[p].now, patch |-> patch]]
        /\ UNCHANGED <<dispatch, age, order, event, recon, draft, metric, faults, overlapped>>
    BY <1>2 DEF MonitorRead, rows
  <2>2. patch \in SUBSET Tiers
    BY DEF Missing
  <2>3. PICK S \in SUBSET Dispatches : S = DOMAIN sla[p].now
    BY NowType
  <2>4. PICK now \in [S -> 0 .. Oldest] : now = sla[p].now
    BY <2>3, NowType
  <2>5. d \in Dispatches \cup {0} /\ (d # 0 => d \in S)
    BY <2>1, <2>3
  <2>6. \A c \in Dispatches : dispatch'[c].status = dispatch[c].status /\ dispatch'[c].order = dispatch[c].order
    BY <2>1
  <2>7. dispatch' \in [Dispatches -> DispatchRow] /\ overlapped' \in BOOLEAN
    BY <1>0, <2>1
  <2>8. UNCHANGED <<age, order, event, recon, draft, metric, faults, workload>>
    BY <2>1
  <2>9. sla' = [sla EXCEPT ![p] = [row |-> d, now |-> now, patch |-> patch]]
    BY <2>1, <2>4
  <2> HIDE DEF patch
  <2> QED BY <2>2, <2>5, <2>6, <2>7, <2>8, <2>9, OneMonitor, Zenon
<1>3. ASSUME MonitorWrite(p) PROVE CInv'
  <2>1. PICK d : d = sla[p].row
    OBVIOUS
  <2>2. d # 0 /\ d \in DOMAIN sla[p].now
    BY <1>3, <2>1 DEF MonitorWrite, CInv, MemoryOK
  <2>3. d \in Dispatches /\ sla[p].now[d] \in 0 .. Oldest
    BY <2>2, NowType
  <2> DEFINE S == DOMAIN sla[p].now \ {d}
             now == [c \in S |-> sla[p].now[c]]
  <2>4. /\ dispatch' = [dispatch EXCEPT ![d].stamp = Patched(@, sla[p].patch, sla[p].now[d])]
        /\ sla' = [sla EXCEPT ![p] = [row |-> 0, now |-> now, patch |-> {}]]
        /\ UNCHANGED <<age, order, event, recon, draft, metric, faults, overlapped>>
    BY <1>3, <2>1 DEF MonitorWrite
  <2>5. sla[p].patch \in SUBSET Tiers
    BY <1>0 DEF MonitorRow
  <2>6. /\ dispatch' \in [Dispatches -> DispatchRow]
        /\ \A c \in Dispatches : dispatch'[c].status = dispatch[c].status
                                  /\ dispatch'[c].order = dispatch[c].order
    BY <1>0, <2>3, <2>4, <2>5, PatchedType
  <2>7. S \in SUBSET Dispatches /\ now \in [S -> 0 .. Oldest]
    BY NowType
  <2>8. 0 \in Dispatches \cup {0} /\ {} \in SUBSET Tiers /\ (0 # 0 => 0 \in S)
    OBVIOUS
  <2>9. overlapped' \in BOOLEAN
    BY <1>0, <2>4
  <2> HIDE DEF S, now
  <2> QED BY <2>4, <2>6, <2>7, <2>8, <2>9, OneMonitor, Zenon
<1> QED BY <1>1, <1>2, <1>3 DEF Monitor

\* Time passes.
LEMMA TickCInv ==
    ASSUME CInv, NEW d \in Dispatches, Tick(d), UNCHANGED workload
    PROVE  CInv'
<1>1. age \in [Dispatches -> 0 .. Oldest] /\ overlapped \in BOOLEAN /\ draft \in [Sessions -> Pairs \cup {NoPair}]
  BY DEF CInv, TypeOK
<1>2. age' \in [Dispatches -> 0 .. Oldest]
  BY <1>1 DEF Tick, Oldest
<1>3. UNCHANGED <<dispatch, order, memory, metric, faults, draft, overlapped>>
  BY DEF Tick
<1> QED BY <1>1, <1>2, <1>3, QuietCInv

\* CInv is inductive.
LEMMA StepCInv == CInv /\ [Next]_vars => CInv'
<1> SUFFICES ASSUME CInv, [Next]_vars PROVE CInv'
  OBVIOUS
<1>1. CASE UNCHANGED vars
  <2>1. UNCHANGED <<dispatch, order, memory, metric, faults, workload, age, draft, overlapped>>
    BY <1>1 DEF vars, rows
  <2> QED BY <2>1, QuietCInv DEF CInv, TypeOK
<1>2. CASE Next
  BY <1>2, RequestCInv, CompletionCInv, CrashCInv, MonitorCInv, TickCInv DEF Next, Step
<1> QED BY <1>1, <1>2

\* Every row keeps its type, and the order that closed a dispatch is one of its own,
\* whether the listener or a reconciliation pass closed it and whatever was lost.
THEOREM ClosingCorrect == Spec => [](TypeOK /\ ClosedByItsOrder)
<1>1. Init => CInv
  BY InitCInv
<1>2. CInv /\ [Next]_vars => CInv'
  BY StepCInv
<1>3. CInv => TypeOK /\ ClosedByItsOrder
  BY DEF CInv
<1> QED BY <1>1, <1>2, <1>3, PTL DEF Spec

-----------------------------------------------------------------------------
(* What a step may do to the rows *)

\* Closing a dispatch: an open row becomes COMPLETED, nothing else.
LEMMA CloseFrame ==
    ASSUME CInv, NEW d \in Dispatches, NEW o \in Orders, Close(d, o)
    PROVE  \A c \in Dispatches :
              \/ dispatch'[c] = dispatch[c]
              \/ /\ dispatch[c].status \in {"ASSIGNED", "IN_PROGRESS"} /\ dispatch'[c].status = "COMPLETED"
                 /\ dispatch'[c].stamp = dispatch[c].stamp
<1>1. dispatch \in [Dispatches -> DispatchRow]
  BY DEF CInv, TypeOK
<1>2. CASE Open(d)
  <2> DEFINE r == [dispatch[d] EXCEPT !.status = "COMPLETED", !.order = o]
  <2>1. r.status = "COMPLETED" /\ r.stamp = dispatch[d].stamp
    BY <1>1 DEF DispatchRow
  <2>2. dispatch' = [dispatch EXCEPT ![d] = r]
    BY <1>1, <1>2 DEF Close
  <2> HIDE DEF r
  <2> QED BY <1>1, <1>2, <2>1, <2>2 DEF Open
<1>3. CASE ~Open(d)
  BY <1>3 DEF Close
<1> QED BY <1>2, <1>3

\* Orders, the listener and the reconciliation change no monitor, no draft and no
\* stamp; they only close open rows.
LEMMA CompletionFrame ==
    ASSUME CInv, NEW p \in Pods, Completion(p)
    PROVE  /\ UNCHANGED <<age, sla, draft, overlapped>>
           /\ \A c \in Dispatches :
                \/ dispatch'[c] = dispatch[c]
                \/ /\ dispatch[c].status \in {"ASSIGNED", "IN_PROGRESS"} /\ dispatch'[c].status = "COMPLETED"
                   /\ dispatch'[c].stamp = dispatch[c].stamp
<1>1. ASSUME NEW o \in Orders, HandleOrderCreated(p, o)
      PROVE  /\ UNCHANGED <<age, sla, draft, overlapped>> /\ order[o] \in Dispatches /\ Close(order[o], o)
  BY <1>1 DEF HandleOrderCreated, CInv, RefsOK
<1>2. ASSUME ReconcileOne(p)
      PROVE  /\ UNCHANGED <<age, sla, draft, overlapped>>
             /\ \E c \in Candidate : Close(c.dispatch, c.order)
  BY <1>2 DEF ReconcileOne, CInv, MemoryOK, ReconRow
<1>3. \A c \in Candidate : c.dispatch \in Dispatches /\ c.order \in Orders
  BY DEF Candidate
<1>4. ASSUME \/ \E o \in Orders, d \in Dispatches : CreateOrder(p, o, d)
             \/ ReconStart(p) \/ ReconFails(p)
      PROVE  UNCHANGED <<age, sla, draft, overlapped, dispatch>>
  BY <1>4 DEF CreateOrder, ReconStart, ReconFails, rows
<1> QED BY <1>1, <1>2, <1>3, <1>4, CloseFrame DEF Completion

\* What a request does: a draft is begun, a row inserted or taken up.
LEMMA RequestFrame ==
    ASSUME CInv, Request
    PROVE  /\ UNCHANGED <<age, sla>>
           /\ ~overlapped' => ~overlapped
           /\ \A c \in Dispatches : dispatch'[c].stamp = dispatch[c].stamp
           /\ \A c \in Dispatches : dispatch[c].status = "COMPLETED" => dispatch'[c] = dispatch[c]
<1>1. dispatch \in [Dispatches -> DispatchRow]
  BY DEF CInv, TypeOK
<1>2. CASE \E s \in Sessions, pair \in Pairs : BeginCreate(s, pair)
  BY <1>2 DEF BeginCreate, rows, memory
<1>3. CASE \E d \in Dispatches, s \in Sessions : CommitCreate(s, d)
  <2>1. PICK d \in Dispatches, s \in Sessions : CommitCreate(s, d)
    BY <1>3
  <2> DEFINE r == [dispatch[d] EXCEPT !.status = "ASSIGNED", !.pair = draft[s]]
  <2>2. r.stamp = dispatch[d].stamp /\ dispatch[d].status = "ABSENT"
    BY <1>1, <2>1 DEF DispatchRow, CommitCreate, Exists
  <2>3. dispatch' = [dispatch EXCEPT ![d] = r] /\ UNCHANGED <<age, sla, overlapped>>
    BY <1>1, <2>1 DEF CommitCreate
  <2> HIDE DEF r
  <2> QED BY <1>1, <2>2, <2>3
<1>4. CASE \E d \in Dispatches : Acknowledge(d)
  BY <1>1, <1>4 DEF Acknowledge, DispatchRow
<1> QED BY <1>2, <1>3, <1>4 DEF Request

\* What a monitor does to the rows, if anything: it stamps one.
LEMMA MonitorFrame ==
    ASSUME CInv, NEW p \in Pods, Monitor(p)
    PROVE  /\ UNCHANGED <<age, draft>>
           /\ ~overlapped' => ~overlapped
           /\ \A c \in Dispatches : /\ dispatch'[c].status = dispatch[c].status
                                     /\ dispatch'[c].order = dispatch[c].order
                                     /\ dispatch'[c].pair = dispatch[c].pair
<1>0. CASE MonitorStart(p)
  <2>1. UNCHANGED <<dispatch, age, draft>>
    BY <1>0 DEF MonitorStart, rows
  <2>2. overlapped => overlapped'
    BY <1>0, Zenon DEF MonitorStart
  <2> QED BY <2>1, <2>2
<1>1. CASE \E d \in Dispatches : MonitorRead(p, d)
  BY <1>1 DEF MonitorRead, rows
<1>2. CASE MonitorWrite(p)
  <2>1. PICK d : d = sla[p].row
    OBVIOUS
  <2>2. d \in DOMAIN sla[p].now
    BY <1>2, <2>1 DEF MonitorWrite, CInv, MemoryOK
  <2>3. d \in Dispatches /\ sla[p].now[d] \in 0 .. Oldest
    BY <2>2, NowType
  <2>4. /\ dispatch' = [dispatch EXCEPT ![d].stamp = Patched(@, sla[p].patch, sla[p].now[d])]
        /\ UNCHANGED <<age, draft, overlapped>>
    BY <1>2, <2>1 DEF MonitorWrite
  <2>5. sla[p].patch \in SUBSET Tiers /\ dispatch \in [Dispatches -> DispatchRow]
    BY DEF CInv, TypeOK, MemoryOK, MonitorRow
  <2> QED BY <2>3, <2>4, <2>5, PatchedType
<1> QED BY <1>0, <1>1, <1>2 DEF Monitor

\* A completed dispatch stays completed and keeps its order, whichever of the
\* listener, the reconciliation passes and acknowledge come late.
THEOREM CompletedStays == Spec => CompletedIsFinal
<1> DEFINE A == \A d \in Dispatches : dispatch[d].status = "COMPLETED"
                  => dispatch'[d].status = "COMPLETED" /\ dispatch'[d].order = dispatch[d].order
<1>1. ASSUME CInv, [Next]_vars PROVE [A]_vars
  <2> SUFFICES ASSUME Step PROVE A
    BY <1>1 DEF Next
  <2>1. CASE Request
    BY <1>1, <2>1, RequestFrame
  <2>2. CASE \E p \in Pods : Completion(p)
    BY <1>1, <2>2, CompletionFrame
  <2>3. CASE \E p \in Pods : Monitor(p)
    BY <1>1, <2>3, MonitorFrame
  <2>4. CASE (\E p \in Pods : Crash(p)) \/ \E d \in Dispatches : Tick(d)
    BY <2>4 DEF Crash, Tick, rows
  <2> QED BY <2>1, <2>2, <2>3, <2>4 DEF Step
<1>2. Spec => []CInv
  BY InitCInv, StepCInv, PTL DEF Spec
<1> QED BY <1>1, <1>2, PTL DEF Spec, CompletedIsFinal

-----------------------------------------------------------------------------
(* One unstarted instruction per driver and customer *)

DraftOK ==
    ~overlapped =>
        /\ \A r, s \in Sessions : draft[r] # NoPair /\ draft[s] # NoPair => r = s
        /\ \A s \in Sessions : draft[s] # NoPair => ~Duplicate(draft[s])

\* Steps that assign nothing keep both.
LEMMA NoneAssigned ==
    ASSUME DraftOK, OneAssigned, UNCHANGED draft, ~overlapped' => ~overlapped,
           \A c \in Dispatches : dispatch'[c].status = "ASSIGNED"
               => dispatch[c].status = "ASSIGNED" /\ dispatch'[c].pair = dispatch[c].pair
    PROVE  DraftOK' /\ OneAssigned'
<1>1. DraftOK'
  BY DEF DraftOK, Duplicate
<1>2. OneAssigned'
  BY DEF OneAssigned
<1> QED BY <1>1, <1>2

\* The insert of a create request that ran alone finds no duplicate.
LEMMA CreateAlone ==
    ASSUME CInv, DraftOK, OneAssigned, NEW s \in Sessions, NEW d \in Dispatches, CommitCreate(s, d)
    PROVE  DraftOK' /\ OneAssigned'
<1>1. dispatch \in [Dispatches -> DispatchRow] /\ draft \in [Sessions -> Pairs \cup {NoPair}]
  BY DEF CInv, TypeOK
<1> DEFINE r == [dispatch[d] EXCEPT !.status = "ASSIGNED", !.pair = draft[s]]
<1>2. r.status = "ASSIGNED" /\ r.pair = draft[s]
  BY <1>1 DEF DispatchRow
<1>3. /\ dispatch' = [dispatch EXCEPT ![d] = r] /\ draft[s] # NoPair
      /\ draft' = [draft EXCEPT ![s] = NoPair] /\ overlapped' = overlapped
  BY <1>1 DEF CommitCreate
<1> HIDE DEF r
<1>4. \A c \in Dispatches : dispatch'[c] = IF c = d THEN r ELSE dispatch[c]
  BY <1>1, <1>3
<1>5. \A q \in Sessions : draft'[q] = IF q = s THEN NoPair ELSE draft[q]
  BY <1>1, <1>3
<1>6. DraftOK'
  BY <1>3, <1>5 DEF DraftOK
<1>7. ~overlapped => ~Duplicate(draft[s])
  BY <1>3 DEF DraftOK
<1>8. OneAssigned'
  BY <1>2, <1>3, <1>4, <1>7 DEF OneAssigned, Duplicate
<1> QED BY <1>6, <1>8

\* A create request that starts alone has looked for duplicates.
LEMMA BeginAlone ==
    ASSUME CInv, DraftOK, OneAssigned, NEW s \in Sessions, NEW pair \in Pairs, BeginCreate(s, pair)
    PROVE  DraftOK' /\ OneAssigned'
<1>1. /\ draft' = [draft EXCEPT ![s] = pair] /\ dispatch' = dispatch /\ ~Duplicate(pair)
  BY DEF BeginCreate, rows
<1>2. ~overlapped' => ~overlapped /\ \A r \in Sessions : draft[r] = NoPair
  BY Zenon DEF BeginCreate
<1>3. draft \in [Sessions -> Pairs \cup {NoPair}]
  BY DEF CInv, TypeOK
<1>4. \A q \in Sessions : draft'[q] = IF q = s THEN pair ELSE draft[q]
  BY <1>1, <1>3
<1>5. DraftOK'
  BY <1>1, <1>2, <1>4 DEF DraftOK, Duplicate
<1>6. OneAssigned'
  BY <1>1, <1>2 DEF OneAssigned
<1> QED BY <1>5, <1>6

\* As long as create requests do not overlap, a driver has one unstarted
\* instruction per customer: the duplicate check holds at the insert.
THEOREM OneInstruction == Spec => []OneAssigned
<1>1. Init => DraftOK /\ OneAssigned
  BY DEF Init, DraftOK, OneAssigned, NoDispatch
<1>2. ASSUME CInv, DraftOK, OneAssigned, [Next]_vars PROVE DraftOK' /\ OneAssigned'
  <2>1. CASE UNCHANGED vars
    BY <1>2, <2>1, NoneAssigned DEF vars, rows
  <2>2. CASE Step
    <3>1. CASE \E s \in Sessions, pair \in Pairs : BeginCreate(s, pair)
      BY <1>2, <3>1, BeginAlone
    <3>2. CASE \E d \in Dispatches, s \in Sessions : CommitCreate(s, d)
      BY <1>2, <3>2, CreateAlone
    <3>3. CASE \E d \in Dispatches : Acknowledge(d)
      <4>1. PICK d \in Dispatches : Acknowledge(d)
        BY <3>3
      <4>2. dispatch \in [Dispatches -> DispatchRow]
        BY <1>2 DEF CInv, TypeOK
      <4> DEFINE r == [dispatch[d] EXCEPT !.status = "IN_PROGRESS", !.acknowledged = TRUE]
      <4>3. r.status = "IN_PROGRESS"
        BY <4>2 DEF DispatchRow
      <4>4. dispatch' = [dispatch EXCEPT ![d] = r] /\ UNCHANGED <<draft, overlapped>>
        BY <4>1, <4>2 DEF Acknowledge
      <4> HIDE DEF r
      <4>5. \A c \in Dispatches : dispatch'[c].status = "ASSIGNED" => dispatch'[c] = dispatch[c]
        BY <4>2, <4>3, <4>4
      <4> QED BY <1>2, <4>4, <4>5, NoneAssigned
    <3>4. CASE \E p \in Pods : Completion(p)
      BY <1>2, <3>4, CompletionFrame, NoneAssigned
    <3>5. CASE \E p \in Pods : Monitor(p)
      BY <1>2, <3>5, MonitorFrame, NoneAssigned
    <3>6. CASE (\E p \in Pods : Crash(p)) \/ \E d \in Dispatches : Tick(d)
      <4>1. UNCHANGED <<dispatch, draft, overlapped>>
        BY <3>6 DEF Crash, Tick, rows
      <4> QED BY <1>2, <4>1, NoneAssigned
    <3> QED BY <2>2, <3>1, <3>2, <3>3, <3>4, <3>5, <3>6 DEF Step, Request
  <2> QED BY <1>2, <2>1, <2>2 DEF Next
<1>3. Spec => []CInv
  BY InitCInv, StepCInv, PTL DEF Spec
<1> QED BY <1>1, <1>2, <1>3, PTL DEF Spec

-----------------------------------------------------------------------------
(* The stamps of the SLA monitor *)

AgeOK ==
    /\ \A d \in Dispatches, t \in Tiers : dispatch[d].stamp[t] <= age[d]
    /\ \A p \in Pods : \A d \in DOMAIN sla[p].now : sla[p].now[d] <= age[d]

\* A tier that is not in the patch although a higher one is, has its stamp.
PatchOK ==
    \A p \in Pods : sla[p].row # 0 => \A u \in sla[p].patch :
        /\ sla[p].now[sla[p].row] >= Due[u]
        /\ \A t \in Tiers : Due[t] <= Due[u]
              => t \in sla[p].patch \/ dispatch[sla[p].row].stamp[t] # NoStamp

\* A monitor that runs alone: nobody stamps behind its back.
AloneOK ==
    ~overlapped =>
        /\ \A p, q \in Pods : sla[p] # NoMonitor /\ sla[q] # NoMonitor => p = q
        /\ \A p \in Pods : \A d \in DOMAIN sla[p].now : \A t \in Tiers :
              dispatch[d].stamp[t] <= sla[p].now[d]
        /\ \A p \in Pods : sla[p].row # 0 => \A t \in sla[p].patch :
              dispatch[sla[p].row].stamp[t] = NoStamp

StampInv == AgeOK /\ PatchOK /\ AloneOK /\ StampsInOrder

\* The clock values a monitor keeps for its candidates are numbers.
LEMMA NowNat ==
    ASSUME CInv
    PROVE  \A p \in Pods : \A d \in DOMAIN sla[p].now : d \in Dispatches /\ sla[p].now[d] \in Nat
<1> SUFFICES ASSUME NEW p \in Pods
             PROVE  \A d \in DOMAIN sla[p].now : d \in Dispatches /\ sla[p].now[d] \in Nat
  OBVIOUS
<1>1. DOMAIN sla[p].now \subseteq Dispatches /\ \A d \in DOMAIN sla[p].now : sla[p].now[d] \in 0 .. Oldest
  BY NowType, Zenon
<1>2. 0 .. Oldest \subseteq Nat
  BY DEF Oldest
<1> QED BY <1>1, <1>2, Zenon

\* Steps that leave stamps, ages and monitors alone.
LEMMA SameStamps ==
    ASSUME CInv, StampInv, UNCHANGED <<age, sla>>, ~overlapped' => ~overlapped,
           \A d \in Dispatches : dispatch'[d].stamp = dispatch[d].stamp
    PROVE  StampInv'
<1>1. \A p \in Pods : DOMAIN sla[p].now \subseteq Dispatches
  BY NowType
<1>2. \A p \in Pods : sla[p].row # 0 => sla[p].row \in Dispatches
  BY <1>1 DEF CInv, MemoryOK
<1>3. AgeOK'
  BY DEF StampInv, AgeOK
<1>4. PatchOK'
  BY <1>2 DEF StampInv, PatchOK
<1>5. AloneOK'
  BY <1>1, <1>2 DEF StampInv, AloneOK
<1>6. StampsInOrder'
  BY DEF StampInv, StampsInOrder
<1> QED BY <1>3, <1>4, <1>5, <1>6 DEF StampInv

\* A process dies.
LEMMA CrashStamps ==
    ASSUME CInv, StampInv, NEW p \in Pods, Crash(p)
    PROVE  StampInv'
<1>1. sla' = [sla EXCEPT ![p] = NoMonitor] /\ UNCHANGED <<dispatch, age, overlapped>>
  BY DEF Crash, rows
<1>2. \A q \in Pods : sla'[q] = IF q = p THEN NoMonitor ELSE sla[q]
  BY <1>1 DEF CInv, MemoryOK
<1>3. NoMonitor.row = 0 /\ DOMAIN NoMonitor.now = {}
  BY DEF NoMonitor
<1>4. AgeOK'
  BY <1>1, <1>2, <1>3 DEF StampInv, AgeOK
<1>5. PatchOK'
  BY <1>1, <1>2, <1>3 DEF StampInv, PatchOK
<1>6. AloneOK'
  BY <1>1, <1>2, <1>3 DEF StampInv, AloneOK
<1>7. StampsInOrder'
  BY <1>1 DEF StampInv, StampsInOrder
<1> QED BY <1>4, <1>5, <1>6, <1>7 DEF StampInv

\* Time passes.
LEMMA TickStamps ==
    ASSUME CInv, StampInv, NEW d \in Dispatches, Tick(d)
    PROVE  StampInv'
<1>1. age' = [age EXCEPT ![d] = @ + 1] /\ UNCHANGED <<dispatch, sla, overlapped>>
  BY DEF Tick, memory
<1>2. age \in [Dispatches -> 0 .. Oldest]
  BY DEF CInv, TypeOK
<1>3. \A c \in Dispatches : age[c] \in Nat /\ age'[c] \in Nat /\ age[c] <= age'[c]
  BY <1>1, <1>2 DEF Oldest
<1>4. \A c \in Dispatches, t \in Tiers : dispatch[c].stamp[t] \in Nat
  BY DEF CInv, TypeOK, DispatchRow, Oldest
<1>5. \A q \in Pods : \A c \in DOMAIN sla[q].now : c \in Dispatches /\ sla[q].now[c] \in Nat
  BY NowNat
<1>6. AgeOK'
  BY <1>1, <1>3, <1>4, <1>5 DEF StampInv, AgeOK
<1>7. PatchOK' /\ AloneOK' /\ StampsInOrder'
  BY <1>1 DEF StampInv, PatchOK, AloneOK, StampsInOrder
<1> QED BY <1>6, <1>7 DEF StampInv

\* A pass starts.
LEMMA StartStamps ==
    ASSUME CInv, StampInv, NEW p \in Pods, MonitorStart(p)
    PROVE  StampInv'
<1> DEFINE S == {d \in Dispatches : dispatch[d].status = "ASSIGNED" /\ Missing(d, age[d]) # {}}
           m == [row |-> 0, now |-> [d \in S |-> age[d]], patch |-> {}]
<1>1. sla' = [sla EXCEPT ![p] = m] /\ UNCHANGED <<dispatch, age>>
  BY DEF MonitorStart, rows
<1>2. ~overlapped' => ~overlapped /\ \A q \in Pods : sla[q] = NoMonitor
  BY Zenon DEF MonitorStart
<1>3. m.row = 0 /\ m.patch = {} /\ DOMAIN m.now = S /\ \A d \in S : m.now[d] = age[d]
  OBVIOUS
<1>4a. S \subseteq Dispatches
  OBVIOUS
<1>4b. \A d \in Dispatches : age[d] \in Nat
  BY DEF CInv, TypeOK, Oldest
<1>4c. \A d \in Dispatches : age[d] <= age[d]
  BY <1>4b
<1>4. S \subseteq Dispatches /\ \A d \in S : age[d] <= age[d]
  BY <1>4a, <1>4c, Zenon
<1> HIDE DEF m, S
<1>5. \A q \in Pods : sla'[q] = IF q = p THEN m ELSE sla[q]
  BY <1>1 DEF CInv, MemoryOK
<1>6. AgeOK'
  BY <1>1, <1>3, <1>4, <1>5 DEF StampInv, AgeOK
<1>7. PatchOK'
  BY <1>1, <1>3, <1>5 DEF StampInv, PatchOK
<1>8. AloneOK'
  <2> SUFFICES ASSUME ~overlapped' PROVE AloneOK'
    BY DEF AloneOK
  <2>1. ~overlapped /\ \A q \in Pods : sla[q] = NoMonitor
    BY <1>2
  <2>2. \A q \in Pods : q # p => sla'[q] = NoMonitor
    BY <1>5, <2>1
  <2>3. NoMonitor.row = 0 /\ DOMAIN NoMonitor.now = {}
    BY DEF NoMonitor
  <2>4. \A q, r \in Pods : sla'[q] # NoMonitor /\ sla'[r] # NoMonitor => q = r
    BY <2>2
  <2>5. \A q \in Pods : \A d \in DOMAIN sla'[q].now : \A t \in Tiers : dispatch'[d].stamp[t] <= sla'[q].now[d]
    BY <1>1, <1>3, <1>4, <1>5, <2>2, <2>3 DEF StampInv, AgeOK
  <2>6. \A q \in Pods : sla'[q].row = 0
    BY <1>3, <1>5, <2>2, <2>3
  <2> QED BY <2>4, <2>5, <2>6 DEF AloneOK
<1>9. StampsInOrder'
  BY <1>1, <1>2 DEF StampInv, StampsInOrder
<1> QED BY <1>6, <1>7, <1>8, <1>9 DEF StampInv

\* A monitor that looks at a row has started.
LEMMA Started ==
    ASSUME NEW p, DOMAIN sla[p].now # {} \/ sla[p].row # 0
    PROVE  sla[p] # NoMonitor
BY DEF NoMonitor

\* The row is read again.
LEMMA ReadStamps ==
    ASSUME CInv, StampInv, NEW p \in Pods, NEW d \in Dispatches, MonitorRead(p, d)
    PROVE  StampInv'
<1>1. PICK patch : patch = IF dispatch[d].status = "ASSIGNED" THEN Missing(d, sla[p].now[d]) ELSE {}
  OBVIOUS
<1>2. PICK now : now = sla[p].now
  OBVIOUS
<1> DEFINE m == [row |-> d, now |-> now, patch |-> patch]
<1>3. d \in DOMAIN now /\ sla' = [sla EXCEPT ![p] = m] /\ UNCHANGED <<dispatch, age, overlapped>>
  BY <1>1, <1>2 DEF MonitorRead, rows
<1>4. m.row = d /\ m.patch = patch /\ m.now = now
  OBVIOUS
<1> HIDE DEF m
<1>5. \A q \in Pods : sla'[q] = IF q = p THEN m ELSE sla[q]
  BY <1>3 DEF CInv, MemoryOK
<1>6. patch \subseteq {t \in Tiers : now[d] >= Due[t] /\ dispatch[d].stamp[t] = NoStamp}
  BY <1>1, <1>2 DEF Missing
<1>7. patch # {} => patch = {t \in Tiers : now[d] >= Due[t] /\ dispatch[d].stamp[t] = NoStamp}
  BY <1>1, <1>2 DEF Missing
<1>8. AgeOK'
  BY <1>2, <1>3, <1>4, <1>5 DEF StampInv, AgeOK
<1>9. ASSUME NEW u \in patch PROVE /\ now[d] >= Due[u]
                                   /\ \A t \in Tiers : Due[t] <= Due[u] => t \in patch \/ dispatch[d].stamp[t] # NoStamp
  <2>0. \A t \in Tiers : Due[t] \in Nat
    BY DueType DEF Oldest
  <2>1. now[d] \in Nat /\ \A t \in Tiers : Due[t] \in Nat
    BY <1>2, <1>3, <2>0, NowNat
  <2>2. u \in Tiers /\ now[d] >= Due[u]
    BY <1>6
  <2>3. \A t \in Tiers : Due[t] <= Due[u] => now[d] >= Due[t]
    BY <2>1, <2>2
  <2> QED BY <1>7, <2>2, <2>3
<1>10. PatchOK'
  BY <1>3, <1>4, <1>5, <1>9 DEF StampInv, PatchOK
<1>11. AloneOK'
  <2> SUFFICES ASSUME ~overlapped' PROVE AloneOK'
    BY DEF AloneOK
  <2>1. sla[p] # NoMonitor
    BY <1>2, <1>3, Started
  <2>2. \A q, r \in Pods : sla'[q] # NoMonitor /\ sla'[r] # NoMonitor => q = r
    BY <1>3, <1>5, <2>1 DEF StampInv, AloneOK
  <2>3. \A q \in Pods : \A c \in DOMAIN sla'[q].now : \A t \in Tiers : dispatch'[c].stamp[t] <= sla'[q].now[c]
    BY <1>2, <1>3, <1>4, <1>5 DEF StampInv, AloneOK
  <2>4. \A q \in Pods : sla'[q].row # 0 => \A t \in sla'[q].patch : dispatch'[sla'[q].row].stamp[t] = NoStamp
    <3> SUFFICES ASSUME NEW q \in Pods, sla'[q].row # 0, NEW t \in sla'[q].patch
                 PROVE  dispatch'[sla'[q].row].stamp[t] = NoStamp
      OBVIOUS
    <3>1. CASE q = p
      BY <1>3, <1>4, <1>5, <1>6, <3>1
    <3>2. CASE q # p
      <4>1. sla'[q] = sla[q]
        BY <1>5, <3>2
      <4> QED BY <1>3, <4>1 DEF StampInv, AloneOK
    <3> QED BY <3>1, <3>2
  <2> QED BY <2>2, <2>3, <2>4 DEF AloneOK
<1>12. StampsInOrder'
  BY <1>3 DEF StampInv, StampsInOrder
<1> QED BY <1>8, <1>10, <1>11, <1>12 DEF StampInv

\* The patch is written.
LEMMA WriteEffect ==
    ASSUME CInv, StampInv, NEW p \in Pods, MonitorWrite(p)
    PROVE  \E d \in DOMAIN sla[p].now :
             /\ sla[p].row = d /\ d # 0 /\ d \in Dispatches
             /\ UNCHANGED <<age, overlapped>>
             /\ sla' = [sla EXCEPT ![p] = [row |-> 0, patch |-> {},
                           now |-> [c \in DOMAIN sla[p].now \ {d} |-> sla[p].now[c]]]]
             /\ \A c \in Dispatches, t \in Tiers :
                   dispatch'[c].stamp[t] = IF c = d /\ t \in sla[p].patch THEN sla[p].now[d]
                                           ELSE dispatch[c].stamp[t]
<1>1. PICK d : d = sla[p].row
  OBVIOUS
<1>2. d # 0
  BY <1>1 DEF MonitorWrite
<1>3. d \in DOMAIN sla[p].now
  BY <1>1, <1>2 DEF CInv, MemoryOK
<1>4. d \in Dispatches
  BY <1>3, NowNat
<1>5. dispatch \in [Dispatches -> DispatchRow]
  BY DEF CInv, TypeOK
<1> DEFINE r == [dispatch[d] EXCEPT !.stamp = Patched(@, sla[p].patch, sla[p].now[d])]
<1>6. dispatch' = [dispatch EXCEPT ![d] = r]
  BY <1>1, <1>4, <1>5 DEF MonitorWrite
<1>7. \A t \in Tiers : r.stamp[t] = IF t \in sla[p].patch THEN sla[p].now[d] ELSE dispatch[d].stamp[t]
  BY <1>4, <1>5 DEF DispatchRow, Patched
<1> HIDE DEF r
<1>8. \A c \in Dispatches, t \in Tiers :
         dispatch'[c].stamp[t] = IF c = d /\ t \in sla[p].patch THEN sla[p].now[d]
                                 ELSE dispatch[c].stamp[t]
  BY <1>4, <1>5, <1>6, <1>7
<1>9. UNCHANGED <<age, overlapped>> /\ sla' = [sla EXCEPT ![p] = [row |-> 0, patch |-> {},
                           now |-> [c \in DOMAIN sla[p].now \ {d} |-> sla[p].now[c]]]]
  BY <1>1 DEF MonitorWrite
<1> QED BY <1>1, <1>2, <1>3, <1>4, <1>8, <1>9

\* MonitorWrite: alone, it sets tiers in order and never moves a stamp.
LEMMA WriteStamps ==
    ASSUME CInv, StampInv, NEW p \in Pods, MonitorWrite(p)
    PROVE  /\ StampInv'
           /\ ~overlapped' => \A c \in Dispatches, t \in Tiers :
                 dispatch[c].stamp[t] # NoStamp => dispatch'[c].stamp[t] = dispatch[c].stamp[t]
<1>1. PICK d \in DOMAIN sla[p].now :
             /\ sla[p].row = d /\ d # 0 /\ d \in Dispatches
             /\ UNCHANGED <<age, overlapped>>
             /\ sla' = [sla EXCEPT ![p] = [row |-> 0, patch |-> {},
                           now |-> [c \in DOMAIN sla[p].now \ {d} |-> sla[p].now[c]]]]
             /\ \A c \in Dispatches, t \in Tiers :
                   dispatch'[c].stamp[t] = IF c = d /\ t \in sla[p].patch THEN sla[p].now[d]
                                           ELSE dispatch[c].stamp[t]
  BY WriteEffect
<1>2. PICK patch, now : patch = sla[p].patch /\ now = sla[p].now
  OBVIOUS
<1>3. patch \subseteq Tiers
  BY <1>2 DEF CInv, MemoryOK, MonitorRow
<1>4. DOMAIN now \subseteq Dispatches /\ \A c \in DOMAIN now : now[c] \in Nat
  BY <1>2, NowNat
<1>5. d \in DOMAIN now /\ now[d] \in Nat /\ d \in Dispatches
  BY <1>1, <1>2, <1>4
<1>6. \A c \in Dispatches, t \in Tiers :
         dispatch'[c].stamp[t] = IF c = d /\ t \in patch THEN now[d] ELSE dispatch[c].stamp[t]
  BY <1>1, <1>2
<1> DEFINE m == [row |-> 0, patch |-> {}, now |-> [c \in DOMAIN now \ {d} |-> now[c]]]
<1>7. m.row = 0 /\ m.patch = {} /\ DOMAIN m.now = DOMAIN now \ {d} /\ \A c \in DOMAIN now \ {d} : m.now[c] = now[c]
  OBVIOUS
<1>8. \A q \in Pods : sla'[q] = IF q = p THEN m ELSE sla[q]
  BY <1>1, <1>2 DEF CInv, MemoryOK
<1> HIDE DEF m
<1>9. \A u \in patch : /\ now[d] >= Due[u]
                       /\ \A t \in Tiers : Due[t] <= Due[u] => t \in patch \/ dispatch[d].stamp[t] # NoStamp
  BY <1>1, <1>2 DEF StampInv, PatchOK
<1>10. patch # {} => now[d] # NoStamp
  BY <1>3, <1>5, <1>9, DueType DEF NoStamp, Oldest
<1>11. \A c \in Dispatches, t \in Tiers : dispatch[c].stamp[t] # NoStamp => dispatch'[c].stamp[t] # NoStamp
  BY <1>6, <1>10
<1>12. ~overlapped => \A t \in Tiers : dispatch[d].stamp[t] <= now[d]
  BY <1>1, <1>2 DEF StampInv, AloneOK
<1>13. ~overlapped => \A t \in patch : dispatch[d].stamp[t] = NoStamp
  BY <1>1, <1>2 DEF StampInv, AloneOK
<1>14. AgeOK'
  <2>1. now[d] <= age[d]
    BY <1>2, <1>5 DEF StampInv, AgeOK
  <2>2. \A c \in Dispatches, t \in Tiers : dispatch'[c].stamp[t] <= age'[c]
    BY <1>1, <1>6, <2>1 DEF StampInv, AgeOK
  <2>3. \A q \in Pods : \A c \in DOMAIN sla'[q].now : sla'[q].now[c] <= age'[c]
    BY <1>1, <1>2, <1>7, <1>8 DEF StampInv, AgeOK
  <2> QED BY <2>2, <2>3 DEF AgeOK
<1>15. PatchOK'
  <2> SUFFICES ASSUME NEW q \in Pods, sla'[q].row # 0, NEW u \in sla'[q].patch
               PROVE  /\ sla'[q].now[sla'[q].row] >= Due[u]
                      /\ \A t \in Tiers : Due[t] <= Due[u]
                            => t \in sla'[q].patch \/ dispatch'[sla'[q].row].stamp[t] # NoStamp
    BY DEF PatchOK
  <2>1. sla'[q] = sla[q]
    BY <1>7, <1>8
  <2>2. sla[q].row \in Dispatches
    BY <2>1, NowNat DEF CInv, MemoryOK
  <2> QED BY <1>11, <2>1, <2>2 DEF StampInv, PatchOK
<1>16. AloneOK'
  <2> SUFFICES ASSUME ~overlapped' PROVE AloneOK'
    BY DEF AloneOK
  <2>1. sla[p] # NoMonitor
    BY <1>1, Started
  <2>2. \A q \in Pods : q # p => sla'[q] = NoMonitor
    BY <1>1, <1>8, <2>1 DEF StampInv, AloneOK
  <2>3. NoMonitor.row = 0 /\ DOMAIN NoMonitor.now = {}
    BY DEF NoMonitor
  <2>4. \A q, r \in Pods : sla'[q] # NoMonitor /\ sla'[r] # NoMonitor => q = r
    BY <2>2
  <2>5. \A q \in Pods : \A c \in DOMAIN sla'[q].now : \A t \in Tiers : dispatch'[c].stamp[t] <= sla'[q].now[c]
    <3> SUFFICES ASSUME NEW q \in Pods, NEW c \in DOMAIN sla'[q].now, NEW t \in Tiers
                 PROVE  dispatch'[c].stamp[t] <= sla'[q].now[c]
      OBVIOUS
    <3>1. q = p
      BY <2>2, <2>3
    <3>2. c \in DOMAIN now \ {d} /\ sla'[q].now[c] = now[c]
      BY <1>7, <1>8, <3>1
    <3>3. dispatch'[c].stamp[t] = dispatch[c].stamp[t]
      BY <1>4, <1>6, <3>2
    <3>4. dispatch[c].stamp[t] <= now[c]
      BY <1>1, <1>2, <3>2 DEF StampInv, AloneOK
    <3> QED BY <3>2, <3>3, <3>4
  <2>6. \A q \in Pods : sla'[q].row = 0
    BY <1>7, <1>8, <2>2, <2>3
  <2> QED BY <2>4, <2>5, <2>6 DEF AloneOK
<1>17. StampsInOrder'
  <2> SUFFICES ASSUME NEW c \in Dispatches, NEW t \in Tiers, NEW u \in Tiers,
                      Due[t] <= Due[u], dispatch'[c].stamp[u] # NoStamp
               PROVE  /\ dispatch'[c].stamp[t] # NoStamp
                      /\ ~overlapped' => dispatch'[c].stamp[t] <= dispatch'[c].stamp[u]
    BY DEF StampsInOrder
  <2>1. CASE c = d /\ u \in patch
    <3>1. dispatch'[c].stamp[u] = now[d]
      BY <1>6, <2>1
    <3>2. CASE t \in patch
      <4>1. dispatch'[c].stamp[t] = now[d]
        BY <1>6, <2>1, <3>2
      <4> QED BY <1>5, <3>1, <4>1
    <3>3. CASE t \notin patch
      <4>1. dispatch'[c].stamp[t] = dispatch[d].stamp[t] /\ dispatch[d].stamp[t] # NoStamp
        BY <1>6, <1>9, <2>1, <3>3
      <4> QED BY <1>1, <1>12, <3>1, <4>1
    <3> QED BY <3>2, <3>3
  <2>2. CASE ~(c = d /\ u \in patch)
    <3>1. dispatch'[c].stamp[u] = dispatch[c].stamp[u]
      BY <1>6, <2>2
    <3>2. dispatch[c].stamp[t] # NoStamp /\ (~overlapped => dispatch[c].stamp[t] <= dispatch[c].stamp[u])
      BY <3>1 DEF StampInv, StampsInOrder
    <3>3. ~overlapped => dispatch'[c].stamp[t] = dispatch[c].stamp[t]
      BY <1>6, <1>13, <3>2
    <3> QED BY <1>1, <1>11, <3>1, <3>2, <3>3
  <2> QED BY <2>1, <2>2
<1>18. ~overlapped' => \A c \in Dispatches, t \in Tiers :
          dispatch[c].stamp[t] # NoStamp => dispatch'[c].stamp[t] = dispatch[c].stamp[t]
  BY <1>1, <1>6, <1>13
<1> QED BY <1>14, <1>15, <1>16, <1>17, <1>18 DEF StampInv

\* A created row, an acknowledged one and a closed one keep their stamps.
LEMMA OtherStamps ==
    ASSUME CInv, StampInv,
           \/ Request
           \/ \E p \in Pods : Completion(p)
    PROVE  /\ UNCHANGED <<age, sla>> /\ (~overlapped' => ~overlapped)
           /\ \A d \in Dispatches : dispatch'[d].stamp = dispatch[d].stamp
<1>0. dispatch \in [Dispatches -> DispatchRow]
  BY DEF CInv, TypeOK
<1>1. CASE \E s \in Sessions, pair \in Pairs : BeginCreate(s, pair)
  <2>1. UNCHANGED <<dispatch, age, sla>>
    BY <1>1 DEF BeginCreate, rows, memory
  <2>2. ~overlapped' => ~overlapped
    BY <1>1, Zenon DEF BeginCreate
  <2> QED BY <2>1, <2>2
<1>2. CASE \E d \in Dispatches, s \in Sessions : CommitCreate(s, d)
  BY <1>0, <1>2 DEF CommitCreate, DispatchRow
<1>3. CASE \E d \in Dispatches : Acknowledge(d)
  BY <1>0, <1>3 DEF Acknowledge, DispatchRow
<1>4. ASSUME NEW d, NEW o, Close(d, o)
      PROVE  \A c \in Dispatches : dispatch'[c].stamp = dispatch[c].stamp
  <2>1. CASE Open(d)
    <3>1. dispatch' = [dispatch EXCEPT ![d].status = "COMPLETED", ![d].order = o]
      BY <1>4, <2>1 DEF Close
    <3> QED BY <1>0, <3>1 DEF DispatchRow
  <2>2. CASE ~Open(d)
    BY <1>4, <2>2 DEF Close
  <2> QED BY <2>1, <2>2
<1>5. CASE \E p \in Pods : Completion(p)
  <2>1. PICK p \in Pods : Completion(p)
    BY <1>5
  <2>2. CASE \E o \in Orders : HandleOrderCreated(p, o)
    BY <1>4, <2>2 DEF HandleOrderCreated
  <2>3. CASE \E o \in Orders, d \in Dispatches : CreateOrder(p, o, d)
    BY <2>3 DEF CreateOrder
  <2>4. CASE ReconStart(p)
    BY <2>4 DEF ReconStart, rows
  <2>5. CASE ReconcileOne(p)
    BY <1>4, <2>5 DEF ReconcileOne
  <2>6. CASE ReconFails(p)
    BY <2>6 DEF ReconFails, rows
  <2> QED BY <2>1, <2>2, <2>3, <2>4, <2>5, <2>6 DEF Completion
<1> QED BY <1>1, <1>2, <1>3, <1>5 DEF Request

\* No dispatch is stamped initially.
LEMMA InitStampInv == Init => StampInv
<1> SUFFICES ASSUME Init PROVE StampInv
  OBVIOUS
<1>1. \A d \in Dispatches : age[d] = 0 /\ \A t \in Tiers : dispatch[d].stamp[t] = 0
  BY DEF Init, NoDispatch, NoStamp
<1>2. \A p \in Pods : sla[p] = NoMonitor /\ sla[p].row = 0 /\ DOMAIN sla[p].now = {}
  BY DEF Init, NoMonitor
<1>3. 0 <= 0
  OBVIOUS
<1>4. AgeOK
  BY <1>1, <1>2, <1>3 DEF AgeOK
<1>5. PatchOK
  BY <1>2 DEF PatchOK
<1>6. AloneOK
  BY <1>2 DEF AloneOK
<1>7. StampsInOrder
  BY <1>1 DEF StampsInOrder, NoStamp
<1> QED BY <1>4, <1>5, <1>6, <1>7 DEF StampInv

\* Every step preserves the stamps and their order while no two monitors overlap.
LEMMA StepStamps ==
    ASSUME CInv, StampInv, [Next]_vars
    PROVE  /\ StampInv'
           /\ \A d \in Dispatches, t \in Tiers : dispatch[d].stamp[t] # NoStamp /\ ~overlapped'
                 => dispatch'[d].stamp[t] = dispatch[d].stamp[t]
<1>1. CASE UNCHANGED vars
  <2>1. UNCHANGED <<dispatch, age, sla, overlapped>>
    BY <1>1 DEF vars, rows, memory
  <2>2. StampInv'
    BY <2>1, SameStamps
  <2> QED BY <2>1, <2>2
<1>2. CASE Request \/ \E p \in Pods : Completion(p)
  <2>1. /\ UNCHANGED <<age, sla>> /\ (~overlapped' => ~overlapped)
        /\ \A d \in Dispatches : dispatch'[d].stamp = dispatch[d].stamp
    BY <1>2, OtherStamps
  <2>2. StampInv'
    BY <2>1, SameStamps
  <2> QED BY <2>1, <2>2
<1>3. CASE \E p \in Pods : Crash(p)
  <2>1. UNCHANGED dispatch
    BY <1>3 DEF Crash, rows
  <2> QED BY <1>3, <2>1, CrashStamps
<1>4. CASE \E d \in Dispatches : Tick(d)
  <2>1. UNCHANGED dispatch
    BY <1>4 DEF Tick
  <2> QED BY <1>4, <2>1, TickStamps
<1>5. CASE \E p \in Pods : MonitorStart(p)
  <2>1. UNCHANGED dispatch
    BY <1>5 DEF MonitorStart, rows
  <2> QED BY <1>5, <2>1, StartStamps
<1>6. CASE \E p \in Pods, d \in Dispatches : MonitorRead(p, d)
  <2>1. UNCHANGED dispatch
    BY <1>6 DEF MonitorRead, rows
  <2> QED BY <1>6, <2>1, ReadStamps
<1>7. CASE \E p \in Pods : MonitorWrite(p)
  BY <1>7, WriteStamps
<1> QED BY <1>1, <1>2, <1>3, <1>4, <1>5, <1>6, <1>7 DEF Next, Step, Monitor

\* A higher tier never stands without the lower ones, however many monitors
\* overlap; and never earlier when none do (runSlaMonitorOnce).
THEOREM StampsCorrect == Spec => []StampsInOrder
<1>1. CInv /\ StampInv /\ [Next]_vars => CInv' /\ StampInv'
  BY StepCInv, StepStamps
<1>2. StampInv => StampsInOrder
  BY DEF StampInv
<1> QED BY InitCInv, InitStampInv, <1>1, <1>2, PTL DEF Spec

\* A tier writes once: no stamp moves while monitors do not overlap
\* (runSlaMonitorOnce reads the row again before it patches it).
THEOREM StampsStay == Spec => StampNeverMoves
<1>1. CInv /\ StampInv /\ [Next]_vars => CInv' /\ StampInv'
  BY StepCInv, StepStamps
<1>2. CInv /\ StampInv /\ [Next]_vars
        => [\A d \in Dispatches, t \in Tiers :
              dispatch[d].stamp[t] # NoStamp /\ ~overlapped'
              => dispatch'[d].stamp[t] = dispatch[d].stamp[t]]_vars
  BY StepStamps
<1> QED BY InitCInv, InitStampInv, <1>1, <1>2, PTL DEF Spec, StampNeverMoves

-----------------------------------------------------------------------------
(* The counters *)

\* The dispatches a counter should have counted.
Done(k) ==
    {d \in Dispatches :
        \/ k = "assigned" /\ Exists(d)
        \/ k = "acknowledged" /\ dispatch[d].acknowledged
        \/ k = "completed" /\ dispatch[d].status = "COMPLETED"}

\* A dispatch that nobody acknowledged yet says so: acknowledge is counted once.
AckOK ==
    \A d \in Dispatches : dispatch[d].status \in {"ABSENT", "ASSIGNED"}
        => ~dispatch[d].acknowledged

CountInv == AckOK /\ CountedOnce

\* The number of dispatches, as the property has it.
LEMMA HappenedIs ==
    ASSUME NEW k \in Counters
    PROVE  Happened(k) = Cardinality(Done(k)) /\ Happened(k)' = Cardinality(Done(k)')
BY DEF Happened, Done, Counters

\* A set of dispatches grows by one.
LEMMA OneMore ==
    ASSUME NEW S \in SUBSET Dispatches, NEW d \in Dispatches, d \notin S
    PROVE  Cardinality(S) \in Nat /\ Cardinality(S \cup {d}) = Cardinality(S) + 1
<1>1. MaxDispatches \in Int /\ 1 \in Int
  BY DispatchAssumption
<1>2. IsFiniteSet(Dispatches)
  BY <1>1, FS_Interval DEF Dispatches
<1>3. IsFiniteSet(S)
  BY <1>2, FS_Subset
<1> QED BY <1>3, FS_AddElement, FS_CardinalityType

\* No counter moves and nothing new happens.
LEMMA SameCounts ==
    ASSUME CInv, CountInv, UNCHANGED metric, faults' = 0 => faults = 0,
           \A d \in Dispatches : dispatch'[d].status = dispatch[d].status
                                 /\ dispatch'[d].acknowledged = dispatch[d].acknowledged
    PROVE  CountInv'
<1>1. \A k \in Counters : Done(k)' = Done(k)
  BY DEF Done, Exists
<1>2. \A k \in Counters : Happened(k)' = Happened(k)
  BY <1>1, HappenedIs
<1>3. CountedOnce'
  BY <1>2 DEF CountInv, CountedOnce
<1>4. AckOK'
  BY DEF CountInv, AckOK
<1> QED BY <1>3, <1>4 DEF CountInv

\* Something happens to one dispatch for the first time, and its counter moves or
\* is lost.
LEMMA OneCount ==
    ASSUME CInv, CountedOnce, NEW k \in Counters, NEW d \in Dispatches, Count(k),
           d \notin Done(k), Done(k)' = Done(k) \cup {d},
           \A j \in Counters : j # k => Done(j)' = Done(j)
    PROVE  CountedOnce'
<1>0. metric \in [Counters -> Nat] /\ faults \in Nat
  BY DispatchAssumption DEF CInv, TypeOK
<1>1. PICK S : S = Done(k)
  OBVIOUS
<1>2. S \in SUBSET Dispatches /\ d \notin S
  BY <1>1 DEF Done
<1>3. Cardinality(S) \in Nat /\ Cardinality(S \cup {d}) = Cardinality(S) + 1
  BY <1>2, OneMore
<1>4. Happened(k) \in Nat /\ Happened(k)' = Happened(k) + 1
  BY <1>1, <1>3, HappenedIs
<1>5. \A j \in Counters : j # k => Happened(j)' = Happened(j)
  BY HappenedIs
<1>6. CASE metric' = [metric EXCEPT ![k] = @ + 1] /\ UNCHANGED faults
  <2>1. metric'[k] = metric[k] + 1 /\ \A j \in Counters : j # k => metric'[j] = metric[j]
    BY <1>0, <1>6
  <2>2. metric'[k] <= Happened(k)' /\ (faults' = 0 => metric'[k] = Happened(k)')
    BY <1>0, <1>4, <1>6, <2>1 DEF CountedOnce
  <2>3. \A j \in Counters : j # k =>
            metric'[j] <= Happened(j)' /\ (faults' = 0 => metric'[j] = Happened(j)')
    BY <1>5, <1>6, <2>1 DEF CountedOnce
  <2> QED BY <2>2, <2>3 DEF CountedOnce
<1>7. CASE faults' = faults + 1 /\ UNCHANGED metric
  <2>1. faults' # 0
    BY <1>0, <1>7
  <2>2. metric'[k] <= Happened(k)'
    BY <1>0, <1>4, <1>7 DEF CountedOnce
  <2>3. \A j \in Counters : j # k => metric'[j] <= Happened(j)'
    BY <1>5, <1>7 DEF CountedOnce
  <2> QED BY <2>1, <2>2, <2>3 DEF CountedOnce
<1> QED BY <1>6, <1>7 DEF Count

\* create and acknowledge.
LEMMA RequestCounts ==
    ASSUME CInv, CountInv, Request
    PROVE  CountInv'
<1>0. dispatch \in [Dispatches -> DispatchRow] /\ AckOK /\ CountedOnce
  BY DEF CInv, TypeOK, CountInv
<1>1. CASE \E s \in Sessions, pair \in Pairs : BeginCreate(s, pair)
  <2>1. UNCHANGED <<dispatch, metric, faults>>
    BY <1>1 DEF BeginCreate, rows
  <2> QED BY <2>1, SameCounts
<1>2. ASSUME NEW s \in Sessions, NEW d \in Dispatches, CommitCreate(s, d) PROVE CountInv'
  <2> DEFINE r == [dispatch[d] EXCEPT !.status = "ASSIGNED", !.pair = draft[s]]
  <2>1. dispatch[d].status = "ABSENT" /\ dispatch' = [dispatch EXCEPT ![d] = r]
        /\ Count("assigned")
    BY <1>0, <1>2 DEF CommitCreate, Exists
  <2>2. r.status = "ASSIGNED" /\ r.acknowledged = dispatch[d].acknowledged
    BY <1>0 DEF DispatchRow
  <2> HIDE DEF r
  <2>3. dispatch'[d] = r /\ \A c \in Dispatches : c # d => dispatch'[c] = dispatch[c]
    BY <1>0, <2>1
  <2>4. AckOK'
    BY <1>0, <2>1, <2>2, <2>3 DEF AckOK
  <2>5. d \notin Done("assigned") /\ Done("assigned")' = Done("assigned") \cup {d}
    BY <2>1, <2>2, <2>3 DEF Done, Exists
  <2>6. \A j \in Counters : j # "assigned" => Done(j)' = Done(j)
    BY <2>1, <2>2, <2>3 DEF Done, Counters
  <2>7. "assigned" \in Counters
    BY DEF Counters
  <2> QED BY <1>0, <2>1, <2>4, <2>5, <2>6, <2>7, OneCount DEF CountInv
<1>3. ASSUME NEW d \in Dispatches, Acknowledge(d) PROVE CountInv'
  <2> DEFINE r == [dispatch[d] EXCEPT !.status = "IN_PROGRESS", !.acknowledged = TRUE]
  <2>1. dispatch[d].status = "ASSIGNED" /\ dispatch' = [dispatch EXCEPT ![d] = r]
        /\ Count("acknowledged")
    BY <1>0, <1>3 DEF Acknowledge
  <2>2. r.status = "IN_PROGRESS" /\ r.acknowledged = TRUE
    BY <1>0 DEF DispatchRow
  <2> HIDE DEF r
  <2>3. dispatch'[d] = r /\ \A c \in Dispatches : c # d => dispatch'[c] = dispatch[c]
    BY <1>0, <2>1
  <2>4. AckOK'
    BY <1>0, <2>2, <2>3 DEF AckOK
  <2>5. ~dispatch[d].acknowledged
    BY <1>0, <2>1 DEF AckOK
  <2>6. d \notin Done("acknowledged") /\ Done("acknowledged")' = Done("acknowledged") \cup {d}
    BY <2>2, <2>3, <2>5 DEF Done
  <2>7. \A j \in Counters : j # "acknowledged" => Done(j)' = Done(j)
    BY <2>1, <2>2, <2>3 DEF Done, Counters, Exists
  <2>8. "acknowledged" \in Counters
    BY DEF Counters
  <2> QED BY <1>0, <2>1, <2>4, <2>6, <2>7, <2>8, OneCount DEF CountInv
<1> QED BY <1>1, <1>2, <1>3 DEF Request

\* The listener or the reconciliation closes a dispatch, unless it is closed.
LEMMA CloseCounts ==
    ASSUME CInv, CountInv, NEW d \in Dispatches, NEW o \in Orders, Close(d, o)
    PROVE  CountInv'
<1>0. dispatch \in [Dispatches -> DispatchRow] /\ AckOK /\ CountedOnce
  BY DEF CInv, TypeOK, CountInv
<1>1. CASE ~Open(d)
  <2>1. UNCHANGED <<dispatch, metric, faults>>
    BY <1>1 DEF Close
  <2> QED BY <2>1, SameCounts
<1>2. CASE Open(d)
  <2> DEFINE r == [dispatch[d] EXCEPT !.status = "COMPLETED", !.order = o]
  <2>1. dispatch[d].status \in {"ASSIGNED", "IN_PROGRESS"}
        /\ dispatch' = [dispatch EXCEPT ![d] = r] /\ Count("completed")
    BY <1>0, <1>2 DEF Close, Open
  <2>2. r.status = "COMPLETED" /\ r.acknowledged = dispatch[d].acknowledged
    BY <1>0 DEF DispatchRow
  <2> HIDE DEF r
  <2>3. dispatch'[d] = r /\ \A c \in Dispatches : c # d => dispatch'[c] = dispatch[c]
    BY <1>0, <2>1
  <2>4. AckOK'
    BY <1>0, <2>2, <2>3 DEF AckOK
  <2>5. d \notin Done("completed") /\ Done("completed")' = Done("completed") \cup {d}
    BY <2>1, <2>2, <2>3 DEF Done
  <2>6. \A j \in Counters : j # "completed" => Done(j)' = Done(j)
    BY <2>1, <2>2, <2>3 DEF Done, Counters, Exists
  <2>7. "completed" \in Counters
    BY DEF Counters
  <2> QED BY <1>0, <2>1, <2>4, <2>5, <2>6, <2>7, OneCount DEF CountInv
<1> QED BY <1>1, <1>2

\* Orders, the listener and the reconciliation.
LEMMA CompletionCounts ==
    ASSUME CInv, CountInv, NEW p \in Pods, Completion(p)
    PROVE  CountInv'
<1>1. ASSUME NEW o \in Orders, HandleOrderCreated(p, o) PROVE CountInv'
  <2>1. order[o] \in Dispatches /\ Close(order[o], o)
    BY <1>1 DEF HandleOrderCreated, CInv, RefsOK
  <2> QED BY <2>1, CloseCounts
<1>2. ASSUME ReconcileOne(p) PROVE CountInv'
  <2>1. PICK c \in Candidate : Close(c.dispatch, c.order)
    BY <1>2 DEF ReconcileOne, CInv, MemoryOK, ReconRow
  <2>2. c.dispatch \in Dispatches /\ c.order \in Orders
    BY DEF Candidate
  <2> QED BY <2>1, <2>2, CloseCounts
<1>3. ASSUME \/ \E o \in Orders, d \in Dispatches : CreateOrder(p, o, d)
             \/ ReconStart(p) \/ ReconFails(p)
      PROVE  CountInv'
  <2>1. UNCHANGED <<dispatch, metric>> /\ (faults' = faults \/ faults' = faults + 1)
    BY <1>3 DEF CreateOrder, ReconStart, ReconFails, rows
  <2>2. faults \in Nat
    BY DispatchAssumption DEF CInv, TypeOK
  <2> QED BY <2>1, <2>2, SameCounts
<1> QED BY <1>1, <1>2, <1>3 DEF Completion

\* A monitor stamps rows and counts nothing.
LEMMA MonitorCounts ==
    ASSUME CInv, CountInv, NEW p \in Pods, Monitor(p)
    PROVE  CountInv'
<1>1. CASE MonitorStart(p) \/ \E d \in Dispatches : MonitorRead(p, d)
  <2>1. UNCHANGED <<dispatch, metric, faults>>
    BY <1>1 DEF MonitorStart, MonitorRead, rows
  <2> QED BY <2>1, SameCounts
<1>2. CASE MonitorWrite(p)
  <2>1. PICK d, x : /\ dispatch' = [dispatch EXCEPT ![d].stamp = x]
    BY <1>2 DEF MonitorWrite
  <2>2. dispatch \in [Dispatches -> DispatchRow]
    BY DEF CInv, TypeOK
  <2>3. \A c \in Dispatches : dispatch'[c].status = dispatch[c].status
                              /\ dispatch'[c].acknowledged = dispatch[c].acknowledged
    BY <2>1, <2>2 DEF DispatchRow
  <2>4. UNCHANGED <<metric, faults>>
    BY <1>2 DEF MonitorWrite
  <2> QED BY <2>3, <2>4, SameCounts
<1> QED BY <1>1, <1>2 DEF Monitor

\* A driver's counters never count an instruction twice, whichever of the listener
\* and the reconciliation passes closed it, and miss one only after a crash or a
\* failed update (recordAssigned, recordAcknowledged, recordCompleted).
THEOREM CountersCorrect == Spec => []CountedOnce
<1>1. Init => CountInv
  <2> SUFFICES ASSUME Init PROVE CountInv
    OBVIOUS
  <2>1. \A d \in Dispatches : dispatch[d].status = "ABSENT" /\ dispatch[d].acknowledged = FALSE
    BY DEF Init, NoDispatch
  <2>2. \A k \in Counters : Done(k) = {}
    BY <2>1 DEF Done, Exists
  <2>3. \A k \in Counters : Happened(k) = 0 /\ metric[k] = 0
    BY <2>2, HappenedIs, FS_EmptySet DEF Init
  <2> QED BY <2>1, <2>3 DEF CountInv, AckOK, CountedOnce
<1>2. ASSUME CInv, CountInv, [Next]_vars PROVE CountInv'
  <2>1. CASE UNCHANGED vars
    BY <1>2, <2>1, SameCounts DEF vars, rows
  <2>2. CASE Step
    <3>1. CASE \E p \in Pods : Crash(p)
      <4>1. UNCHANGED <<dispatch, metric>> /\ faults' = faults + 1
        BY <3>1 DEF Crash, rows
      <4>2. faults \in Nat
        BY <1>2, DispatchAssumption DEF CInv, TypeOK
      <4> QED BY <1>2, <4>1, <4>2, SameCounts
    <3>2. CASE \E d \in Dispatches : Tick(d)
      BY <1>2, <3>2, SameCounts DEF Tick
    <3> QED BY <1>2, <2>2, <3>1, <3>2, RequestCounts, CompletionCounts, MonitorCounts DEF Step
  <2> QED BY <1>2, <2>1, <2>2 DEF Next
<1>3. CountInv => CountedOnce
  BY DEF CountInv
<1>4. CInv /\ CountInv /\ [Next]_vars => CInv' /\ CountInv'
  BY <1>2, StepCInv
<1> QED BY InitCInv, <1>1, <1>3, <1>4, PTL DEF Spec
=============================================================================
