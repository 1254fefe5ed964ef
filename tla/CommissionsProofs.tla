------------------------- MODULE CommissionsProofs -------------------------
(***************************************************************************)
(* Theorems about debt transfers and the commissions earned on them.       *)
(*                                                                         *)
(* The argument has three layers.  What a request remembers stays valid    *)
(* whatever else runs (RequestsOK).  While requests run one at a time what *)
(* a request has checked is still true when it writes (Serial), so a       *)
(* transfer is booked once and moves all its orders (Balanced).  And while *)
(* assignDriver has not overtaken a completion, the driver who first owed  *)
(* an order never changes, whatever overlaps (OriginKept): that driver is  *)
(* the one the cron pays, so a second pass finds the payout it has already *)
(* made (PaidOnce).                                                        *)
(***************************************************************************)
EXTENDS Commissions, SumTheorems

\* What a request remembers refers to rows that exist and to orders that were
\* completed.
RequestOK(r) ==
    /\ r.op \in {"assign", "create", "handover"} => r.driver \in Drivers
    /\ r.op = "create" => r.target \in Drivers
    /\ r.op \in {"finalize", "cancel"} => r.id \in Transfers /\ transfer[r.id].status # "ABSENT"
    /\ r.op = "finalize" => /\ r.from \in [r.orders -> Drivers \cup {NoDriver}]
                            /\ \A o \in r.orders : order[o].status = "COMPLETED"

\* The same for all requests; a drafted transfer has both its drivers.
RequestsOK ==
    /\ \A t \in Transfers : transfer[t].status # "ABSENT"
                            => transfer[t].source \in Drivers /\ transfer[t].target \in Drivers
    /\ \A s \in Sessions : RequestOK(session[s])

\* What a request has checked is still so.
Checked(r) ==
    /\ r.op = "assign" => \A o \in r.orders : order[o].status = "OPEN"
    /\ r.op = "create" => \A o \in r.orders :
            Owes(o, r.driver) /\ \A t \in Transfers : ~Locks(t, o)
    /\ r.op = "finalize" =>
            /\ transfer[r.id].status = "AWAITING_SIGNATURES"
            /\ r.orders = transfer[r.id].orders
            /\ \A o \in r.orders : Owes(o, transfer[r.id].source)
    /\ r.op = "cancel" => transfer[r.id].status = "AWAITING_SIGNATURES"
    /\ r.op = "handover" => \A o \in r.orders : Owes(o, r.driver)

\* An order that is not completed has never moved, and nobody holds its cash; the
\* cash of the others was taken from the driver who owed it.
OrdersOK ==
    \A o \in Orders :
        /\ order[o].status = "OPEN" => order[o].cash = "NONE" /\ order[o].from = NoDriver
        /\ order[o].cash = "HANDED_OVER" => order[o].bag = order[o].driver

\* Requests run one at a time.
Serial ==
    ~overlapped =>
        /\ ~reassigned
        /\ \A s, r \in Sessions : Active(s) /\ Active(r) => s = r
        /\ \A s \in Sessions : Checked(session[s])
        /\ OrdersOK
        /\ LockedOnce

\* A transfer is booked when it is finalised, and the books follow the orders.
Balanced ==
    ~overlapped =>
        /\ \A t \in Transfers : ledger[t] = IF transfer[t].status = "COMPLETED" THEN 1 ELSE 0
        /\ \A d \in Drivers : LedgerNet(d) = MovedNet(d)

\* Finalising leaves the orders with the driver who first owed them.
KeepsOrigin(r) ==
    r.op = "finalize" => \A o \in r.orders :
        FirstSource(r.from[o], transfer[r.id].source) = OriginalDriver(o)

OriginKept == ~reassigned => \A s \in Sessions : KeepsOrigin(session[s])

\* What is in the window, owed or paid out was completed.
CompletedFirst ==
    /\ \A m \in Modes, o \in Orders : age[m][o] > 0 => order[o].status = "COMPLETED"
    /\ \A o \in Orders : owed[o] => order[o].status = "COMPLETED"
    /\ \A r \in payout : order[r.order].status = "COMPLETED"

\* The driver who first owed the order was paid, once.
PaidOnce ==
    ~reassigned =>
        /\ \A r \in payout : r.earner = OriginalDriver(r.order)
        /\ \A r, q \in payout : r.mode = q.mode /\ r.order = q.order => r = q

\* A pass pays for everything in the window, and a missed one for nothing.
PaidInTime ==
    \A m \in Modes, o \in Orders :
        age[m][o] > missed + 1 => \E r \in payout : r.mode = m /\ r.order = o

TransferInv == TransferTypeOK /\ RequestsOK /\ OriginKept /\ Serial

-----------------------------------------------------------------------------
(* Transfers *)

\* What no step takes back: a completed order stays completed, with the driver
\* who first owed it; a drafted transfer stays drafted, with its drivers.
RowsGrow ==
    /\ \A o \in Orders : order[o].status = "COMPLETED" =>
            /\ order'[o].status = "COMPLETED"
            /\ ~reassigned' => OriginalDriver(o)' = OriginalDriver(o)
    /\ \A t \in Transfers : transfer[t].status # "ABSENT" =>
            /\ transfer'[t].status # "ABSENT"
            /\ transfer'[t].source = transfer[t].source
            /\ transfer'[t].target = transfer[t].target
    /\ reassigned => reassigned'

\* Such a step leaves the requests it does not end as they are.
LEMMA GrowKeepsRequests ==
    ASSUME TransferInv, RowsGrow, NEW s \in Sessions, session'[s] = session[s]
    PROVE  RequestOK(session[s])' /\ (~reassigned' => KeepsOrigin(session[s])')
<1> DEFINE r == session[s]
<1>1. RequestOK(r) /\ (~reassigned' => KeepsOrigin(r)) /\ r.orders \in SUBSET Orders
  BY DEF TransferInv, RequestsOK, OriginKept, RowsGrow, TransferTypeOK, SessionRow
<1>2. RequestOK(session[s])'
  BY <1>1 DEF RequestOK, RowsGrow
<1>3. ASSUME ~reassigned' PROVE KeepsOrigin(session[s])'
  <2>1. ASSUME r.op = "finalize", NEW o \in r.orders
        PROVE  FirstSource(r.from[o], transfer'[r.id].source) = OriginalDriver(o)'
    <3>1. /\ FirstSource(r.from[o], transfer[r.id].source) = OriginalDriver(o)
          /\ order[o].status = "COMPLETED" /\ o \in Orders
          /\ r.id \in Transfers /\ transfer[r.id].status # "ABSENT"
      BY <1>1, <1>3, <2>1 DEF KeepsOrigin, RequestOK
    <3>2. transfer'[r.id].source = transfer[r.id].source /\ OriginalDriver(o)' = OriginalDriver(o)
      BY <1>3, <3>1 DEF RowsGrow
    <3> QED BY <3>1, <3>2
  <2> QED BY <2>1 DEF KeepsOrigin, FirstSource
<1> QED BY <1>2, <1>3

\* A session without a request.
LEMMA IdleType == Idle \in SessionRow /\ Idle.op = "idle" /\ Idle.orders = {}
<1>1. Idle.from \in [{} -> Drivers \cup {NoDriver}] /\ {} \in SUBSET Orders
  BY DEF Idle
<1>2. Idle.from \in UNION {[S -> Drivers \cup {NoDriver}] : S \in SUBSET Orders}
  BY <1>1
<1> QED BY <1>2 DEF Idle, SessionRow

\* A request that ends: no other is disturbed, and without overlap none is left.
LEMMA EndStep ==
    ASSUME TransferInv, RowsGrow, NEW s \in Sessions, Active(s), End(s),
           \A t \in Transfers : transfer'[t].status # "ABSENT"
                => transfer'[t].source \in Drivers /\ transfer'[t].target \in Drivers
    PROVE  /\ session' \in [Sessions -> SessionRow] /\ overlapped' \in BOOLEAN
           /\ RequestsOK' /\ OriginKept'
           /\ ~overlapped' => \A r \in Sessions : ~Active(r)' /\ Checked(session[r])'
<1>1. session' \in [Sessions -> SessionRow] /\ overlapped' \in BOOLEAN
  BY IdleType DEF TransferInv, TransferTypeOK, End
<1>2. session'[s] = Idle /\ \A r \in Sessions \ {s} : session'[r] = session[r]
  BY DEF TransferInv, TransferTypeOK, End
<1>3. RequestsOK' /\ OriginKept'
  <2>1. ASSUME NEW r \in Sessions
        PROVE  RequestOK(session[r])' /\ (~reassigned' => KeepsOrigin(session[r])')
    <3>1. CASE r = s
      BY IdleType, <1>2, <3>1 DEF RequestOK, KeepsOrigin
    <3>2. CASE r # s
      BY <1>2, <3>2, GrowKeepsRequests
    <3> QED BY <3>1, <3>2
  <2> QED BY <2>1 DEF RequestsOK, OriginKept
<1>4. ASSUME ~overlapped', NEW r \in Sessions
      PROVE  ~Active(r)' /\ Checked(session[r])'
  <2>1. r # s => session[r].op = "idle"
    BY <1>4 DEF TransferInv, Serial, End, Active
  <2>2. session'[r].op = "idle"
    BY IdleType, <1>2, <2>1
  <2> QED BY <2>2 DEF Active, Checked
<1> QED BY <1>1, <1>3, <1>4

\* A request that has read and checked.
LEMMA BeginStep ==
    ASSUME TransferInv, NEW s \in Sessions, NEW op, NEW request \in SessionRow,
           Begin(s, op, request), request.op # "idle",
           RequestOK(request), KeepsOrigin(request), Checked(request)
    PROVE  TransferInv' /\ RowsGrow
<1>1. /\ UNCHANGED <<order, transfer, ledger, reassigned>>
      /\ session' = [session EXCEPT ![s] = request] /\ ~Active(s)
      /\ overlapped' = (overlapped \/ \E r \in Sessions : Active(r))
  BY DEF Begin
<1>2. session'[s] = request /\ \A r \in Sessions \ {s} : session'[r] = session[r]
  BY <1>1 DEF TransferInv, TransferTypeOK
<1>3. RowsGrow
  BY <1>1 DEF RowsGrow, OriginalDriver
<1>4. TransferTypeOK'
  BY <1>1 DEF TransferInv, TransferTypeOK, OrderRow, TransferRow
<1>5. RequestsOK' /\ OriginKept'
  <2>1. ASSUME NEW r \in Sessions
        PROVE  RequestOK(session[r])' /\ (~reassigned' => KeepsOrigin(session[r])')
    <3>1. CASE r = s
      BY <1>1, <1>2, <3>1 DEF RequestOK, KeepsOrigin, OriginalDriver
    <3>2. CASE r # s
      BY <1>2, <1>3, <3>2, GrowKeepsRequests
    <3> QED BY <3>1, <3>2
  <2> QED BY <1>1, <2>1 DEF RequestsOK, OriginKept, TransferInv
<1>6. Serial'
  <2> SUFFICES ASSUME ~overlapped' PROVE Serial'
    BY DEF Serial
  <2>1. ~overlapped /\ \A r \in Sessions : ~Active(r)
    BY <1>1
  <2>2. \A r \in Sessions \ {s} : session'[r].op = "idle"
    BY <1>2, <2>1 DEF Active
  <2>3. \A r, q \in Sessions : Active(r)' /\ Active(q)' => r = q
    BY <2>2 DEF Active
  <2>4. ASSUME NEW r \in Sessions PROVE Checked(session[r])'
    <3>1. CASE r = s
      BY <1>1, <1>2, <3>1 DEF Checked, Owes, Locks
    <3>2. CASE r # s
      BY <2>2, <3>2 DEF Checked
    <3> QED BY <3>1, <3>2
  <2>5. OrdersOK' /\ LockedOnce' /\ ~reassigned'
    BY <1>1, <2>1 DEF TransferInv, Serial, OrdersOK, LockedOnce, Locks
  <2> QED BY <2>3, <2>4, <2>5 DEF Serial
<1> QED BY <1>3, <1>4, <1>5, <1>6 DEF TransferInv

\* Every request a handler starts remembers what it has read and checked.
LEMMA BeginsStep ==
    ASSUME TransferInv, NEW s \in Sessions,
           \/ \E o \in Orders, d \in Drivers : BeginAssign(s, o, d)
           \/ \E source, target \in Drivers, orders \in SUBSET Orders :
                 BeginCreate(s, source, target, orders)
           \/ \E t \in Transfers : BeginFinalize(s, t) \/ BeginCancel(s, t)
           \/ \E d \in Drivers : BeginHandover(s, d)
    PROVE  TransferInv' /\ RowsGrow
<1>1. ASSUME NEW o \in Orders, NEW d \in Drivers, BeginAssign(s, o, d) PROVE TransferInv' /\ RowsGrow
  <2> DEFINE r == [Idle EXCEPT !.op = "assign", !.orders = {o}, !.driver = d]
  <2>1. /\ r.op = "assign" /\ r.driver = d
        /\ r.orders = {o}
        /\ r \in SessionRow
    BY IdleType DEF SessionRow, AllOperations
  <2>2. Begin(s, "assign", r) /\ order[o].status = "OPEN"
    BY <1>1 DEF BeginAssign
  <2> HIDE DEF r
  <2>4. RequestOK(r) /\ KeepsOrigin(r) /\ Checked(r)
    BY <2>1, <2>2 DEF RequestOK, KeepsOrigin, Checked
  <2> QED BY <2>1, <2>2, <2>4, BeginStep
<1>2. ASSUME NEW source \in Drivers, NEW target \in Drivers, NEW orders \in SUBSET Orders,
             BeginCreate(s, source, target, orders)
      PROVE  TransferInv' /\ RowsGrow
  <2> DEFINE r == [Idle EXCEPT !.op = "create", !.driver = source,
                                !.target = target, !.orders = orders]
  <2>1. /\ r.op = "create" /\ r.driver = source /\ r.target = target
        /\ r.orders = orders
        /\ r \in SessionRow
    BY IdleType DEF SessionRow, AllOperations
  <2>2. /\ Begin(s, "create", r) /\ \A o \in orders : Owes(o, source)
        /\ \A o \in orders, t \in Transfers : ~Locks(t, o)
    BY <1>2 DEF BeginCreate
  <2> HIDE DEF r
  <2>4. RequestOK(r) /\ KeepsOrigin(r) /\ Checked(r)
    BY <2>1, <2>2 DEF RequestOK, KeepsOrigin, Checked
  <2> QED BY <2>1, <2>2, <2>4, BeginStep
<1>3. ASSUME NEW t \in Transfers, BeginFinalize(s, t) PROVE TransferInv' /\ RowsGrow
  <2> DEFINE T == transfer[t]
             from == [o \in T.orders |-> order[o].from]
             r == [Idle EXCEPT !.op = "finalize", !.id = t, !.orders = T.orders, !.from = from]
  <2>2. /\ Begin(s, "finalize", r) /\ T.status = "AWAITING_SIGNATURES"
        /\ \A o \in T.orders : Owes(o, T.source)
    BY <1>3 DEF BeginFinalize
  <2>3. T.orders \in SUBSET Orders /\ from \in [T.orders -> Drivers \cup {NoDriver}]
    BY DEF TransferInv, TransferTypeOK, TransferRow, OrderRow
  <2>4. from \in UNION {[S -> Drivers \cup {NoDriver}] : S \in SUBSET Orders}
    BY <2>3
  <2>5. \A o \in T.orders : FirstSource(from[o], T.source) = OriginalDriver(o)
    BY <2>2 DEF FirstSource, OriginalDriver, Owes
  <2> HIDE DEF from
  <2>6. /\ r.op = "finalize" /\ r.id = t
        /\ r.orders = T.orders /\ r.from = from
        /\ r \in SessionRow
    BY IdleType, <2>3, <2>4 DEF SessionRow, AllOperations
  <2> HIDE DEF r
  <2>7. RequestOK(r) /\ KeepsOrigin(r) /\ Checked(r)
    BY <2>6, <2>2, <2>3, <2>5 DEF RequestOK, KeepsOrigin, Checked, Owes
  <2> QED BY <2>2, <2>6, <2>7, BeginStep
<1>4. ASSUME NEW t \in Transfers, BeginCancel(s, t) PROVE TransferInv' /\ RowsGrow
  <2> DEFINE r == [Idle EXCEPT !.op = "cancel", !.id = t]
  <2>1. /\ r.op = "cancel" /\ r.id = t
        /\ r.orders = {}
        /\ r \in SessionRow
    BY IdleType DEF SessionRow, AllOperations
  <2>2. Begin(s, "cancel", r) /\ transfer[t].status = "AWAITING_SIGNATURES"
    BY <1>4 DEF BeginCancel
  <2> HIDE DEF r
  <2>4. RequestOK(r) /\ KeepsOrigin(r) /\ Checked(r)
    BY <2>1, <2>2 DEF RequestOK, KeepsOrigin, Checked
  <2> QED BY <2>1, <2>2, <2>4, BeginStep
<1>5. ASSUME NEW d \in Drivers, BeginHandover(s, d) PROVE TransferInv' /\ RowsGrow
  <2> DEFINE mine == {o \in Orders : Owes(o, d)}
             r == [Idle EXCEPT !.op = "handover", !.driver = d, !.orders = mine]
  <2>1. /\ r.op = "handover" /\ r.driver = d
        /\ r.orders = mine
        /\ r \in SessionRow
    BY IdleType DEF SessionRow, AllOperations
  <2>2. Begin(s, "handover", r)
    BY <1>5 DEF BeginHandover
  <2> HIDE DEF r
  <2>4. RequestOK(r) /\ KeepsOrigin(r) /\ Checked(r)
    BY <2>1, <2>2 DEF RequestOK, KeepsOrigin, Checked
  <2> QED BY <2>1, <2>2, <2>4, BeginStep
<1> QED BY <1>1, <1>2, <1>3, <1>4, <1>5

\* A handler writes its rows and ends.
LEMMA CommitStep ==
    ASSUME TransferInv, RowsGrow, NEW s \in Sessions, Active(s), End(s),
           order' \in [Orders -> OrderRow], transfer' \in [Transfers -> TransferRow],
           ledger' \in [Transfers -> Nat], reassigned' \in BOOLEAN,
           \A t \in Transfers : transfer'[t].status # "ABSENT"
                => transfer'[t].source \in Drivers /\ transfer'[t].target \in Drivers,
           ~overlapped => ~reassigned' /\ OrdersOK' /\ LockedOnce'
    PROVE  TransferInv'
<1>1. /\ session' \in [Sessions -> SessionRow] /\ overlapped' \in BOOLEAN
      /\ RequestsOK' /\ OriginKept'
      /\ ~overlapped' => \A r \in Sessions : ~Active(r)' /\ Checked(session[r])'
  BY EndStep
<1>2. overlapped' = overlapped
  BY DEF End
<1>3. TransferTypeOK'
  BY <1>1 DEF TransferTypeOK
<1>4. Serial'
  BY <1>1, <1>2 DEF Serial
<1> QED BY <1>1, <1>3, <1>4 DEF TransferInv

\* What the rows look like before the step.
LEMMA RowTypes ==
    ASSUME TransferInv
    PROVE  /\ order \in [Orders -> OrderRow] /\ transfer \in [Transfers -> TransferRow]
           /\ ledger \in [Transfers -> Nat] /\ reassigned \in BOOLEAN
           /\ session \in [Sessions -> SessionRow]
           /\ \A t \in Transfers : transfer[t].status # "ABSENT"
                => transfer[t].source \in Drivers /\ transfer[t].target \in Drivers
           /\ \A s \in Sessions : session[s].orders \in SUBSET Orders /\ RequestOK(session[s])
           /\ \A o \in Orders : OriginalDriver(o) \in Drivers
           /\ ~overlapped => /\ ~reassigned /\ OrdersOK /\ LockedOnce
                             /\ \A s \in Sessions : Checked(session[s])
<1>1. /\ order \in [Orders -> OrderRow] /\ transfer \in [Transfers -> TransferRow]
      /\ ledger \in [Transfers -> Nat] /\ reassigned \in BOOLEAN
      /\ session \in [Sessions -> SessionRow]
  BY DEF TransferInv, TransferTypeOK
<1>2. \A s \in Sessions : session[s].orders \in SUBSET Orders
  BY <1>1 DEF SessionRow
<1>3. \A o \in Orders : OriginalDriver(o) \in Drivers
  BY <1>1 DEF OriginalDriver, OrderRow
<1> QED BY <1>1, <1>2, <1>3 DEF TransferInv, RequestsOK, Serial

\* A rollback forgets what the session has read and writes no row.
LEMMA AbortStep ==
    ASSUME TransferInv, NEW s \in Sessions, Abort(s)
    PROVE  TransferInv' /\ RowsGrow
<1>1. Active(s) /\ End(s) /\ UNCHANGED <<order, transfer, ledger, reassigned>>
  BY DEF Abort
<1>2. RowsGrow
  BY <1>1 DEF RowsGrow, OriginalDriver
<1>3. ~overlapped => ~reassigned' /\ OrdersOK' /\ LockedOnce'
  BY <1>1, RowTypes DEF OrdersOK, LockedOnce, Locks
<1> QED BY <1>1, <1>2, <1>3, RowTypes, CommitStep

\* assignDriver moves an order that is still open; no debt follows it.
LEMMA CommitAssignStep ==
    ASSUME TransferInv, NEW s \in Sessions, CommitAssign(s)
    PROVE  TransferInv' /\ RowsGrow
<1> DEFINE r == session[s]
<1>1. /\ r.op = "assign" /\ Active(s) /\ End(s) /\ UNCHANGED <<transfer, ledger>>
      /\ order' = [o \in Orders |-> IF o \in r.orders
                                    THEN [order[o] EXCEPT !.driver = r.driver] ELSE order[o]]
      /\ reassigned' = (reassigned \/ \E o \in r.orders : order[o].status = "COMPLETED")
  BY DEF CommitAssign, Active
<1>2. r.driver \in Drivers /\ r.orders \in SUBSET Orders
  BY <1>1, RowTypes DEF RequestOK
<1>3. order' \in [Orders -> OrderRow] /\ reassigned' \in BOOLEAN
  BY <1>1, <1>2, RowTypes DEF OrderRow
<1>4. \A o \in Orders : /\ order'[o].status = order[o].status
                        /\ order'[o].from = order[o].from
                        /\ order'[o].cash = order[o].cash
                        /\ order'[o].bag = order[o].bag
                        /\ o \notin r.orders => order'[o] = order[o]
  BY <1>1, RowTypes DEF OrderRow
<1>5. RowsGrow
  BY <1>1, <1>4 DEF RowsGrow, OriginalDriver
<1>6. ASSUME ~overlapped PROVE ~reassigned' /\ OrdersOK' /\ LockedOnce'
  <2>1. ~reassigned /\ OrdersOK /\ LockedOnce /\ Checked(r)
    BY <1>6, RowTypes
  <2>2. \A o \in r.orders : order[o].status = "OPEN"
    BY <1>1, <2>1 DEF Checked
  <2>3. OrdersOK'
    BY <1>4, <2>1, <2>2 DEF OrdersOK
  <2> QED BY <1>1, <2>1, <2>2, <2>3 DEF LockedOnce, Locks
<1> QED BY <1>1, <1>3, <1>5, <1>6, RowTypes, CommitStep

\* create inserts a draft with the orders the request has read.
LEMMA CommitCreateStep ==
    ASSUME TransferInv, NEW s \in Sessions, NEW t \in Transfers, CommitCreate(s, t)
    PROVE  TransferInv' /\ RowsGrow
<1> DEFINE r == session[s]
           row == [NoTransfer EXCEPT !.status = "AWAITING_SIGNATURES",
                      !.source = r.driver, !.target = r.target, !.orders = r.orders]
<1>1. /\ r.op = "create" /\ Active(s) /\ End(s) /\ UNCHANGED <<order, ledger, reassigned>>
      /\ transfer[t].status = "ABSENT" /\ transfer' = [transfer EXCEPT ![t] = row]
  BY DEF CommitCreate, Active
<1>2. r.driver \in Drivers /\ r.target \in Drivers /\ r.orders \in SUBSET Orders
  BY <1>1, RowTypes DEF RequestOK
<1>3. /\ row \in TransferRow /\ row.status = "AWAITING_SIGNATURES" /\ row.orders = r.orders
      /\ row.source = r.driver /\ row.target = r.target
  BY <1>2 DEF TransferRow, NoTransfer
<1> HIDE DEF row
<1>4. /\ transfer' \in [Transfers -> TransferRow]
      /\ transfer'[t] = row /\ \A u \in Transfers \ {t} : transfer'[u] = transfer[u]
  BY <1>1, <1>3, RowTypes
<1>5. \A u \in Transfers : transfer'[u].status # "ABSENT"
                => transfer'[u].source \in Drivers /\ transfer'[u].target \in Drivers
  BY <1>2, <1>3, <1>4, RowTypes
<1>6. RowsGrow
  BY <1>1, <1>4 DEF RowsGrow, OriginalDriver
<1>7. ASSUME ~overlapped PROVE ~reassigned' /\ OrdersOK' /\ LockedOnce'
  <2>1. ~reassigned /\ OrdersOK /\ LockedOnce /\ Checked(r)
    BY <1>7, RowTypes
  <2>2. \A o \in r.orders, u \in Transfers : ~Locks(u, o)
    BY <1>1, <2>1 DEF Checked
  <2>3. ASSUME NEW u \in Transfers, NEW v \in Transfers, NEW o \in Orders,
               Locks(u, o)', Locks(v, o)'
        PROVE  u = v
    BY <1>3, <1>4, <2>1, <2>2, <2>3 DEF Locks, LockedOnce
  <2> QED BY <1>1, <2>1, <2>3 DEF LockedOnce, OrdersOK
<1> QED BY <1>1, <1>4, <1>5, <1>6, <1>7, RowTypes, CommitStep

\* cancel closes the transfer and leaves orders and ledger alone.
LEMMA CommitCancelStep ==
    ASSUME TransferInv, NEW s \in Sessions, CommitCancel(s)
    PROVE  TransferInv' /\ RowsGrow
<1> DEFINE t == session[s].id
<1>1. /\ session[s].op = "cancel" /\ Active(s) /\ End(s) /\ UNCHANGED <<order, ledger, reassigned>>
      /\ transfer' = [transfer EXCEPT ![t].status = "CANCELLED"]
  BY DEF CommitCancel, Active
<1>2. t \in Transfers /\ transfer[t].status # "ABSENT"
  BY <1>1, RowTypes DEF RequestOK
<1> HIDE DEF t
<1>3. /\ transfer' \in [Transfers -> TransferRow]
      /\ transfer'[t].status = "CANCELLED"
      /\ \A u \in Transfers : /\ transfer'[u].orders = transfer[u].orders
                              /\ transfer'[u].source = transfer[u].source
                              /\ transfer'[u].target = transfer[u].target
                              /\ u # t => transfer'[u] = transfer[u]
  BY <1>1, <1>2, RowTypes DEF TransferRow
<1>4. RowsGrow
  BY <1>1, <1>3 DEF RowsGrow, OriginalDriver
<1>5. \A u \in Transfers : transfer'[u].status # "ABSENT"
                => transfer'[u].source \in Drivers /\ transfer'[u].target \in Drivers
  BY <1>2, <1>3, RowTypes
<1>6. ASSUME ~overlapped PROVE ~reassigned' /\ OrdersOK' /\ LockedOnce'
  BY <1>1, <1>3, <1>6, RowTypes DEF OrdersOK, LockedOnce, Locks
<1> QED BY <1>1, <1>3, <1>4, <1>5, <1>6, RowTypes, CommitStep

\* finalize moves the orders of the transfer to the target and books it once.
LEMMA CommitFinalizeStep ==
    ASSUME TransferInv, NEW s \in Sessions, CommitFinalize(s)
    PROVE  TransferInv' /\ RowsGrow
<1> DEFINE r == session[s]
           t == r.id
           first(o) == FirstSource(r.from[o], transfer[t].source)
<1>1. /\ r.op = "finalize" /\ Active(s) /\ End(s) /\ UNCHANGED reassigned
      /\ order' = [o \in Orders |-> IF o \in r.orders
                      THEN [order[o] EXCEPT !.driver = transfer[t].target, !.from = first(o)]
                      ELSE order[o]]
      /\ ledger' = [ledger EXCEPT ![t] = @ + 1]
      /\ transfer' = [transfer EXCEPT ![t].status = "COMPLETED"]
  BY DEF CommitFinalize, Active
<1>2. /\ t \in Transfers /\ transfer[t].status # "ABSENT" /\ r.orders \in SUBSET Orders
      /\ r.from \in [r.orders -> Drivers \cup {NoDriver}]
      /\ \A o \in r.orders : order[o].status = "COMPLETED"
  BY <1>1, RowTypes DEF RequestOK
<1>3. /\ transfer[t].source \in Drivers /\ transfer[t].target \in Drivers
      /\ \A o \in r.orders : first(o) \in Drivers
  BY <1>2, RowTypes DEF FirstSource
<1>4. ASSUME NEW o \in r.orders, ~reassigned PROVE first(o) = OriginalDriver(o)
  BY <1>1, <1>4 DEF TransferInv, OriginKept, KeepsOrigin
<1> HIDE DEF first, t
<1>5. order' \in [Orders -> OrderRow] /\ ledger' \in [Transfers -> Nat]
  <2>1. ASSUME NEW o \in r.orders
        PROVE  [order[o] EXCEPT !.driver = transfer[t].target, !.from = first(o)] \in OrderRow
    <3>1. order[o] \in OrderRow /\ transfer[t].target \in Drivers /\ first(o) \in Drivers
      BY <1>2, <1>3, RowTypes
    <3> QED BY <3>1 DEF OrderRow
  <2>2. order' \in [Orders -> OrderRow]
    BY <1>1, <2>1, RowTypes
  <2>3. ledger \in [Transfers -> Nat]
    BY RowTypes
  <2>4. ledger' \in [Transfers -> Nat]
    <3>1. ledger' = [ledger EXCEPT ![t] = ledger[t] + 1] /\ t \in Transfers
      BY <1>1, <1>2
    <3> QED BY <2>3, <3>1
  <2> QED BY <2>2, <2>4
<1>6. \A o \in Orders : /\ order'[o].status = order[o].status
                        /\ order'[o].cash = order[o].cash
                        /\ order'[o].bag = order[o].bag
                        /\ o \notin r.orders => order'[o] = order[o]
                        /\ o \in r.orders => order'[o].from = first(o)
  BY <1>1, RowTypes DEF OrderRow
<1>7. /\ transfer' \in [Transfers -> TransferRow]
      /\ transfer'[t].status = "COMPLETED"
      /\ \A u \in Transfers : /\ transfer'[u].orders = transfer[u].orders
                              /\ transfer'[u].source = transfer[u].source
                              /\ transfer'[u].target = transfer[u].target
                              /\ u # t => transfer'[u] = transfer[u]
  BY <1>1, <1>2, RowTypes, ZenonT(30) DEF TransferRow
<1>8. RowsGrow
  <2>1. ASSUME NEW o \in Orders, ~reassigned' PROVE OriginalDriver(o)' = OriginalDriver(o)
    <3>1. CASE o \in r.orders
      <4>1. first(o) = OriginalDriver(o)
        BY <1>1, <1>4, <2>1, <3>1
      <4>2. order'[o].from = first(o) /\ first(o) # NoDriver
        BY <1>3, <1>6, <3>1, TransferAssumption
      <4>3. OriginalDriver(o)' = first(o)
        BY <4>2 DEF OriginalDriver
      <4> QED BY <4>1, <4>3
    <3>2. CASE o \notin r.orders
      BY <1>6, <3>2 DEF OriginalDriver
    <3> QED BY <3>1, <3>2
  <2> QED BY <1>1, <1>6, <1>7, <2>1 DEF RowsGrow
<1>9. \A u \in Transfers : transfer'[u].status # "ABSENT"
                => transfer'[u].source \in Drivers /\ transfer'[u].target \in Drivers
  BY <1>2, <1>7, RowTypes
<1>10. ASSUME ~overlapped PROVE ~reassigned' /\ OrdersOK' /\ LockedOnce'
  <2>1. ~reassigned /\ OrdersOK /\ LockedOnce /\ Checked(r)
    BY <1>10, RowTypes
  <2>2. /\ transfer[t].status = "AWAITING_SIGNATURES"
        /\ \A o \in r.orders : order[o].cash = "PAID_TO_DRIVER"
    BY <1>1, <2>1 DEF Checked, Owes, t
  <2>3. OrdersOK'
    BY <1>2, <1>6, <2>1, <2>2 DEF OrdersOK
  <2>4. \A u \in Transfers, o \in Orders : Locks(u, o)' => Locks(u, o)
    BY <1>7, <2>2 DEF Locks
  <2> QED BY <1>1, <2>1, <2>3, <2>4 DEF LockedOnce
<1> QED BY <1>1, <1>5, <1>7, <1>8, <1>9, <1>10, RowTypes, CommitStep

\* confirmHandover takes only cash whose driver is the one who hands it over.
LEMMA CommitHandoverStep ==
    ASSUME TransferInv, NEW s \in Sessions, CommitHandover(s)
    PROVE  TransferInv' /\ RowsGrow
<1> DEFINE r == session[s]
<1>1. /\ r.op = "handover" /\ Active(s) /\ End(s) /\ UNCHANGED <<transfer, ledger, reassigned>>
      /\ order' = [o \in Orders |-> IF o \in r.orders
                      THEN [order[o] EXCEPT !.cash = "HANDED_OVER", !.bag = r.driver]
                      ELSE order[o]]
  BY DEF CommitHandover, Active
<1>2. r.driver \in Drivers /\ r.orders \in SUBSET Orders
  BY <1>1, RowTypes DEF RequestOK
<1>3. order' \in [Orders -> OrderRow]
  <2>1. ASSUME NEW o \in r.orders
        PROVE  [order[o] EXCEPT !.cash = "HANDED_OVER", !.bag = r.driver] \in OrderRow
    <3>1. order[o] \in OrderRow
      BY <1>2, RowTypes
    <3> QED BY <1>2, <3>1 DEF OrderRow
  <2> QED BY <1>1, <2>1, RowTypes
<1>4. \A o \in Orders : /\ order'[o].status = order[o].status
                        /\ order'[o].from = order[o].from
                        /\ order'[o].driver = order[o].driver
                        /\ o \notin r.orders => order'[o] = order[o]
                        /\ o \in r.orders => order'[o].bag = r.driver
  BY <1>1, RowTypes DEF OrderRow
<1>5. RowsGrow
  BY <1>1, <1>4, ZenonT(30) DEF RowsGrow, OriginalDriver
<1>6. ASSUME ~overlapped PROVE ~reassigned' /\ OrdersOK' /\ LockedOnce'
  <2>1. ~reassigned /\ OrdersOK /\ LockedOnce /\ Checked(r)
    BY <1>6, RowTypes
  <2>2. \A o \in r.orders : order[o].status = "COMPLETED" /\ order[o].driver = r.driver
    BY <1>1, <2>1 DEF Checked, Owes
  <2>3. OrdersOK'
    BY <1>4, <2>1, <2>2 DEF OrdersOK
  <2> QED BY <1>1, <2>1, <2>3 DEF LockedOnce, Locks
<1> QED BY <1>1, <1>3, <1>5, <1>6, RowTypes, CommitStep

\* A signature only changes the transfer it is on.
LEMMA SignStep ==
    ASSUME TransferInv, NEW t \in Transfers, SignAsSource(t) \/ SignAsTarget(t)
    PROVE  TransferInv' /\ RowsGrow
<1>1. /\ UNCHANGED <<order, ledger, session, overlapped, reassigned>>
      /\ \/ transfer' = [transfer EXCEPT ![t].sourceSigned = TRUE]
         \/ transfer' = [transfer EXCEPT ![t].targetSigned = TRUE]
  BY DEF SignAsSource, SignAsTarget, history
<1>2. /\ transfer' \in [Transfers -> TransferRow]
      /\ \A u \in Transfers : /\ transfer'[u].status = transfer[u].status
                              /\ transfer'[u].orders = transfer[u].orders
                              /\ transfer'[u].source = transfer[u].source
                              /\ transfer'[u].target = transfer[u].target
  <2>1. transfer \in [Transfers -> TransferRow]
    BY RowTypes
  <2>2. CASE transfer' = [transfer EXCEPT ![t].sourceSigned = TRUE]
    BY <2>1, <2>2 DEF TransferRow
  <2>3. CASE transfer' = [transfer EXCEPT ![t].targetSigned = TRUE]
    BY <2>1, <2>3 DEF TransferRow
  <2> QED BY <1>1, <2>2, <2>3
<1>3. RowsGrow
  BY <1>1, <1>2 DEF RowsGrow, OriginalDriver
<1>4. TransferTypeOK'
  BY <1>1, <1>2 DEF TransferInv, TransferTypeOK, OrderRow, SessionRow
<1>5. RequestsOK' /\ OriginKept'
  <2>1. ASSUME NEW s \in Sessions
        PROVE  RequestOK(session[s])' /\ (~reassigned' => KeepsOrigin(session[s])')
    BY <1>1, <1>3, GrowKeepsRequests
  <2> QED BY <1>2, <2>1, RowTypes DEF RequestsOK, OriginKept
<1>6. Serial'
  <2> SUFFICES ASSUME ~overlapped' PROVE Serial'
    BY DEF Serial
  <2>1. ~overlapped
    BY <1>1
  <2>2. \A u \in Transfers, o \in Orders : Locks(u, o)' <=> Locks(u, o)
    BY <1>2 DEF Locks
  <2>3. ASSUME NEW s \in Sessions PROVE Checked(session[s])'
    <3>1. Checked(session[s]) /\ RequestOK(session[s]) /\ session[s].orders \in SUBSET Orders
      BY <2>1, RowTypes
    <3> QED BY <1>1, <1>2, <2>2, <3>1 DEF Checked, RequestOK, Owes
  <2>4. OrdersOK' /\ LockedOnce' /\ ~reassigned'
    BY <1>1, <2>1, <2>2, RowTypes DEF OrdersOK, LockedOnce
  <2>5. \A s, r \in Sessions : Active(s)' /\ Active(r)' => s = r
    BY <1>1, <2>1 DEF TransferInv, Serial, Active
  <2> QED BY <2>3, <2>4, <2>5 DEF Serial
<1> QED BY <1>3, <1>4, <1>5, <1>6 DEF TransferInv

\* Completion makes the driver of the moment the one who owes the cash.
LEMMA CompleteStep ==
    ASSUME TransferInv, NEW o \in Orders, NEW cash \in {"NONE", "PAID_TO_DRIVER"},
           Complete(o, cash)
    PROVE  TransferInv' /\ RowsGrow
<1>1. /\ order[o].status = "OPEN"
      /\ order' = [order EXCEPT ![o].status = "COMPLETED", ![o].cash = cash]
      /\ overlapped' = (overlapped \/ \E s \in Sessions : Active(s))
      /\ UNCHANGED <<transfer, ledger, session, reassigned>>
  BY DEF Complete
<1>2. order' \in [Orders -> OrderRow]
  BY <1>1, RowTypes, ZenonT(30) DEF OrderRow
<1>3. /\ order'[o].status = "COMPLETED" /\ order'[o].cash = cash
      /\ \A p \in Orders : /\ order'[p].from = order[p].from
                           /\ order'[p].driver = order[p].driver
                           /\ order'[p].bag = order[p].bag
                           /\ p # o => order'[p] = order[p]
  BY <1>1, RowTypes DEF OrderRow
<1>4. RowsGrow
  BY <1>1, <1>3, ZenonT(30) DEF RowsGrow, OriginalDriver
<1>5. TransferTypeOK'
  BY <1>1, <1>2 DEF TransferInv, TransferTypeOK, TransferRow, SessionRow
<1>6. RequestsOK' /\ OriginKept'
  <2>1. ASSUME NEW s \in Sessions
        PROVE  RequestOK(session[s])' /\ (~reassigned' => KeepsOrigin(session[s])')
    BY <1>1, <1>4, GrowKeepsRequests
  <2> QED BY <1>1, <2>1, RowTypes DEF RequestsOK, OriginKept
<1>7. Serial'
  <2> SUFFICES ASSUME ~overlapped' PROVE Serial'
    BY DEF Serial
  <2>1. ~overlapped /\ \A s \in Sessions : ~Active(s)
    BY <1>1
  <2>2. \A s \in Sessions : ~Active(s)' /\ Checked(session[s])'
    BY <1>1, <2>1 DEF Active, Checked
  <2>3. OrdersOK' /\ LockedOnce' /\ ~reassigned'
    BY <1>1, <1>3, <2>1, RowTypes DEF OrdersOK, LockedOnce, Locks
  <2> QED BY <2>2, <2>3 DEF Serial
<1> QED BY <1>4, <1>5, <1>6, <1>7 DEF TransferInv

\* All the steps of the transfers.
LEMMA TransferStep ==
    ASSUME TransferInv, TransferNext
    PROVE  TransferInv' /\ RowsGrow
<1>1. CASE \E s \in Sessions : Abort(s)
  BY <1>1, AbortStep
<1>2. CASE \E s \in Sessions : CommitAssign(s)
  BY <1>2, CommitAssignStep
<1>3. CASE \E s \in Sessions, t \in Transfers : CommitCreate(s, t)
  BY <1>3, CommitCreateStep
<1>4. CASE \E s \in Sessions : CommitFinalize(s)
  BY <1>4, CommitFinalizeStep
<1>5. CASE \E s \in Sessions : CommitCancel(s)
  BY <1>5, CommitCancelStep
<1>6. CASE \E s \in Sessions : CommitHandover(s)
  BY <1>6, CommitHandoverStep
<1>7. CASE \E t \in Transfers : SignAsSource(t) \/ SignAsTarget(t)
  BY <1>7, SignStep
<1>8. CASE \E s \in Sessions :
           \/ \E o \in Orders, d \in Drivers : BeginAssign(s, o, d)
           \/ \E source, target \in Drivers, orders \in SUBSET Orders :
                 BeginCreate(s, source, target, orders)
           \/ \E t \in Transfers : BeginFinalize(s, t) \/ BeginCancel(s, t)
           \/ \E d \in Drivers : BeginHandover(s, d)
  BY <1>8, BeginsStep
<1> QED BY <1>1, <1>2, <1>3, <1>4, <1>5, <1>6, <1>7, <1>8 DEF TransferNext

-----------------------------------------------------------------------------
(* Commissions *)

CInv == TransferInv /\ TypeOK /\ CompletedFirst /\ PaidOnce

\* A step that leaves the payouts and the journal alone.
LEMMA GrowKeepsPayouts ==
    ASSUME CInv, RowsGrow, UNCHANGED commissionVars
    PROVE  CompletedFirst' /\ PaidOnce'
<1>1. \A r \in payout : r.order \in Orders
  BY DEF CInv, TypeOK, PayoutRow
<1>2. CompletedFirst'
  BY <1>1 DEF CInv, CompletedFirst, RowsGrow, commissionVars
<1>3. ASSUME ~reassigned' PROVE PaidOnce'
  <2>1. ~reassigned
    BY <1>3 DEF RowsGrow
  <2>2. \A r \in payout : OriginalDriver(r.order)' = OriginalDriver(r.order)
    BY <1>1, <1>3 DEF RowsGrow, CInv, CompletedFirst
  <2>3. /\ \A r \in payout : r.earner = OriginalDriver(r.order)
        /\ \A r, q \in payout : r.mode = q.mode /\ r.order = q.order => r = q
        /\ payout' = payout
    BY <2>1 DEF CInv, PaidOnce, commissionVars
  <2>4. \A r \in payout : r.earner = OriginalDriver(r.order)'
    BY <2>2, <2>3
  <2>5. \A r \in payout' : r.earner = OriginalDriver(r.order)'
    BY <2>3, <2>4
  <2> QED BY <2>3, <2>5 DEF PaidOnce
<1>4. PaidOnce'
  BY <1>3 DEF PaidOnce
<1> QED BY <1>2, <1>4

\* The same with the commission's own columns: the completed order enters the window.
LEMMA CompleteOrderCInv ==
    ASSUME CInv, NEW o \in Orders, NEW owes \in BOOLEAN, CompleteOrder(o, owes)
    PROVE  CInv' /\ RowsGrow
<1> DEFINE cash == IF owes THEN "NONE" ELSE "PAID_TO_DRIVER"
<1>1. /\ Complete(o, cash) /\ cash \in {"NONE", "PAID_TO_DRIVER"}
      /\ owed' = [owed EXCEPT ![o] = owes]
      /\ age' = [age EXCEPT !["SALE"][o] = 1]
      /\ UNCHANGED <<payout, missed>>
  BY DEF CompleteOrder
<1> HIDE DEF cash
<1>2. TransferInv' /\ RowsGrow
  BY <1>1, CompleteStep DEF CInv
<1>3. order'[o].status = "COMPLETED"
  BY <1>1 DEF Complete, CInv, TypeOK, TransferTypeOK, OrderRow
<1>4. TypeOK'
  BY <1>1, <1>2, CommissionAssumption DEF CInv, TypeOK, TransferInv, Modes
<1>5. CompletedFirst'
  <2>1. /\ owed \in [Orders -> BOOLEAN] /\ age \in [Modes -> [Orders -> 0 .. Window + 1]]
        /\ \A r \in payout : r.order \in Orders
    BY DEF CInv, TypeOK, PayoutRow
  <2>2. \A p \in Orders \ {o} : owed'[p] = owed[p] /\ \A m \in Modes : age'[m][p] = age[m][p]
    BY <1>1, <2>1 DEF Modes
  <2> QED BY <1>1, <1>2, <1>3, <2>1, <2>2 DEF CInv, CompletedFirst, RowsGrow
<1>6. PaidOnce'
  <2>1. ASSUME ~reassigned', NEW r \in payout PROVE r.earner = OriginalDriver(r.order)'
    BY <1>2, <2>1 DEF RowsGrow, CInv, CompletedFirst, PaidOnce, TypeOK, PayoutRow
  <2> QED BY <1>1, <1>2, <2>1 DEF PaidOnce, CInv, RowsGrow
<1> QED BY <1>2, <1>4, <1>5, <1>6 DEF CInv

\* What the rows R say about orders and earners.
SoundRows(R) ==
    /\ R \subseteq PayoutRow
    /\ \A r \in R : order[r.order].status = "COMPLETED"
    /\ ~reassigned => /\ \A r \in R : r.earner = OriginalDriver(r.order)
                      /\ \A r, q \in R : r.mode = q.mode /\ r.order = q.order => r = q

\* Releasing rows changes their status only.
LEMMA ReleaseKeeps ==
    ASSUME NEW R, SoundRows(R), NEW f \in [R -> PayoutRow],
           \A r \in R : f[r].mode = r.mode /\ f[r].order = r.order /\ f[r].earner = r.earner
    PROVE  /\ SoundRows({f[r] : r \in R})
           /\ \A r \in R : \E q \in {f[x] : x \in R} : q.mode = r.mode /\ q.order = r.order
<1> DEFINE Q == {f[r] : r \in R}
<1>1. Q \subseteq PayoutRow
  OBVIOUS
<1>2. \A q \in Q : order[q.order].status = "COMPLETED"
  BY DEF SoundRows
<1>3. ASSUME ~reassigned PROVE \A q \in Q : q.earner = OriginalDriver(q.order)
  BY <1>3 DEF SoundRows
<1>4. ASSUME ~reassigned, NEW p \in Q, NEW q \in Q, p.mode = q.mode /\ p.order = q.order
      PROVE  p = q
  BY <1>4 DEF SoundRows
<1> QED BY <1>1, <1>2, <1>3, <1>4 DEF SoundRows

\* The cron adds a row for orders that were completed, unless the driver who
\* first owed the order has one already.
LEMMA EarnedKeeps ==
    ASSUME CInv, NEW R, SoundRows(R), NEW m \in Modes, NEW S \in SUBSET Orders,
           \A o \in S : order[o].status = "COMPLETED",
           \A r \in R : r \in payout \/ r.mode # m, payout \subseteq R
    PROVE  /\ SoundRows(R \cup Earned(m, S))
           /\ \A r \in Earned(m, S) : r.mode = m
           /\ \A o \in S : \E r \in R \cup Earned(m, S) : r.mode = m /\ r.order = o
<1> DEFINE new(o) == [mode |-> m, order |-> o, earner |-> Earner(o), status |-> FirstStatus(m)]
           N == {p \in S : ~\E r \in payout : r.mode = m /\ r.order = p /\ r.earner = Earner(p)}
<1>1. Earned(m, S) = {new(o) : o \in N} /\ N \subseteq S
  BY DEF Earned
<1>2. \A o \in S : Earner(o) \in Drivers
  BY RowTypes DEF Earner, CInv
<1>3. \A o \in N : new(o) \in PayoutRow
  BY <1>2 DEF PayoutRow, FirstStatus
<1>4. \A r \in Earned(m, S) : \E o \in N : r = new(o)
  BY <1>1
<1>5. \A r \in R \cup Earned(m, S) : r \in PayoutRow /\ order[r.order].status = "COMPLETED"
  BY <1>1, <1>3, <1>4 DEF SoundRows
<1>6. ASSUME ~reassigned PROVE \A r \in R \cup Earned(m, S) : r.earner = OriginalDriver(r.order)
  BY <1>4, <1>6 DEF SoundRows, Earner
<1>7. ASSUME ~reassigned, NEW r \in R, NEW o \in N PROVE ~(r.mode = m /\ r.order = o)
  <2>1. r \in payout => r.earner = Earner(r.order)
    BY <1>7 DEF CInv, PaidOnce, Earner
  <2> QED BY <2>1
<1>8. ASSUME ~reassigned, NEW r \in R \cup Earned(m, S), NEW q \in R \cup Earned(m, S),
             r.mode = q.mode, r.order = q.order
      PROVE  r = q
  <2>1. CASE r \in R /\ q \in R
    BY <1>8, <2>1 DEF SoundRows
  <2>2. CASE r \in Earned(m, S) /\ q \in Earned(m, S)
    BY <1>4, <1>8, <2>2
  <2>3. CASE r \in R /\ q \in Earned(m, S)
    BY <1>4, <1>7, <1>8, <2>3
  <2>4. CASE r \in Earned(m, S) /\ q \in R
    BY <1>4, <1>7, <1>8, <2>4
  <2> QED BY <2>1, <2>2, <2>3, <2>4
<1>9. ASSUME NEW o \in S PROVE \E r \in R \cup Earned(m, S) : r.mode = m /\ r.order = o
  <2>1. CASE o \in N
    <3>1. new(o) \in Earned(m, S) /\ new(o).mode = m /\ new(o).order = o
      BY <1>1, <2>1
    <3> QED BY <3>1
  <2>2. CASE o \notin N
    BY <2>2
  <2> QED BY <2>1, <2>2
<1>10. \A r \in Earned(m, S) : r.mode = m
  BY <1>4
<1> QED BY <1>5, <1>6, <1>8, <1>9, <1>10 DEF SoundRows

\* One pass: the rows stay sound, none is lost, and every order that was taken has
\* its row.
LEMMA ScanSound ==
    ASSUME CInv, Scan
    PROVE  /\ SoundRows(payout')
           /\ \A r \in payout : \E q \in payout' : q.mode = r.mode /\ q.order = r.order
           /\ \E sales \in Taken({o \in Orders : order[o].status = "COMPLETED" /\ InWindow("SALE", o)}),
                 collections \in Taken({o \in Orders : InWindow("COLLECTION", o)}) :
                /\ \A o \in sales : \E q \in payout' : q.mode = "SALE" /\ q.order = o
                /\ \A o \in collections : \E q \in payout' : q.mode = "COLLECTION" /\ q.order = o
<1> DEFINE Sales == {o \in Orders : order[o].status = "COMPLETED" /\ InWindow("SALE", o)}
           Collections == {o \in Orders : InWindow("COLLECTION", o)}
<1>1. PICK sales \in Taken(Sales), collections \in Taken(Collections) :
           payout' = ReleaseAfterCollection(payout \cup Earned("SALE", sales)
                                                   \cup Earned("COLLECTION", collections))
  BY DEF Scan
<1>2. \A S : \A T \in Taken(S) : T \subseteq S
  BY DEF Taken, kSubset
<1>3. sales \in SUBSET Orders /\ collections \in SUBSET Orders
      /\ (\A o \in sales : order[o].status = "COMPLETED")
      /\ (\A o \in collections : order[o].status = "COMPLETED")
  <2>1. \A o \in Collections : age["COLLECTION"][o] > 0
    BY CommissionAssumption DEF InWindow, CInv, TypeOK, Modes
  <2>2. \A o \in Collections : order[o].status = "COMPLETED"
    BY <2>1 DEF CInv, CompletedFirst, Modes
  <2> QED BY <1>2, <2>2
<1> DEFINE R1 == payout \cup Earned("SALE", sales)
           R == R1 \cup Earned("COLLECTION", collections)
           f == [r \in R |-> IF /\ r.mode = "SALE" /\ r.status = "PENDING"
                                /\ Timing["SALE"] = "AFTER_COLLECTION"
                                /\ ~owed[r.order]
                             THEN [r EXCEPT !.status = "RELEASED"] ELSE r]
<1>4. SoundRows(payout)
  BY DEF CInv, TypeOK, CompletedFirst, PaidOnce, SoundRows
<1>5. /\ SoundRows(R1) /\ \A r \in Earned("SALE", sales) : r.mode = "SALE"
      /\ \A o \in sales : \E r \in R1 : r.mode = "SALE" /\ r.order = o
  <2>1. "SALE" \in Modes /\ payout \subseteq payout /\ \A r \in payout : r \in payout \/ r.mode # "SALE"
    BY DEF Modes
  <2> QED BY <1>3, <1>4, <2>1, EarnedKeeps
<1>6. /\ SoundRows(R)
      /\ \A o \in collections : \E r \in R : r.mode = "COLLECTION" /\ r.order = o
  BY <1>3, <1>5, EarnedKeeps DEF Modes
<1>7. payout' = {f[r] : r \in R}
  BY <1>1 DEF ReleaseAfterCollection
<1>8. R \subseteq PayoutRow /\ R1 \subseteq R /\ payout \subseteq R
  BY <1>6 DEF SoundRows
<1>9. /\ f \in [R -> PayoutRow]
      /\ \A r \in R : f[r].mode = r.mode /\ f[r].order = r.order /\ f[r].earner = r.earner
  BY <1>8 DEF PayoutRow
<1> HIDE DEF f, R, R1, Sales, Collections
<1>10. /\ SoundRows(payout')
       /\ \A r \in R : \E q \in payout' : q.mode = r.mode /\ q.order = r.order
  BY <1>6, <1>7, <1>9, ReleaseKeeps
<1>11. /\ \A o \in sales : \E q \in payout' : q.mode = "SALE" /\ q.order = o
       /\ \A o \in collections : \E q \in payout' : q.mode = "COLLECTION" /\ q.order = o
       /\ \A r \in payout : \E q \in payout' : q.mode = r.mode /\ q.order = r.order
  BY <1>5, <1>6, <1>8, <1>10
<1> QED BY <1>10, <1>11, ZenonT(30) DEF Sales, Collections

\* Ten minutes pass.
LEMMA TockType ==
    ASSUME NEW n \in 0 .. Window + 1
    PROVE  Tock(n) \in 0 .. Window + 1 /\ (Tock(n) > 0 <=> n > 0)
BY CommissionAssumption DEF Tock

\* One cron period later: ages grow up to Window + 1 and none starts or stops.
LEMMA AgeStep ==
    ASSUME TypeOK, age' = [m \in Modes |-> [o \in Orders |-> Tock(age[m][o])]]
    PROVE  /\ age' \in [Modes -> [Orders -> 0 .. Window + 1]]
           /\ \A m \in Modes, o \in Orders : age'[m][o] = Tock(age[m][o])
                                             /\ (age'[m][o] > 0 <=> age[m][o] > 0)
<1>1. \A m \in Modes, o \in Orders : age[m][o] \in 0 .. Window + 1
  BY DEF TypeOK
<1>2. \A m \in Modes, o \in Orders : /\ Tock(age[m][o]) \in 0 .. Window + 1
                                     /\ Tock(age[m][o]) > 0 <=> age[m][o] > 0
  BY <1>1, TockType
<1> QED BY <1>2

\* The steps that leave orders and transfers alone.
LEMMA CommissionStep ==
    ASSUME CInv, UNCHANGED transferVars,
           payout' = payout \/ SoundRows(payout'),
           \A o \in Orders : owed'[o] => owed[o],
           \A m \in Modes, o \in Orders : age'[m][o] > 0 => age[m][o] > 0 \/ owed[o],
           owed' \in [Orders -> BOOLEAN],
           age' \in [Modes -> [Orders -> 0 .. Window + 1]], missed' \in 0 .. MaxMissed
    PROVE  CInv'
<1>1. UNCHANGED <<order, transfer, ledger, session, overlapped, reassigned>>
  BY DEF transferVars, history
<1>2. TransferInv'
  <2>1. TransferTypeOK' /\ RequestsOK' /\ OriginKept'
    BY <1>1 DEF CInv, TransferInv, TransferTypeOK, RequestsOK, RequestOK, OriginKept, KeepsOrigin,
                OriginalDriver
  <2>2. Serial'
    BY <1>1 DEF CInv, TransferInv, Serial, Active, Checked, OrdersOK, LockedOnce, Locks, Owes
  <2> QED BY <2>1, <2>2 DEF TransferInv
<1>3. SoundRows(payout')
  BY DEF CInv, TypeOK, CompletedFirst, PaidOnce, SoundRows
<1>4. \A o \in Orders : OriginalDriver(o)' = OriginalDriver(o)
  BY <1>1 DEF OriginalDriver
<1>5. CompletedFirst'
  BY <1>1, <1>3 DEF CInv, CompletedFirst, SoundRows
<1>6. PaidOnce'
  BY <1>1, <1>3, <1>4 DEF PaidOnce, SoundRows, PayoutRow
<1>7. TypeOK'
  BY <1>2, <1>3 DEF TypeOK, TransferInv, SoundRows
<1> QED BY <1>2, <1>5, <1>6, <1>7 DEF CInv

\* The cron, a pass it misses, the nightly release and a collection keep the invariant.
LEMMA CronStep ==
    ASSUME CInv, TickScan \/ TickMissed \/ ScanEndOfMonth \/ \E o \in Orders : CollectDebt(o)
    PROVE  CInv'
<1>0. /\ owed \in [Orders -> BOOLEAN] /\ age \in [Modes -> [Orders -> 0 .. Window + 1]]
      /\ missed \in 0 .. MaxMissed /\ payout \subseteq PayoutRow
  BY DEF CInv, TypeOK
<1>1. CASE TickScan
  <2>1. SoundRows(payout')
    BY <1>1, ScanSound DEF TickScan
  <2>2. /\ age' \in [Modes -> [Orders -> 0 .. Window + 1]]
        /\ \A m \in Modes, o \in Orders : age'[m][o] > 0 <=> age[m][o] > 0
    BY <1>1, AgeStep DEF TickScan, CInv
  <2>3. missed' \in 0 .. MaxMissed /\ owed' = owed /\ UNCHANGED transferVars
    BY <1>1, CommissionAssumption DEF TickScan
  <2> QED BY <1>0, <2>1, <2>2, <2>3, CommissionStep
<1>2. CASE TickMissed
  <2>1. /\ age' \in [Modes -> [Orders -> 0 .. Window + 1]]
        /\ \A m \in Modes, o \in Orders : age'[m][o] > 0 <=> age[m][o] > 0
    BY <1>2, AgeStep DEF TickMissed, CInv
  <2>2. missed' \in 0 .. MaxMissed /\ owed' = owed /\ payout' = payout /\ UNCHANGED transferVars
    BY <1>0, <1>2, CommissionAssumption DEF TickMissed
  <2> QED BY <1>0, <2>1, <2>2, CommissionStep
<1>3. CASE ScanEndOfMonth
  <2> DEFINE f == [r \in payout |-> IF r.status = "PENDING" /\ Timing[r.mode] = "END_OF_MONTH"
                                    THEN [r EXCEPT !.status = "RELEASED"] ELSE r]
  <2>1. payout' = {f[r] : r \in payout} /\ UNCHANGED <<owed, age, missed, transferVars>>
    BY <1>3 DEF ScanEndOfMonth
  <2>2. /\ f \in [payout -> PayoutRow]
        /\ \A r \in payout : f[r].mode = r.mode /\ f[r].order = r.order /\ f[r].earner = r.earner
    BY <1>0 DEF PayoutRow
  <2>3. SoundRows(payout)
    BY DEF CInv, TypeOK, CompletedFirst, PaidOnce, SoundRows
  <2> HIDE DEF f
  <2>4. SoundRows(payout')
    BY <2>1, <2>2, <2>3, ReleaseKeeps
  <2> QED BY <1>0, <2>1, <2>4, CommissionStep
<1>4. ASSUME NEW o \in Orders, CollectDebt(o) PROVE CInv'
  <2>1. /\ owed[o] /\ owed' = [owed EXCEPT ![o] = FALSE] /\ age' = [age EXCEPT !["COLLECTION"][o] = 1]
        /\ UNCHANGED <<payout, missed, transferVars>>
    BY <1>4 DEF CollectDebt
  <2>2. /\ owed' \in [Orders -> BOOLEAN] /\ \A p \in Orders : owed'[p] => owed[p]
        /\ age' \in [Modes -> [Orders -> 0 .. Window + 1]]
        /\ \A m \in Modes, p \in Orders : age'[m][p] > 0 => age[m][p] > 0 \/ owed[p]
    BY <1>0, <2>1, CommissionAssumption DEF Modes
  <2> QED BY <1>0, <2>1, <2>2, CommissionStep
<1> QED BY <1>1, <1>2, <1>3, <1>4

\* The invariant holds initially: no order is completed and no payout exists.
LEMMA CInvInit == Init => CInv
<1> SUFFICES ASSUME Init PROVE CInv
  OBVIOUS
<1>1. TransferTypeOK
  <2>1. order \in [Orders -> OrderRow]
    BY DEF Init, TransferInit
  <2>2. transfer \in [Transfers -> TransferRow]
    BY DEF Init, TransferInit, NoTransfer, TransferRow
  <2>3. session \in [Sessions -> SessionRow]
    BY IdleType DEF Init, TransferInit
  <2> QED BY <2>1, <2>2, <2>3 DEF Init, TransferInit, TransferTypeOK
<1>2. \A s \in Sessions : session[s].op = "idle"
  BY IdleType DEF Init, TransferInit
<1>3. RequestsOK /\ OriginKept
  BY <1>2 DEF Init, TransferInit, NoTransfer, RequestsOK, RequestOK, OriginKept, KeepsOrigin
<1>4. Serial
  <2>1. \A s \in Sessions : ~Active(s) /\ Checked(session[s])
    BY <1>2 DEF Active, Checked
  <2>2. OrdersOK
    BY DEF Init, TransferInit, OrdersOK
  <2>3. LockedOnce /\ ~reassigned
    BY DEF Init, TransferInit, LockedOnce, Locks, NoTransfer
  <2> QED BY <2>1, <2>2, <2>3 DEF Serial
<1>5. TypeOK /\ CompletedFirst /\ PaidOnce
  BY <1>1, CommissionAssumption DEF Init, TypeOK, CompletedFirst, PaidOnce
<1> QED BY <1>1, <1>3, <1>4, <1>5 DEF CInv, TransferInv

\* Every step of transfers, handovers and the cron preserves the invariant.
LEMMA CInvNext == CInv /\ [Next]_vars => CInv'
<1> SUFFICES ASSUME CInv, [Next]_vars PROVE CInv'
  OBVIOUS
<1>1. CASE TransferNext /\ UNCHANGED commissionVars
  <2>1. TransferInv' /\ RowsGrow
    BY <1>1, TransferStep DEF CInv
  <2>2. CompletedFirst' /\ PaidOnce'
    BY <1>1, <2>1, GrowKeepsPayouts
  <2>3. TypeOK'
    BY <1>1, <2>1 DEF CInv, TypeOK, TransferInv, commissionVars
  <2> QED BY <2>1, <2>2, <2>3 DEF CInv
<1>2. CASE \E o \in Orders : \E owes \in BOOLEAN : CompleteOrder(o, owes)
  BY <1>2, CompleteOrderCInv
<1>3. CASE TickScan \/ TickMissed \/ ScanEndOfMonth \/ \E o \in Orders : CollectDebt(o)
  BY <1>3, CronStep
<1>4. CASE UNCHANGED vars
  BY <1>4, CommissionStep DEF vars, commissionVars, CInv, TypeOK
<1> QED BY <1>1, <1>2, <1>3, <1>4 DEF Next

\* The type invariant: orders, transfers, requests, payouts and ages keep their
\* types whatever overlaps (schema.prisma: Order, DebtTransfer, CommissionPayout).
THEOREM TypeCorrect == Spec => []TypeOK
<1>1. CInv => TypeOK
  BY DEF CInv
<1> QED BY <1>1, CInvInit, CInvNext, PTL DEF Spec

\* As long as requests do not overlap the cash of an order is handed over by the
\* driver who owes it (confirmHandover against finalize and assignDriver).
THEOREM HandoverFromDebtor == Spec => []CashFromDebtor
<1>1. CInv => CashFromDebtor
  BY DEF CInv, TransferInv, Serial, OrdersOK, CashFromDebtor
<1> QED BY <1>1, CInvInit, CInvNext, PTL DEF Spec

\* A sale, and a collection, earns one commission: the cron may see the order in
\* several passes while transfers, drafts, handovers and cancellations overlap in
\* any way, as long as assignDriver does not overtake the completion.
THEOREM EarnedOnce == Spec => []CommissionEarnedOnce
<1>1. CInv => CommissionEarnedOnce
  BY DEF CInv, PaidOnce, CommissionEarnedOnce
<1> QED BY <1>1, CInvInit, CInvNext, PTL DEF Spec

-----------------------------------------------------------------------------
(* The look-back *)

\* A take that is large enough takes everything.
LEMMA TakenAll ==
    ASSUME Cardinality(Orders) <= ScanLimit, NEW S \in SUBSET Orders
    PROVE  Taken(S) = {S}
<1>1. Cardinality(S) <= Cardinality(Orders) /\ Cardinality(S) \in Nat /\ Cardinality(Orders) \in Nat
  BY TransferAssumption, FS_Subset, FS_CardinalityType
<1>2. Cardinality(S) <= ScanLimit
  BY <1>1, CommissionAssumption
<1> QED BY <1>2 DEF Taken

\* What is more than `missed` passes old has been paid out.
LEMMA InTimeNext ==
    ASSUME MaxMissed < Window, Cardinality(Orders) <= ScanLimit,
           CInv, PaidInTime, [Next]_vars
    PROVE  PaidInTime'
<1>0. /\ \A m \in Modes, o \in Orders : age[m][o] \in 0 .. Window + 1
      /\ age \in [Modes -> [Orders -> 0 .. Window + 1]]
      /\ missed \in 0 .. MaxMissed /\ Window \in Nat /\ MaxMissed \in Nat
  BY CommissionAssumption DEF CInv, TypeOK
<1>1. CASE UNCHANGED <<payout, age, missed>>
  BY <1>1 DEF PaidInTime
<1>2. ASSUME NEW o \in Orders, NEW k \in Modes, age' = [age EXCEPT ![k][o] = 1],
             UNCHANGED <<payout, missed>>
      PROVE  PaidInTime'
  <2>1. ASSUME NEW m \in Modes, NEW p \in Orders, age'[m][p] > missed' + 1
        PROVE  \E r \in payout' : r.mode = m /\ r.order = p
    <3>1. age'[m][p] = age[m][p] \/ age'[m][p] = 1
      BY <1>0, <1>2
    <3>2. age[m][p] > missed + 1
      BY <1>0, <1>2, <2>1, <3>1
    <3> QED BY <1>2, <3>2 DEF PaidInTime
  <2> QED BY <2>1 DEF PaidInTime
<1>3. CASE TickMissed
  <2>1. ASSUME NEW m \in Modes, NEW o \in Orders, age'[m][o] > missed' + 1
        PROVE  \E r \in payout' : r.mode = m /\ r.order = o
    <3>1. age'[m][o] = Tock(age[m][o]) /\ missed' = missed + 1 /\ missed < MaxMissed /\ payout' = payout
      BY <1>3 DEF TickMissed
    <3>2. age[m][o] > missed + 1
      BY <1>0, <2>1, <3>1 DEF Tock
    <3> QED BY <3>1, <3>2 DEF PaidInTime
  <2> QED BY <2>1 DEF PaidInTime
<1>4. CASE TickScan
  <2> DEFINE Sales == {o \in Orders : order[o].status = "COMPLETED" /\ InWindow("SALE", o)}
             Collections == {o \in Orders : InWindow("COLLECTION", o)}
  <2>1. /\ \A r \in payout : \E q \in payout' : q.mode = r.mode /\ q.order = r.order
        /\ \E sales \in Taken(Sales), collections \in Taken(Collections) :
              /\ \A o \in sales : \E q \in payout' : q.mode = "SALE" /\ q.order = o
              /\ \A o \in collections : \E q \in payout' : q.mode = "COLLECTION" /\ q.order = o
    BY <1>4, ScanSound DEF TickScan
  <2>2. Taken(Sales) = {Sales} /\ Taken(Collections) = {Collections}
    BY TakenAll
  <2>3. /\ \A o \in Sales : \E q \in payout' : q.mode = "SALE" /\ q.order = o
        /\ \A o \in Collections : \E q \in payout' : q.mode = "COLLECTION" /\ q.order = o
    <3> HIDE DEF Sales, Collections
    <3> QED BY <2>1, <2>2
  <2>4. ASSUME NEW m \in Modes, NEW o \in Orders, age'[m][o] > missed' + 1
        PROVE  \E r \in payout' : r.mode = m /\ r.order = o
    <3>1. age'[m][o] = Tock(age[m][o]) /\ missed' = 0
      BY <1>4 DEF TickScan
    <3>2. age[m][o] >= 1
      BY <1>0, <2>4, <3>1 DEF Tock
    <3>3. CASE age[m][o] <= Window
      <4>1. InWindow(m, o) /\ order[o].status = "COMPLETED"
        BY <1>0, <3>2, <3>3 DEF InWindow, CInv, CompletedFirst
      <4> QED BY <2>3, <4>1 DEF Modes
    <3>4. CASE age[m][o] > Window
      <4>1. age[m][o] > missed + 1
        BY <1>0, <3>4
      <4>2. PICK r \in payout : r.mode = m /\ r.order = o
        BY <4>1 DEF PaidInTime
      <4> QED BY <2>1, <4>2
    <3> QED BY <1>0, <3>3, <3>4
  <2> QED BY <2>4 DEF PaidInTime
<1>5. CASE ScanEndOfMonth
  <2> DEFINE f == [r \in payout |-> IF r.status = "PENDING" /\ Timing[r.mode] = "END_OF_MONTH"
                                    THEN [r EXCEPT !.status = "RELEASED"] ELSE r]
  <2>1. payout' = {f[r] : r \in payout} /\ UNCHANGED <<age, missed>>
    BY <1>5 DEF ScanEndOfMonth
  <2>2. \A r \in payout : f[r] \in payout' /\ f[r].mode = r.mode /\ f[r].order = r.order
    BY <2>1 DEF CInv, TypeOK, PayoutRow
  <2> HIDE DEF f
  <2> QED BY <2>1, <2>2 DEF PaidInTime
<1>6. CASE TransferNext /\ UNCHANGED commissionVars
  BY <1>1, <1>6 DEF commissionVars
<1>7. CASE \E o \in Orders : (\E owes \in BOOLEAN : CompleteOrder(o, owes)) \/ CollectDebt(o)
  BY <1>2, <1>7 DEF CompleteOrder, CollectDebt, Modes
<1>8. CASE UNCHANGED vars
  BY <1>1, <1>8 DEF vars, commissionVars
<1> QED BY <1>3, <1>4, <1>5, <1>6, <1>7, <1>8 DEF Next

\* The look-back of the cron covers what a restart misses: if it is longer than
\* the passes missed in a row, and a scan takes all the orders there are, no
\* completed order and no collection leaves the window without its commission.
THEOREM NothingMissed ==
    ASSUME MaxMissed < Window, Cardinality(Orders) <= ScanLimit
    PROVE  Spec => []NothingSlipsThrough
<1>1. Init => PaidInTime
  BY DEF Init, PaidInTime
<1>2. CInv /\ PaidInTime /\ [Next]_vars => PaidInTime'
  BY InTimeNext
<1>3. CInv /\ PaidInTime => NothingSlipsThrough
  BY CommissionAssumption DEF CInv, TypeOK, PaidInTime, NothingSlipsThrough
<1> QED BY <1>1, <1>2, <1>3, CInvInit, CInvNext, PTL DEF Spec

-----------------------------------------------------------------------------
(* The balancing ledger rows *)

\* The summands of LedgerNet and MovedNet.
BookedOf(d) ==
    [t \in Transfers |-> (IF transfer[t].target = d THEN ledger[t] * AmountOf(t) ELSE 0)
                         - (IF transfer[t].source = d THEN ledger[t] * AmountOf(t) ELSE 0)]
MovedOf(d) ==
    [o \in Orders |-> (IF order[o].driver = d THEN Total[o] ELSE 0)
                      - (IF OriginalDriver(o) = d THEN Total[o] ELSE 0)]

\* The sets that are summed over are finite and totals are natural numbers.
LEMMA Finite == IsFiniteSet(Orders) /\ IsFiniteSet(Transfers) /\ \A o \in Orders : Total[o] \in Nat
BY TransferAssumption, FS_Interval DEF Transfers

\* What the ledger and the orders moved for a driver, as sums of functions.
LEMMA NetsAreSums ==
    ASSUME NEW d
    PROVE  /\ LedgerNet(d) = SumFunctionOnSet(BookedOf(d), Transfers)
           /\ MovedNet(d) = SumFunctionOnSet(MovedOf(d), Orders)
BY DEF LedgerNet, MovedNet, BookedOf, MovedOf

\* The amount of a set of orders is a natural number.
LEMMA AmountNat == ASSUME NEW S \in SUBSET Orders PROVE SumFunctionOnSet(Total, S) \in Nat
BY Finite, FS_Subset, SumNat

\* Every summand is a number, so that the sum lemmas apply.
LEMMA SummandTypes ==
    ASSUME TransferTypeOK
    PROVE  /\ \A t \in Transfers : AmountOf(t) \in Nat /\ ledger[t] * AmountOf(t) \in Nat
           /\ \A t \in Transfers : \A d : BookedOf(d)[t] \in Int
           /\ \A o \in Orders : \A d : MovedOf(d)[o] \in Int
<1>1. ASSUME NEW t \in Transfers PROVE AmountOf(t) \in Nat /\ ledger[t] * AmountOf(t) \in Nat
  <2>1. transfer[t].orders \in SUBSET Orders /\ ledger[t] \in Nat
    BY DEF TransferTypeOK, TransferRow
  <2>2. AmountOf(t) \in Nat
    BY <2>1, AmountNat DEF AmountOf
  <2> QED BY <2>1, <2>2
<1>2. ASSUME NEW t \in Transfers, NEW d PROVE BookedOf(d)[t] \in Int
  <2> DEFINE a == ledger[t] * AmountOf(t)
  <2>1. a \in Nat
    BY <1>1
  <2>2. BookedOf(d)[t] = (IF transfer[t].target = d THEN a ELSE 0) - (IF transfer[t].source = d THEN a ELSE 0)
    BY DEF BookedOf
  <2> HIDE DEF a
  <2> QED BY <2>1, <2>2
<1>3. ASSUME NEW o \in Orders, NEW d PROVE MovedOf(d)[o] \in Int
  BY Finite DEF MovedOf
<1> QED BY <1>1, <1>2, <1>3

\* A step that books nothing and moves no completed order.
LEMMA BooksUntouched ==
    ASSUME TransferInv, TransferInv', Balanced, ~overlapped,
           \A t \in Transfers :
              /\ ledger'[t] = ledger[t]
              /\ transfer'[t].status = "COMPLETED" <=> transfer[t].status = "COMPLETED"
              /\ transfer[t].status = "COMPLETED" =>
                    /\ transfer'[t].orders = transfer[t].orders
                    /\ transfer'[t].source = transfer[t].source
                    /\ transfer'[t].target = transfer[t].target,
           \A o \in Orders :
              \/ order'[o].driver = order[o].driver /\ OriginalDriver(o)' = OriginalDriver(o)
              \/ order[o].driver = OriginalDriver(o) /\ order'[o].driver = OriginalDriver(o)'
    PROVE  Balanced'
<1>1. TransferTypeOK /\ TransferTypeOK'
  BY DEF TransferInv
<1>2. \A t \in Transfers : ledger[t] = IF transfer[t].status = "COMPLETED" THEN 1 ELSE 0
  BY DEF Balanced
<1>3. ASSUME NEW d \in Drivers PROVE LedgerNet(d)' = LedgerNet(d)
  <2>1. ASSUME NEW t \in Transfers PROVE BookedOf(d)'[t] = BookedOf(d)[t]
    <3>1. CASE transfer[t].status = "COMPLETED"
      BY <3>1 DEF BookedOf, AmountOf
    <3>2. CASE transfer[t].status # "COMPLETED"
      <4>1. ledger[t] = 0 /\ ledger'[t] = 0
        BY <1>2, <3>2
      <4>2. AmountOf(t) \in Nat /\ AmountOf(t)' \in Nat
        BY <1>1, AmountNat DEF AmountOf, TransferTypeOK, TransferRow
      <4>3. ledger[t] * AmountOf(t) = 0 /\ ledger'[t] * AmountOf(t)' = 0
        BY <4>1, <4>2
      <4> QED BY <4>3 DEF BookedOf
    <3> QED BY <3>1, <3>2
  <2>2. \A t \in Transfers : BookedOf(d)[t] \in Int
    BY <1>1, SummandTypes
  <2>3. SumFunctionOnSet(BookedOf(d)', Transfers) = SumFunctionOnSet(BookedOf(d), Transfers)
    BY <2>1, <2>2, Finite, SumEqual
  <2>4. LedgerNet(d)' = SumFunctionOnSet(BookedOf(d)', Transfers)
    BY DEF LedgerNet, BookedOf
  <2> QED BY <2>3, <2>4, NetsAreSums
<1>4. ASSUME NEW d \in Drivers PROVE MovedNet(d)' = MovedNet(d)
  <2>1. ASSUME NEW o \in Orders PROVE MovedOf(d)'[o] = MovedOf(d)[o]
    BY Finite DEF MovedOf
  <2>2. \A o \in Orders : MovedOf(d)[o] \in Int
    BY <1>1, SummandTypes
  <2>3. SumFunctionOnSet(MovedOf(d)', Orders) = SumFunctionOnSet(MovedOf(d), Orders)
    BY <2>1, <2>2, Finite, SumEqual
  <2>4. MovedNet(d)' = SumFunctionOnSet(MovedOf(d)', Orders)
    BY DEF MovedNet, MovedOf
  <2> QED BY <2>3, <2>4, NetsAreSums
<1>5. \A t \in Transfers : ledger'[t] = IF transfer'[t].status = "COMPLETED" THEN 1 ELSE 0
  BY <1>2
<1>6. \A d \in Drivers : LedgerNet(d)' = MovedNet(d)'
  BY <1>3, <1>4 DEF Balanced
<1> QED BY <1>5, <1>6 DEF Balanced

\* Finalising books the transfer once and moves all its orders.
LEMMA FinalizeBalances ==
    ASSUME TransferInv, TransferInv', Balanced, ~overlapped,
           NEW s \in Sessions, CommitFinalize(s)
    PROVE  Balanced'
<1>0. /\ session[s].op = "finalize" /\ Checked(session[s]) /\ RequestOK(session[s])
      /\ ~reassigned /\ KeepsOrigin(session[s])
      /\ TransferTypeOK /\ session[s].orders \in SUBSET Orders /\ ledger \in [Transfers -> Nat]
      /\ transfer \in [Transfers -> TransferRow] /\ order \in [Orders -> OrderRow]
  BY RowTypes DEF TransferInv, OriginKept, CommitFinalize
<1>a. PICK t \in Transfers : t = session[s].id
  BY <1>0 DEF RequestOK
<1>b. PICK S \in SUBSET Orders : S = session[s].orders
  BY <1>0
<1>c. PICK source : source = transfer[t].source
  OBVIOUS
<1>d. PICK target : target = transfer[t].target
  OBVIOUS
<1>e. PICK from : from = session[s].from
  OBVIOUS
<1> DEFINE A == SumFunctionOnSet(Total, S)
           first(o) == FirstSource(from[o], source)
<1>1. /\ order' = [o \in Orders |-> IF o \in S
                      THEN [order[o] EXCEPT !.driver = target, !.from = first(o)]
                      ELSE order[o]]
      /\ ledger' = [ledger EXCEPT ![t] = ledger[t] + 1]
      /\ transfer' = [transfer EXCEPT ![t].status = "COMPLETED"]
  BY <1>a, <1>b, <1>c, <1>d, <1>e DEF CommitFinalize
<1>2. /\ ~reassigned /\ TransferTypeOK /\ ledger \in [Transfers -> Nat]
      /\ transfer \in [Transfers -> TransferRow] /\ order \in [Orders -> OrderRow]
  BY <1>0
<1>3. /\ t \in Transfers /\ transfer[t].status = "AWAITING_SIGNATURES"
      /\ S = transfer[t].orders /\ A \in Nat
      /\ \A o \in S : order[o].driver = source /\ first(o) = OriginalDriver(o) /\ first(o) \in Drivers
  <2>1. /\ t \in Transfers /\ transfer[t].status = "AWAITING_SIGNATURES"
        /\ S = transfer[t].orders /\ \A o \in S : order[o].driver = source
    BY <1>0, <1>a, <1>b, <1>c DEF Checked, Owes
  <2>2. \A o \in S : first(o) = OriginalDriver(o) /\ first(o) \in Drivers
    BY <1>0, <1>a, <1>b, <1>c, <1>e, RowTypes DEF KeepsOrigin
  <2> QED BY <2>1, <2>2, AmountNat
<1> HIDE DEF A, first
<1>4. /\ \A o \in Orders \ S : order'[o] = order[o]
      /\ \A o \in S : order'[o].driver = target /\ order'[o].from = first(o)
  BY <1>1, <1>2 DEF OrderRow
<1>5. \A o \in Orders : OriginalDriver(o)' = OriginalDriver(o)
  BY <1>2, <1>3, <1>4, TransferAssumption DEF OriginalDriver
<1>6. /\ \A u \in Transfers : /\ transfer'[u].orders = transfer[u].orders
                              /\ transfer'[u].source = transfer[u].source
                              /\ transfer'[u].target = transfer[u].target
                              /\ u # t => transfer'[u] = transfer[u] /\ ledger'[u] = ledger[u]
      /\ transfer'[t].status = "COMPLETED" /\ ledger[t] = 0 /\ ledger'[t] = 1
  <2>1. \A u \in Transfers : ledger[u] = IF transfer[u].status = "COMPLETED" THEN 1 ELSE 0
    BY DEF Balanced
  <2>2. ledger[t] = 0
    BY <1>3, <2>1
  <2>3. ledger'[t] = 1 /\ \A u \in Transfers : u # t => ledger'[u] = ledger[u]
    <3>1. ledger' = [ledger EXCEPT ![t] = ledger[t] + 1] /\ ledger \in [Transfers -> Nat]
      BY <1>1, <1>2
    <3> QED BY <2>2, <3>1
  <2>4. /\ transfer'[t].status = "COMPLETED"
        /\ \A u \in Transfers : /\ transfer'[u].orders = transfer[u].orders
                                /\ transfer'[u].source = transfer[u].source
                                /\ transfer'[u].target = transfer[u].target
                                /\ u # t => transfer'[u] = transfer[u]
    BY <1>1, <1>2, <1>3 DEF TransferRow
  <2> QED BY <2>2, <2>3, <2>4
<1>7. AmountOf(t) = A /\ AmountOf(t)' = A
  BY <1>3, <1>6 DEF AmountOf, A
<1>8. ASSUME NEW d \in Drivers
      PROVE  LedgerNet(d)' = LedgerNet(d) + ((IF target = d THEN A ELSE 0) - (IF source = d THEN A ELSE 0))
  <2> DEFINE f == BookedOf(d)
             g == BookedOf(d)'
  <2>1. f[t] = 0 /\ g[t] = (IF target = d THEN A ELSE 0) - (IF source = d THEN A ELSE 0)
    <3>1. ledger[t] * AmountOf(t) = 0 /\ ledger'[t] * AmountOf(t)' = A
      BY <1>3, <1>6, <1>7
    <3>2. f[t] = 0
      BY <1>3, <3>1 DEF BookedOf
    <3>3. g[t] = (IF transfer'[t].target = d THEN ledger'[t] * AmountOf(t)' ELSE 0)
                 - (IF transfer'[t].source = d THEN ledger'[t] * AmountOf(t)' ELSE 0)
      BY <1>3 DEF BookedOf
    <3> QED BY <1>6, <1>c, <1>d, <3>1, <3>2, <3>3
  <2>2. \A u \in Transfers : f[u] \in Int
    BY <1>2, SummandTypes
  <2>3. \A u \in Transfers \ {t} : g[u] = f[u]
    BY <1>6 DEF BookedOf, AmountOf
  <2>4. LedgerNet(d)' = SumFunctionOnSet(g, Transfers) /\ LedgerNet(d) = SumFunctionOnSet(f, Transfers)
    BY DEF LedgerNet, BookedOf
  <2> HIDE DEF f, g
  <2>5. \A u \in Transfers : g[u] \in Int
    BY <1>3, <2>1, <2>2, <2>3
  <2>6. SumFunctionOnSet(g, Transfers) = SumFunctionOnSet(f, Transfers) + (g[t] - f[t])
    BY <1>3, <2>2, <2>3, <2>5, Finite, SumChange
  <2>7. g[t] - f[t] = (IF target = d THEN A ELSE 0) - (IF source = d THEN A ELSE 0)
    BY <1>3, <2>1
  <2> QED BY <2>4, <2>6, <2>7
<1>9. ASSUME NEW d \in Drivers
      PROVE  MovedNet(d)' = MovedNet(d) + ((IF target = d THEN A ELSE 0) - (IF source = d THEN A ELSE 0))
  <2> DEFINE f == MovedOf(d)
             g == MovedOf(d)'
             into == [o \in Orders |-> IF o \in S /\ target = d THEN Total[o] ELSE 0]
             out == [o \in Orders |-> IF o \in S /\ source = d THEN Total[o] ELSE 0]
             delta == [o \in Orders |-> into[o] - out[o]]
  <2>1. \A o \in Orders : f[o] \in Int
    BY <1>2, SummandTypes
  <2>2. ASSUME NEW o \in Orders PROVE g[o] = f[o] + delta[o]
    <3>1. g[o] = (IF order'[o].driver = d THEN Total[o] ELSE 0) - (IF OriginalDriver(o)' = d THEN Total[o] ELSE 0)
      BY DEF MovedOf
    <3>2. f[o] = (IF order[o].driver = d THEN Total[o] ELSE 0) - (IF OriginalDriver(o) = d THEN Total[o] ELSE 0)
      BY DEF MovedOf
    <3>3. OriginalDriver(o)' = OriginalDriver(o) /\ Total[o] \in Nat
      BY <1>5, Finite
    <3>4. CASE o \in S
      BY <1>3, <1>4, <3>1, <3>2, <3>3, <3>4
    <3>5. CASE o \notin S
      BY <1>4, <3>1, <3>2, <3>3, <3>5
    <3> QED BY <3>4, <3>5
  <2>3. MovedNet(d)' = SumFunctionOnSet(g, Orders) /\ MovedNet(d) = SumFunctionOnSet(f, Orders)
    BY DEF MovedNet, MovedOf
  <2>4. \A o \in Orders : into[o] \in Int /\ out[o] \in Int /\ delta[o] = into[o] - out[o] /\ delta[o] \in Int
    BY Finite
  <2> HIDE DEF f, g
  <2>5. SumFunctionOnSet(g, Orders) = SumFunctionOnSet(f, Orders) + SumFunctionOnSet(delta, Orders)
    <3> HIDE DEF delta
    <3> QED BY <2>1, <2>2, <2>4, Finite, SumPlus
  <2>6. SumFunctionOnSet(delta, Orders) = SumFunctionOnSet(into, Orders) - SumFunctionOnSet(out, Orders)
    <3> HIDE DEF delta, into, out
    <3> QED BY <2>4, Finite, SumMinus
  <2>7. S \in SUBSET Orders /\ IsFiniteSet(S)
    BY Finite, FS_Subset
  <2>8. /\ SumFunctionOnSet(into, Orders) = SumFunctionOnSet(into, S)
        /\ SumFunctionOnSet(out, Orders) = SumFunctionOnSet(out, S)
    <3>1. \A o \in Orders \ S : into[o] = 0 /\ out[o] = 0
      OBVIOUS
    <3> HIDE DEF into, out
    <3> QED BY <2>4, <2>7, <3>1, Finite, SumWithin
  <2>9. SumFunctionOnSet(into, S) = IF target = d THEN A ELSE 0
    <3>1. CASE target = d
      <4>1. \A o \in S : Total[o] \in Int /\ into[o] = Total[o]
        BY <2>7, <3>1, Finite
      <4> HIDE DEF into
      <4> QED BY <2>7, <3>1, <4>1, SumEqual DEF A
    <3>2. CASE target # d
      <4>1. \A o \in S : into[o] = 0
        BY <2>7, <3>2
      <4> HIDE DEF into
      <4> QED BY <2>7, <3>2, <4>1, SumZero
    <3> QED BY <3>1, <3>2
  <2>10. SumFunctionOnSet(out, S) = IF source = d THEN A ELSE 0
    <3>1. CASE source = d
      <4>1. \A o \in S : Total[o] \in Int /\ out[o] = Total[o]
        BY <2>7, <3>1, Finite
      <4> HIDE DEF out
      <4> QED BY <2>7, <3>1, <4>1, SumEqual DEF A
    <3>2. CASE source # d
      <4>1. \A o \in S : out[o] = 0
        BY <2>7, <3>2
      <4> HIDE DEF out
      <4> QED BY <2>7, <3>2, <4>1, SumZero
    <3> QED BY <3>1, <3>2
  <2> HIDE DEF into, out, delta
  <2> QED BY <2>3, <2>5, <2>6, <2>8, <2>9, <2>10
<1>10. \A u \in Transfers : ledger'[u] = IF transfer'[u].status = "COMPLETED" THEN 1 ELSE 0
  BY <1>6 DEF Balanced
<1>11. \A d \in Drivers : LedgerNet(d)' = MovedNet(d)'
  BY <1>8, <1>9 DEF Balanced
<1> QED BY <1>10, <1>11 DEF Balanced

\* Every other step of the transfers leaves both figures alone.
LEMMA BalancedStep ==
    ASSUME TransferInv, TransferInv', Balanced,
           \/ TransferNext
           \/ \E o \in Orders, cash \in {"NONE", "PAID_TO_DRIVER"} : Complete(o, cash)
           \/ UNCHANGED transferVars
    PROVE  Balanced'
<1> SUFFICES ASSUME ~overlapped' PROVE Balanced'
  BY DEF Balanced
<1>1. ~overlapped
  BY DEF TransferNext, Abort, End, BeginAssign, CommitAssign, BeginCreate, CommitCreate, BeginFinalize,
         CommitFinalize, BeginCancel, CommitCancel, BeginHandover, CommitHandover, SignAsSource,
         SignAsTarget, Complete, Begin, history, transferVars
<1>2. /\ order \in [Orders -> OrderRow] /\ transfer \in [Transfers -> TransferRow]
      /\ OrdersOK /\ \A s \in Sessions : Checked(session[s]) /\ RequestOK(session[s])
  BY <1>1, RowTypes
<1>3. CASE UNCHANGED <<order, transfer, ledger>>
  BY <1>1, <1>3, BooksUntouched DEF OriginalDriver
<1>4. ASSUME NEW s \in Sessions, CommitAssign(s) PROVE Balanced'
  <2>1. /\ UNCHANGED <<transfer, ledger>>
        /\ order' = [o \in Orders |-> IF o \in session[s].orders
                        THEN [order[o] EXCEPT !.driver = session[s].driver] ELSE order[o]]
        /\ \A o \in session[s].orders : order[o].status = "OPEN"
    BY <1>2, <1>4 DEF CommitAssign, Checked
  <2>2. ASSUME NEW o \in Orders
        PROVE  \/ order'[o].driver = order[o].driver /\ OriginalDriver(o)' = OriginalDriver(o)
               \/ order[o].driver = OriginalDriver(o) /\ order'[o].driver = OriginalDriver(o)'
    <3>1. CASE o \in session[s].orders
      <4>1. order[o].from = NoDriver /\ order'[o].from = NoDriver
        BY <1>2, <2>1, <3>1 DEF OrdersOK, OrderRow
      <4> QED BY <4>1 DEF OriginalDriver
    <3>2. CASE o \notin session[s].orders
      BY <2>1, <3>2 DEF OriginalDriver
    <3> QED BY <3>1, <3>2
  <2> QED BY <1>1, <2>1, <2>2, BooksUntouched
<1>5. ASSUME NEW s \in Sessions, NEW t \in Transfers, CommitCreate(s, t) PROVE Balanced'
  <2>1. /\ UNCHANGED <<order, ledger>> /\ transfer[t].status = "ABSENT"
        /\ transfer'[t].status = "AWAITING_SIGNATURES"
        /\ \A u \in Transfers \ {t} : transfer'[u] = transfer[u]
    BY <1>2, <1>5 DEF CommitCreate, NoTransfer
  <2> QED BY <1>1, <2>1, BooksUntouched DEF OriginalDriver
<1>6. ASSUME NEW s \in Sessions, CommitCancel(s) PROVE Balanced'
  <2>1. PICK t \in Transfers : t = session[s].id
    BY <1>2, <1>6 DEF CommitCancel, RequestOK
  <2>2. /\ UNCHANGED <<order, ledger>> /\ transfer[t].status = "AWAITING_SIGNATURES"
        /\ transfer' = [transfer EXCEPT ![t].status = "CANCELLED"]
    BY <1>2, <1>6, <2>1 DEF CommitCancel, Checked
  <2>3. /\ transfer'[t].status = "CANCELLED"
        /\ \A u \in Transfers \ {t} : transfer'[u] = transfer[u]
    BY <1>2, <2>2 DEF TransferRow
  <2> QED BY <1>1, <2>2, <2>3, BooksUntouched DEF OriginalDriver
<1>7. ASSUME NEW s \in Sessions, CommitHandover(s) PROVE Balanced'
  <2>1. UNCHANGED <<transfer, ledger>> /\ \A o \in Orders : /\ order'[o].driver = order[o].driver
                                                            /\ order'[o].from = order[o].from
    BY <1>2, <1>7 DEF CommitHandover, OrderRow
  <2> QED BY <1>1, <2>1, BooksUntouched DEF OriginalDriver
<1>8. ASSUME NEW t \in Transfers, SignAsSource(t) \/ SignAsTarget(t) PROVE Balanced'
  <2>1. UNCHANGED <<order, ledger>>
    BY <1>8 DEF SignAsSource, SignAsTarget
  <2>2. \A u \in Transfers : /\ transfer'[u].status = transfer[u].status
                             /\ transfer'[u].orders = transfer[u].orders
                             /\ transfer'[u].source = transfer[u].source
                             /\ transfer'[u].target = transfer[u].target
    <3>1. CASE SignAsSource(t)
      BY <1>2, <3>1 DEF SignAsSource, TransferRow
    <3>2. CASE SignAsTarget(t)
      BY <1>2, <3>2 DEF SignAsTarget, TransferRow
    <3> QED BY <1>8, <3>1, <3>2
  <2> QED BY <1>1, <2>1, <2>2, BooksUntouched DEF OriginalDriver
<1>9. ASSUME NEW o \in Orders, NEW cash, Complete(o, cash) PROVE Balanced'
  <2>1. UNCHANGED <<transfer, ledger>> /\ \A p \in Orders : /\ order'[p].driver = order[p].driver
                                                            /\ order'[p].from = order[p].from
    BY <1>2, <1>9 DEF Complete, OrderRow
  <2> QED BY <1>1, <2>1, BooksUntouched DEF OriginalDriver
<1>10. ASSUME NEW s \in Sessions, CommitFinalize(s) PROVE Balanced'
  BY <1>1, <1>10, FinalizeBalances
<1>11. CASE \E s \in Sessions :
           \/ Abort(s)
           \/ \E o \in Orders, d \in Drivers : BeginAssign(s, o, d)
           \/ \E source, target \in Drivers, orders \in SUBSET Orders :
                 BeginCreate(s, source, target, orders)
           \/ \E t \in Transfers : BeginFinalize(s, t) \/ BeginCancel(s, t)
           \/ \E d \in Drivers : BeginHandover(s, d)
  BY <1>3, <1>11 DEF Abort, BeginAssign, BeginCreate, BeginFinalize, BeginCancel, BeginHandover, Begin
<1>12. CASE UNCHANGED transferVars
  BY <1>3, <1>12 DEF transferVars
<1> QED BY <1>4, <1>5, <1>6, <1>7, <1>8, <1>9, <1>10, <1>11, <1>12 DEF TransferNext

\* The balancing ledger rows of every driver add up to the orders that really
\* moved to or from that driver, and no order is in two live transfers, as long as
\* requests do not overlap: finalize books a transfer once and moves all its
\* orders, and nothing else moves a completed order.
THEOREM LedgerBalances == Spec => []LedgerFollowsOrders
<1>1. Init => Balanced
  <2> SUFFICES ASSUME Init PROVE Balanced
    OBVIOUS
  <2>1. ASSUME NEW d \in Drivers PROVE LedgerNet(d) = 0
    <3>1. ASSUME NEW t \in Transfers PROVE BookedOf(d)[t] = 0
      <4>1. AmountOf(t) \in Nat /\ ledger[t] = 0
        BY AmountNat DEF Init, TransferInit, AmountOf, NoTransfer
      <4>2. ledger[t] * AmountOf(t) = 0
        BY <4>1
      <4> QED BY <4>2 DEF BookedOf
    <3> QED BY <3>1, Finite, SumZero, NetsAreSums
  <2>2. ASSUME NEW d \in Drivers PROVE MovedNet(d) = 0
    <3>1. ASSUME NEW o \in Orders PROVE MovedOf(d)[o] = 0
      <4>1. order[o].from = NoDriver
        BY DEF Init, TransferInit
      <4> QED BY <4>1, Finite DEF MovedOf, OriginalDriver
    <3> QED BY <3>1, Finite, SumZero, NetsAreSums
  <2>3. \A t \in Transfers : ledger[t] = 0 /\ transfer[t].status = "ABSENT"
    BY DEF Init, TransferInit, NoTransfer
  <2> QED BY <2>1, <2>2, <2>3 DEF Balanced
<1>2. CInv /\ CInv' /\ Balanced /\ [Next]_vars => Balanced'
  <2> SUFFICES ASSUME CInv, CInv', Balanced, [Next]_vars PROVE Balanced'
    OBVIOUS
  <2>1. \/ TransferNext
        \/ \E o \in Orders, cash \in {"NONE", "PAID_TO_DRIVER"} : Complete(o, cash)
        \/ UNCHANGED transferVars
    BY DEF Next, CompleteOrder, CollectDebt, TickScan, TickMissed, ScanEndOfMonth, vars
  <2> QED BY <2>1, BalancedStep DEF CInv
<1>3. CInv /\ Balanced => LedgerFollowsOrders
  BY DEF CInv, TransferInv, Serial, Balanced, LedgerFollowsOrders
<1> QED BY <1>1, <1>2, <1>3, CInvInit, CInvNext, PTL DEF Spec
=============================================================================
