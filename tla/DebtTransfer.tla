---------------------------- MODULE DebtTransfer ----------------------------
(***************************************************************************)
(* Handing a driver's uncollected cash debt to another driver:             *)
(*   debt-transfers/debt-transfers.service.ts   create, signAsSource,      *)
(*                                  signAsTarget, finalize, cancel         *)
(* together with what else decides whose debt an order is:                 *)
(*   orders/orders.service.ts       assignDriver, while it is not completed*)
(*   finance/services/cash.service.ts   confirmHandover, which takes the   *)
(*                                  cash of all orders of a driver         *)
(*                                                                         *)
(* A handler checks what it read and writes later; no handler here locks   *)
(* the rows it checks, so a handler is cut between its reads and its       *)
(* writes.  The writes of one transaction are one step.                    *)
(***************************************************************************)
EXTENDS Integers, FiniteSets, FiniteSetsExt

CONSTANTS
    Orders,       \* invoices
    Drivers,
    MaxTransfers, \* transfers ever drafted (bound)
    Total,        \* the invoice total of each order
    Sessions,     \* requests served at the same time
    Operations,   \* which operations this deployment exercises
    NoDriver

Transfers == 1 .. MaxTransfers

AllOperations == {"assign", "create", "finalize", "cancel", "handover"}

ASSUME TransferAssumption ==
    /\ MaxTransfers \in Nat
    /\ IsFiniteSet(Orders) /\ IsFiniteSet(Drivers)
    /\ Total \in [Orders -> Nat]
    /\ Operations \subseteq AllOperations
    /\ NoDriver \notin Drivers

VARIABLES
    order,     \* Order rows: status, driverId, transferredFromDriverId, cashStatus,
               \* and the driver whose custody bag took the cash
    transfer,  \* DebtTransfer rows with their orders
    ledger,    \* DEBT_ADJUSTMENT pairs (OUT and IN) per transfer
    session,   \* what each request has read
    overlapped, \* history: two requests have run at the same time
    reassigned  \* history: assignDriver has moved a completed order

history == <<overlapped, reassigned>>
transferVars == <<order, transfer, ledger, session, history>>

NoTransfer == [status |-> "ABSENT", source |-> NoDriver, target |-> NoDriver,
               orders |-> {}, sourceSigned |-> FALSE, targetSigned |-> FALSE]
Idle == [op |-> "idle", id |-> 0, driver |-> NoDriver, target |-> NoDriver,
         orders |-> {}, from |-> [o \in {} |-> NoDriver]]

OrderRow == [status : {"OPEN", "COMPLETED"}, driver : Drivers,
             from : Drivers \cup {NoDriver},
             cash : {"NONE", "PAID_TO_DRIVER", "HANDED_OVER"},
             bag : Drivers \cup {NoDriver}]
TransferRow == [status : {"ABSENT", "AWAITING_SIGNATURES", "COMPLETED", "CANCELLED"},
                source : Drivers \cup {NoDriver}, target : Drivers \cup {NoDriver},
                orders : SUBSET Orders,
                sourceSigned : BOOLEAN, targetSigned : BOOLEAN]

TransferInit ==
    /\ order \in [Orders -> {r \in OrderRow : r.status = "OPEN" /\ r.from = NoDriver
                                              /\ r.cash = "NONE" /\ r.bag = NoDriver}]
    /\ transfer = [t \in Transfers |-> NoTransfer]
    /\ ledger = [t \in Transfers |-> 0]
    /\ session = [s \in Sessions |-> Idle]
    /\ overlapped = FALSE
    /\ reassigned = FALSE

-----------------------------------------------------------------------------
(* Requests *)

Active(s) == session[s].op # "idle"

\* A request has done its reads and checks; `request` is what it remembers.
Begin(s, op, request) ==
    /\ op \in Operations
    /\ ~Active(s)
    /\ session' = [session EXCEPT ![s] = request]
    /\ overlapped' = (overlapped \/ \E r \in Sessions : Active(r))
    /\ UNCHANGED <<order, transfer, ledger, reassigned>>

End(s) ==
    /\ session' = [session EXCEPT ![s] = Idle]
    /\ UNCHANGED overlapped

\* An exception, a timeout or a crash before the writes.
Abort(s) ==
    /\ Active(s)
    /\ End(s)
    /\ UNCHANGED <<order, transfer, ledger, reassigned>>

\* A driver completes an order: the driver holds its cash, or the customer owes it.
Complete(o, cash) ==
    /\ order[o].status = "OPEN"
    /\ order' = [order EXCEPT ![o].status = "COMPLETED", ![o].cash = cash]
    /\ overlapped' = (overlapped \/ \E s \in Sessions : Active(s))
    /\ UNCHANGED <<transfer, ledger, session, reassigned>>

BeginAssign(s, o, d) ==
    /\ order[o].status = "OPEN"
    /\ Begin(s, "assign", [Idle EXCEPT !.op = "assign", !.orders = {o}, !.driver = d])

\* The UPDATE names the order only: its status is not looked at again.
CommitAssign(s) ==
    /\ session[s].op = "assign"
    /\ order' = [o \in Orders |-> IF o \in session[s].orders
                                  THEN [order[o] EXCEPT !.driver = session[s].driver]
                                  ELSE order[o]]
    /\ reassigned' = (reassigned \/ \E o \in session[s].orders : order[o].status = "COMPLETED")
    /\ End(s)
    /\ UNCHANGED <<transfer, ledger>>

-----------------------------------------------------------------------------
(* Transfers *)

\* COMPLETED, PAID_TO_DRIVER and with driver d.
Owes(o, d) ==
    /\ order[o].driver = d
    /\ order[o].status = "COMPLETED"
    /\ order[o].cash = "PAID_TO_DRIVER"

\* The transfer holds on to the order: it is open or was finalised.
Locks(t, o) ==
    o \in transfer[t].orders /\ transfer[t].status \in {"AWAITING_SIGNATURES", "COMPLETED"}

BeginCreate(s, source, target, orders) ==
    /\ source # target
    /\ orders # {}
    /\ \A o \in orders : Owes(o, source)
    /\ \A o \in orders, t \in Transfers : ~Locks(t, o)
    /\ Begin(s, "create", [Idle EXCEPT !.op = "create", !.driver = source,
                                !.target = target, !.orders = orders])

CommitCreate(s, t) ==
    /\ session[s].op = "create"
    /\ transfer[t].status = "ABSENT"
    /\ \A u \in Transfers : u < t => transfer[u].status # "ABSENT"
    /\ transfer' = [transfer EXCEPT ![t] =
                        [NoTransfer EXCEPT !.status = "AWAITING_SIGNATURES",
                             !.source = session[s].driver, !.target = session[s].target,
                             !.orders = session[s].orders]]
    /\ End(s)
    /\ UNCHANGED <<order, ledger, reassigned>>

\* The stamp is only ever set, and nobody else reads it before it is: one step.
SignAsSource(t) ==
    /\ transfer[t].status = "AWAITING_SIGNATURES"
    /\ ~transfer[t].sourceSigned
    /\ transfer' = [transfer EXCEPT ![t].sourceSigned = TRUE]
    /\ UNCHANGED <<order, ledger, session, history>>

SignAsTarget(t) ==
    /\ transfer[t].status = "AWAITING_SIGNATURES"
    /\ ~transfer[t].targetSigned
    /\ transfer' = [transfer EXCEPT ![t].targetSigned = TRUE]
    /\ UNCHANGED <<order, ledger, session, history>>

\* Mutant: the orders are not validated again.
BeginFinalize_Unchecked(s, t) ==
    /\ transfer[t].status = "AWAITING_SIGNATURES"
    /\ transfer[t].sourceSigned /\ transfer[t].targetSigned
    /\ Begin(s, "finalize", [Idle EXCEPT !.op = "finalize", !.id = t,
                                  !.orders = transfer[t].orders,
                                  !.from = [o \in transfer[t].orders |-> order[o].from]])

\* finalize reads the transfer and its orders and checks both again.
BeginFinalize(s, t) ==
    /\ transfer[t].status = "AWAITING_SIGNATURES"
    /\ transfer[t].sourceSigned /\ transfer[t].targetSigned
    /\ \A o \in transfer[t].orders : Owes(o, transfer[t].source)
    /\ Begin(s, "finalize", [Idle EXCEPT !.op = "finalize", !.id = t,
                                  !.orders = transfer[t].orders,
                                  !.from = [o \in transfer[t].orders |-> order[o].from]])

\* transferredFromDriverId ?? sourceDriverId
FirstSource(seen, source) == IF seen = NoDriver THEN source ELSE seen

\* Mutant: the orders are stamped but stay with the source driver.
CommitFinalize_KeepsDriver(s) ==
    LET t == session[s].id
    IN  /\ session[s].op = "finalize"
        /\ order' = [o \in Orders |->
                       IF o \in session[s].orders
                       THEN [order[o] EXCEPT !.from = transfer[t].source]
                       ELSE order[o]]
        /\ ledger' = [ledger EXCEPT ![t] = @ + 1]
        /\ transfer' = [transfer EXCEPT ![t].status = "COMPLETED"]
        /\ End(s)
        /\ UNCHANGED reassigned

\* The orders move, the two ledger rows are appended, the transfer is COMPLETED.
CommitFinalize(s) ==
    LET t == session[s].id
    IN  /\ session[s].op = "finalize"
        /\ order' = [o \in Orders |->
                       IF o \in session[s].orders
                       THEN [order[o] EXCEPT !.driver = transfer[t].target,
                               !.from = FirstSource(session[s].from[o], transfer[t].source)]
                       ELSE order[o]]
        /\ ledger' = [ledger EXCEPT ![t] = @ + 1]
        /\ transfer' = [transfer EXCEPT ![t].status = "COMPLETED"]
        /\ End(s)
        /\ UNCHANGED reassigned

\* cancel checks the status and then updates by id, outside of a transaction.
BeginCancel(s, t) ==
    /\ transfer[t].status = "AWAITING_SIGNATURES"
    /\ Begin(s, "cancel", [Idle EXCEPT !.op = "cancel", !.id = t])

CommitCancel(s) ==
    /\ session[s].op = "cancel"
    /\ transfer' = [transfer EXCEPT ![session[s].id].status = "CANCELLED"]
    /\ End(s)
    /\ UNCHANGED <<order, ledger, reassigned>>

-----------------------------------------------------------------------------
(* confirmHandover: all the cash a driver holds goes into one custody bag. *)

BeginHandover(s, d) ==
    /\ \E o \in Orders : Owes(o, d)
    /\ Begin(s, "handover", [Idle EXCEPT !.op = "handover", !.driver = d,
                                  !.orders = {o \in Orders : Owes(o, d)}])

\* updateMany asks for cashStatus again, not for the driver; fewer rows than
\* were read is a ConflictException (Abort).
CommitHandover(s) ==
    /\ session[s].op = "handover"
    /\ \A o \in session[s].orders : order[o].cash = "PAID_TO_DRIVER"
    /\ order' = [o \in Orders |->
                   IF o \in session[s].orders
                   THEN [order[o] EXCEPT !.cash = "HANDED_OVER", !.bag = session[s].driver]
                   ELSE order[o]]
    /\ End(s)
    /\ UNCHANGED <<transfer, ledger, reassigned>>

TransferNext ==
    \/ \E s \in Sessions :
        \/ Abort(s)
        \/ \E o \in Orders, d \in Drivers : BeginAssign(s, o, d)
        \/ CommitAssign(s)
        \/ \E source, target \in Drivers, orders \in SUBSET Orders :
              BeginCreate(s, source, target, orders)
        \/ \E t \in Transfers : CommitCreate(s, t) \/ BeginFinalize(s, t) \/ BeginCancel(s, t)
        \/ CommitFinalize(s) \/ CommitCancel(s)
        \/ \E d \in Drivers : BeginHandover(s, d)
        \/ CommitHandover(s)
    \/ \E t \in Transfers : SignAsSource(t) \/ SignAsTarget(t)

\* The transfers by themselves: what module Commissions is built on.
TransferSpec ==
    /\ TransferInit
    /\ [][TransferNext \/ \E o \in Orders, cash \in {"NONE", "PAID_TO_DRIVER"} : Complete(o, cash)]_transferVars

-----------------------------------------------------------------------------
(* Properties *)

SessionRow == [op : {"idle"} \cup AllOperations, id : Transfers \cup {0},
               driver : Drivers \cup {NoDriver}, target : Drivers \cup {NoDriver},
               orders : SUBSET Orders,
               from : UNION {[S -> Drivers \cup {NoDriver}] : S \in SUBSET Orders}]

\* Every row keeps its type (schema.prisma: Order, DebtTransfer).
TransferTypeOK ==
    /\ order \in [Orders -> OrderRow]
    /\ transfer \in [Transfers -> TransferRow]
    /\ ledger \in [Transfers -> Nat]
    /\ session \in [Sessions -> SessionRow]
    /\ overlapped \in BOOLEAN
    /\ reassigned \in BOOLEAN

\* Invariant 2 of the service: an order is attached to one transfer that is not
\* cancelled.  Overlapping drafts break it (create checks outside of the
\* transaction that inserts).
LockedOnce ==
    \A t, u \in Transfers, o \in Orders : Locks(t, o) /\ Locks(u, o) => t = u

\* The driver who first owed the order, whoever owes it now.
OriginalDriver(o) == IF order[o].from = NoDriver THEN order[o].driver ELSE order[o].from

AmountOf(t) == SumFunctionOnSet(Total, transfer[t].orders)

\* What the ledger says driver d took over, less what d passed on.
LedgerNet(d) ==
    SumFunctionOnSet([t \in Transfers |->
                        (IF transfer[t].target = d THEN ledger[t] * AmountOf(t) ELSE 0)
                        - (IF transfer[t].source = d THEN ledger[t] * AmountOf(t) ELSE 0)],
                     Transfers)

\* The same figure from the orders' own rows.
MovedNet(d) ==
    SumFunctionOnSet([o \in Orders |->
                        (IF order[o].driver = d THEN Total[o] ELSE 0)
                        - (IF OriginalDriver(o) = d THEN Total[o] ELSE 0)],
                     Orders)

\* Every order is in one live transfer, and the balancing ledger rows of every
\* driver add up to the orders that really moved to or from that driver: a transfer
\* is booked once and moves all its orders.  As long as requests do not overlap.
LedgerFollowsOrders ==
    ~overlapped => LockedOnce /\ \A d \in Drivers : LedgerNet(d) = MovedNet(d)

\* The cash of an order is handed over by the driver who owes it, so a custody
\* bag never holds cash of a debt that has moved to somebody else.  As long as
\* requests do not overlap.
CashFromDebtor ==
    ~overlapped => \A o \in Orders : order[o].cash = "HANDED_OVER"
                                     => order[o].bag = order[o].driver

=============================================================================
