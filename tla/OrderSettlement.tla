-------------------------- MODULE OrderSettlement --------------------------
(***************************************************************************)
(* How the invoices (Order rows) of one customer are created, completed,   *)
(* paid and settled against the customer's wallet, by handlers that run    *)
(* concurrently as PostgreSQL READ COMMITTED transactions:                 *)
(*   orders/orders.service.ts        createQuick, posCheckout, updateOrder *)
(*   common/services/payments.service.ts   finalizeSinglePaidOrderFrom-    *)
(*                                   Gateway, manuallyMarkOrderPaidByMethod*)
(*   customer-ledger/customer-ledger.service.ts  the wallet settlement, the*)
(*                                   prepaid auto-reconcile and the        *)
(*                                   call-center collection of a debt      *)
(*                                                                         *)
(* A handler is cut where another transaction can be seen: after its plain *)
(* reads (nothing is locked, the values may be stale when they are used),  *)
(* and after its first UPDATE of the order (the row is locked until the    *)
(* end).  The wallet's SELECT ... FOR UPDATE is the last statement that can*)
(* block, so everything from there to COMMIT is one step.                  *)
(*                                                                         *)
(* Amounts are in minor units.  The feature flags are those of production: *)
(* V20_4_FINAL_LEDGER (true accounting, the journal is the source).        *)
(***************************************************************************)
EXTENDS Integers, FiniteSets, FiniteSetsExt, Functions

CONSTANTS
    MaxOrders,      \* how many orders are ever created (bound)
    Txns,           \* the database sessions that serve requests and jobs
    Handlers,       \* which handlers this deployment exercises
    Amounts,        \* invoice totals
    PosMethods,     \* payment methods chosen when an order is created
    DeskMethods,    \* methods a call-center agent confirms
    StaffTargets,   \* statuses staff and drivers move orders to
    InitBalance,    \* prepaid wallet credit at the start
    ImmediateDebt,  \* the flag PAYMENT_LINK_IMMEDIATE_DEBT
    MaxPasses,      \* maxPasses of the auto-reconcile loop (50 in the code)
    MaxSales,       \* an order sold this often is not updated again (bound)
    NoTxn           \* "no session": the row is not locked

Orders == 1 .. MaxOrders
NoOrder == 0

Status == {"PENDING", "PICKED_UP", "IN_PROGRESS", "OUT_FOR_DELIVERY",
           "COMPLETED", "CANCELED"}
CashStatus == {"UNPAID", "PAID_TO_DRIVER", "PAID_ONLINE"}
LinkMethods == {"ONLINE", "PAYMENT_LINK"}
ExternalMethods == LinkMethods \cup {"CASH", "KNET"}
WalletMethods == {"SUBSCRIPTION_WALLET", "DEBT_ON_ACCOUNT"}
Methods == ExternalMethods \cup WalletMethods
AllHandlers == {"createQuick", "posCheckout", "updateOrder",
                "finalizeGateway", "manualMark", "autoReconcile"}

ASSUME ConstantsAssumption ==
    /\ MaxOrders \in Nat
    /\ Handlers \subseteq AllHandlers
    /\ Amounts \subseteq Nat \ {0}
    /\ PosMethods \subseteq Methods
    /\ DeskMethods \subseteq ExternalMethods
    /\ StaffTargets \subseteq Status
    /\ InitBalance \in Nat
    /\ ImmediateDebt \in BOOLEAN
    /\ MaxPasses \in Nat \ {0}
    /\ MaxSales \in Nat
    /\ NoTxn \notin Txns

VARIABLES
    order,       \* the committed Order rows
    wallet,      \* the CustomerWallet row: prepaid balance and debt
    journal,     \* the sourceRefs of the journal entries posted so far
    ar,          \* account 1300 (receivables) of the journal, net per order
    drawn,       \* account 2100 (wallet liability): credit applied to invoices
    history,     \* ORDER_WALLET_SETTLEMENT rows written when an order is settled
    collections, \* the rows written when a booked debt is collected at the desk
    sales,       \* POS_SALE_COMPLETED rows of the general ledger, per order
    stockOuts,   \* stock decrements, per order
    captured,    \* orders whose hosted payment page captured the money
    lock,        \* who holds each order's row lock
    tx           \* what each session is doing

books == <<journal, ar, drawn>>
vars == <<order, wallet, books, history, collections, sales, stockOuts,
          captured, lock, tx>>

Row == [status : Status \cup {"ABSENT"}, cash : CashStatus,
        method : Methods, settled : BOOLEAN, total : Nat]

NoRow == [status |-> "ABSENT", cash |-> "UNPAID", method |-> "CASH",
          settled |-> FALSE, total |-> 0]

EntryKinds == {"ISSUED", "RECEIVABLE", "ABSORBED", "EXTERNAL"}
Triggers == {"NONE", "WALLET_SETTLEMENT", "PAYMENT_LINK_CALLBACK",
             "CALL_CENTER_MANUAL", "CC_DEBT_INVOICE_PHYSICAL"}

SourceRef == [kind : EntryKinds, ord : Orders, method : Methods \cup {"NONE"},
              trigger : Triggers]

Idle == [pc |-> "idle", kind |-> "none", ord |-> NoOrder, seen |-> NoRow,
         arg |-> "none", due |-> 0]

Session == [pc : {"idle", "read", "claimed"}, kind : AllHandlers \cup {"none"},
            ord : Orders \cup {NoOrder}, seen : Row,
            arg : Methods \cup Status \cup {"none"}, due : Nat]

Init ==
    /\ order = [o \in Orders |-> NoRow]
    /\ wallet = [balance |-> InitBalance, debt |-> 0]
    /\ journal = {}
    /\ ar = [o \in Orders |-> 0]
    /\ drawn = 0
    /\ history = [o \in Orders |-> 0]
    /\ collections = [o \in Orders |-> 0]
    /\ sales = [o \in Orders |-> 0]
    /\ stockOuts = [o \in Orders |-> 0]
    /\ captured = {}
    /\ lock = [o \in Orders |-> NoTxn]
    /\ tx = [t \in Txns |-> Idle]

-----------------------------------------------------------------------------
(* The journal *)

Least(a, b) == IF a <= b THEN a ELSE b

Ref(kind, o) == [kind |-> kind, ord |-> o, method |-> "NONE", trigger |-> "NONE"]

PaymentRef(o, m, trigger) ==
    [kind |-> "EXTERNAL", ord |-> o, method |-> m, trigger |-> trigger]

\* appendBalanced is idempotent on sourceRef: an entry that is posted already
\* moves no account.
appendBalanced(ref, amount) == IF ref \in journal THEN 0 ELSE amount

\* computeOrderRemainingBalancesBatch: what the journal says is owed on an order.
Remaining(o) == IF order[o].status = "CANCELED" \/ ar[o] < 0 THEN 0 ELSE ar[o]

-----------------------------------------------------------------------------
(* The wallet settlement of a completed order *)

\* Mutant: a paid link is left to a later job to be marked.
cashStatus_LinkLater(m) ==
    CASE m \in {"CASH", "DEBT_ON_ACCOUNT"} -> "PAID_TO_DRIVER"
      [] m \in LinkMethods                -> "UNPAID"
      [] OTHER                            -> "PAID_ONLINE"

cashStatusForPaymentMethod(m) ==
    IF m \in {"CASH", "DEBT_ON_ACCOUNT"} THEN "PAID_TO_DRIVER" ELSE "PAID_ONLINE"

\* applyOrderWalletSettlementForCompletedOrder, from the wallet lock on.
\* total and m are the invoice's amount and resolved payment method; declared:
\* the caller passed debtSettled = total (a captured link or a call-center
\* confirmation).

\* safeTakeMinor: only the two wallet methods consume prepaid credit.
Take(total, m) == IF m \in WalletMethods THEN Least(wallet.balance, total) ELSE 0

\* newDebtMinor: what the wallet does not cover becomes debt, unless the
\* customer pays it by an external method.
DebtWithInvoice(total, m) ==
    wallet.debt + (IF m \in ExternalMethods THEN 0 ELSE total - Take(total, m))

\* debtPaydownFromSettlementMinor
Paydown(total, m, declared) ==
    LET debt == DebtWithInvoice(total, m)
        owed == IF debt > 0 THEN debt ELSE total - Take(total, m)
    IN  IF declared THEN Least(total, owed) ELSE 0

\* Mutant: hasImmediatePaymentLinkReceivable is not looked up.
Issued_Always(o, total, m) == appendBalanced(Ref("ISSUED", o), total)

\* appendInvoiceIssuanceEntry: DR receivables, CR revenue, unless the link's
\* receivable was registered when the order was created.
Issued(o, total, m) ==
    IF m \in LinkMethods /\ Ref("RECEIVABLE", o) \in journal
    THEN 0 ELSE appendBalanced(Ref("ISSUED", o), total)

\* Mutant: no absorption entry for debt on account.
Absorbed_SubscriptionOnly(o, total, m) ==
    appendBalanced(Ref("ABSORBED", o),
                   IF m = "SUBSCRIPTION_WALLET" THEN Take(total, m) ELSE 0)

\* appendWalletAbsorptionEntryV3: DR wallet liability, CR receivables.
Absorbed(o, total, m) == appendBalanced(Ref("ABSORBED", o), Take(total, m))

\* appendExternalPaymentEntry: DR cash or bank, CR receivables.
Received(o, total, m, declared, trigger) ==
    appendBalanced(PaymentRef(o, m, trigger),
        IF m \in ExternalMethods THEN total ELSE Paydown(total, m, declared))

\* The wallet a settlement leaves, the entries it posts and what they move.
Settlement(o, total, m, declared, trigger) ==
    LET debt == DebtWithInvoice(total, m)
        paydown == Paydown(total, m, declared)
        issued == Issued(o, total, m)
        absorbed == Absorbed(o, total, m)
        received == Received(o, total, m, declared, trigger)
    IN  [wallet |-> [balance |-> wallet.balance - Take(total, m),
                     debt |-> IF debt > paydown THEN debt - paydown ELSE 0],
         refs |-> (IF issued > 0 THEN {Ref("ISSUED", o)} ELSE {})
                  \cup (IF absorbed > 0 THEN {Ref("ABSORBED", o)} ELSE {})
                  \cup (IF received > 0 THEN {PaymentRef(o, m, trigger)} ELSE {}),
         ar |-> issued - absorbed - received,
         drawn |-> absorbed]

\* One settlement written to the database.
Settle(o, total, m, declared, trigger) ==
    LET s == Settlement(o, total, m, declared, trigger)
    IN  /\ wallet' = s.wallet
        /\ journal' = journal \cup s.refs
        /\ ar' = [ar EXCEPT ![o] = @ + s.ar]
        /\ drawn' = drawn + s.drawn
        /\ history' = [history EXCEPT ![o] = @ + 1]

NoSettlement == UNCHANGED <<wallet, books, history>>

-----------------------------------------------------------------------------
(* Sessions *)

Exists(o) == order[o].status # "ABSENT"

\* createdAt order: the next order takes the next identifier.
IsNext(o) == ~Exists(o) /\ \A p \in Orders : p < o => Exists(p)

Begin(t, kind, o, seen, arg, due) ==
    /\ kind \in Handlers
    /\ tx[t].pc = "idle"
    /\ tx' = [tx EXCEPT ![t] = [pc |-> "read", kind |-> kind, ord |-> o,
                                seen |-> seen, arg |-> arg, due |-> due]]

At(t, kind, pc) == tx[t].kind = kind /\ tx[t].pc = pc

\* Mutant: a handler that takes no row lock.
LockRow_NoWait(t, o) == lock' = [lock EXCEPT ![o] = t]

\* An UPDATE waits for the row lock, then keeps it.
LockRow(t, o) == lock[o] = NoTxn /\ lock' = [lock EXCEPT ![o] = t]

Claimed(t) == tx' = [tx EXCEPT ![t].pc = "claimed"]

Commit(t, o) ==
    /\ tx' = [tx EXCEPT ![t] = Idle]
    /\ lock' = [lock EXCEPT ![o] = NoTxn]

\* The end of a transaction that locked no order another session could see.
CommitUnlocked(t) == tx' = [tx EXCEPT ![t] = Idle] /\ UNCHANGED lock

\* Rollback: a timeout of the interactive transaction, a deadlock victim, a
\* thrown exception or a crash of the process.
Rollback(t) ==
    /\ tx[t].pc # "idle"
    /\ tx' = [tx EXCEPT ![t] = Idle]
    /\ lock' = [o \in Orders |-> IF lock[o] = t THEN NoTxn ELSE lock[o]]
    /\ UNCHANGED <<order, wallet, books, history, collections, sales,
                   stockOuts, captured>>

\* The order of a completed sale leaves the stock and enters the general ledger.
SaleWithStock(o) ==
    /\ sales' = [sales EXCEPT ![o] = @ + 1]
    /\ stockOuts' = [stockOuts EXCEPT ![o] = @ + 1]

-----------------------------------------------------------------------------
(* Creating orders *)

\* Mutant: the wallet's debt is left to the settlement.
RegisterReceivable_NoDebt(o, row) ==
    IF ImmediateDebt /\ row.method \in LinkMethods
    THEN /\ journal' = journal \cup {Ref("RECEIVABLE", o)}
         /\ ar' = [ar EXCEPT ![o] = @ + row.total]
         /\ UNCHANGED <<wallet, drawn>>
    ELSE UNCHANGED <<wallet, books>>

\* registerPendingPaymentLinkReceivableTx, under the flag: the customer owes a
\* link order from the moment it is created.
RegisterReceivable(o, row) ==
    IF ImmediateDebt /\ row.method \in LinkMethods
    THEN /\ wallet' = [wallet EXCEPT !.debt = @ + row.total]
         /\ journal' = journal \cup {Ref("RECEIVABLE", o)}
         /\ ar' = [ar EXCEPT ![o] = @ + appendBalanced(Ref("RECEIVABLE", o), row.total)]
         /\ UNCHANGED drawn
    ELSE UNCHANGED <<wallet, books>>

\* createQuick: a pending order, unpaid until somebody collects it.
CreateQuick(o, m, total) ==
    LET row == [status |-> "PENDING", cash |-> "UNPAID", method |-> m,
                settled |-> FALSE, total |-> total]
    IN  /\ "createQuick" \in Handlers
        /\ IsNext(o)
        /\ m # "SUBSCRIPTION_WALLET"
        /\ order' = [order EXCEPT ![o] = row]
        /\ RegisterReceivable(o, row)
        /\ UNCHANGED <<history, collections, sales, stockOuts, captured, lock, tx>>

\* posCheckout, up to the unlocked read of the wallet: a link method the prepaid
\* balance does not cover becomes a hosted link, anything else is sold at once.
BeginCheckout(t, m, total) ==
    LET hosted == m \in LinkMethods /\ wallet.balance < total
        row == [status |-> IF hosted THEN "PENDING" ELSE "COMPLETED",
                cash |-> IF hosted THEN "UNPAID" ELSE cashStatusForPaymentMethod(m),
                method |-> m, settled |-> FALSE, total |-> total]
    IN  /\ Begin(t, "posCheckout", NoOrder, row, "none", 0)
        /\ UNCHANGED <<order, wallet, books, history, collections, sales,
                       stockOuts, captured, lock>>

CommitHostedCheckout(t, o) ==
    /\ At(t, "posCheckout", "read")
    /\ tx[t].seen.status = "PENDING"
    /\ IsNext(o)
    /\ order' = [order EXCEPT ![o] = tx[t].seen]
    /\ RegisterReceivable(o, tx[t].seen)
    /\ CommitUnlocked(t)
    /\ UNCHANGED <<history, collections, sales, stockOuts, captured>>

CommitInstantCheckout(t, o) ==
    LET row == tx[t].seen
    IN  /\ At(t, "posCheckout", "read")
        /\ row.status = "COMPLETED"
        /\ IsNext(o)
        /\ order' = [order EXCEPT ![o] = [row EXCEPT !.settled = TRUE]]
        /\ Settle(o, row.total, row.method, FALSE, "WALLET_SETTLEMENT")
        /\ SaleWithStock(o)
        /\ CommitUnlocked(t)
        /\ UNCHANGED <<collections, captured>>

-----------------------------------------------------------------------------
(* updateOrder: staff and drivers move an order along its pipeline *)

\* Mutant: a canceled order is picked up again.
Forward_Reopen(s) ==
    IF s \in {"PENDING", "CANCELED"} THEN {"PICKED_UP", "CANCELED"} ELSE {}

\* assertOrderStatusTransition (the order has a driver).
Forward(s) ==
    CASE s = "PENDING"          -> {"PICKED_UP", "CANCELED"}
      [] s = "PICKED_UP"        -> {"IN_PROGRESS", "CANCELED"}
      [] s = "IN_PROGRESS"      -> {"OUT_FOR_DELIVERY", "CANCELED"}
      [] s = "OUT_FOR_DELIVERY" -> {"COMPLETED", "CANCELED"}
      [] OTHER                  -> {}

\* transitionedToCompleted, by the status read before the transaction.
Completes(t) == tx[t].arg = "COMPLETED" /\ tx[t].seen.status # "COMPLETED"

\* The order is read, and the transition checked, before the transaction starts.
\* Sending the status the order has already is let through.
BeginUpdate(t, o, target) ==
    /\ Exists(o) /\ sales[o] < MaxSales
    /\ target \in Forward(order[o].status) \cup {order[o].status}
    /\ Begin(t, "updateOrder", o, order[o], target, 0)
    /\ UNCHANGED <<order, wallet, books, history, collections, sales,
                   stockOuts, captured, lock>>

\* The UPDATE has no condition on the row it finds.  (An order read as COMPLETED
\* is settled already, so repeating COMPLETED settles nothing.)
MoveOrder(t) ==
    LET o == tx[t].ord
    IN  /\ At(t, "updateOrder", "read")
        /\ ~Completes(t)
        /\ lock[o] = NoTxn
        /\ order' = [order EXCEPT ![o].status = tx[t].arg]
        /\ CommitUnlocked(t)
        /\ UNCHANGED <<wallet, books, history, collections, sales, stockOuts,
                       captured>>

ClaimCompletion(t) ==
    /\ At(t, "updateOrder", "read")
    /\ Completes(t)
    /\ LockRow(t, tx[t].ord)
    /\ Claimed(t)
    /\ UNCHANGED <<order, wallet, books, history, collections, sales,
                   stockOuts, captured>>

\* Mutant: every completion writes the settlement flag of its own reading.
CommitCompletion_Unstamps(t) ==
    LET o == tx[t].ord
    IN  /\ At(t, "updateOrder", "claimed")
        /\ order' = [order EXCEPT ![o].status = "COMPLETED",
                                  ![o].settled = tx[t].seen.settled]
        /\ Commit(t, o)
        /\ UNCHANGED <<wallet, books, history, sales, collections, stockOuts,
                       captured>>

\* Delivery completed: settle unless the row under the lock is settled already,
\* and book the sale unless the order was read as a link order.
CommitCompletion(t) ==
    LET o == tx[t].ord
        seen == tx[t].seen
        row == order[o]
        cash == IF seen.cash = "UNPAID" /\ seen.method \notin LinkMethods
                THEN cashStatusForPaymentMethod(seen.method) ELSE row.cash
    IN  /\ At(t, "updateOrder", "claimed")
        /\ order' = [order EXCEPT ![o] = [row EXCEPT !.status = "COMPLETED",
                        !.cash = cash, !.settled = @ \/ ~seen.settled]]
        /\ IF seen.settled \/ row.settled
           THEN NoSettlement
           ELSE Settle(o, row.total, row.method, FALSE, "WALLET_SETTLEMENT")
        /\ sales' = IF seen.method \in LinkMethods THEN sales
                    ELSE [sales EXCEPT ![o] = @ + 1]
        /\ Commit(t, o)
        /\ UNCHANGED <<collections, stockOuts, captured>>

-----------------------------------------------------------------------------
(* finalizeSinglePaidOrderFromGateway: the provider reports CAPTURED *)

\* External: the customer pays on the hosted page of an order.
CustomerPays(o) ==
    /\ Exists(o)
    /\ o \notin captured
    /\ captured' = captured \cup {o}
    /\ UNCHANGED <<order, wallet, books, history, collections, sales,
                   stockOuts, lock, tx>>

\* A webhook, a poll or a browser return; any number of them may arrive.
BeginFinalize(t, o) ==
    /\ o \in captured
    /\ ~order[o].settled
    /\ order[o].status \notin {"COMPLETED", "CANCELED"}
    /\ Begin(t, "finalizeGateway", o, order[o], "none", 0)
    /\ UNCHANGED <<order, wallet, books, history, collections, sales,
                   stockOuts, captured, lock>>

\* Mutant: an update without its where clause.
Claimable_Any(row) == TRUE

\* updateMany where walletSettledAt is null and status is not COMPLETED.
Claimable(row) == ~row.settled /\ row.status # "COMPLETED"

ClaimFinalize(t) ==
    /\ At(t, "finalizeGateway", "read")
    /\ Claimable(order[tx[t].ord])
    /\ LockRow(t, tx[t].ord)
    /\ Claimed(t)
    /\ UNCHANGED <<order, wallet, books, history, collections, sales,
                   stockOuts, captured>>

\* claim.count = 0: another session finished first.
LoseClaim(t) ==
    /\ At(t, "finalizeGateway", "read")
    /\ lock[tx[t].ord] = NoTxn
    /\ ~Claimable(order[tx[t].ord])
    /\ CommitUnlocked(t)
    /\ UNCHANGED <<order, wallet, books, history, collections, sales,
                   stockOuts, captured>>

CommitFinalize(t) ==
    LET o == tx[t].ord
        row == order[o]
    IN  /\ At(t, "finalizeGateway", "claimed")
        /\ order' = [order EXCEPT ![o] = [row EXCEPT !.status = "COMPLETED",
                        !.cash = cashStatusForPaymentMethod("ONLINE"),
                        !.method = "ONLINE", !.settled = TRUE]]
        /\ Settle(o, row.total, "ONLINE", TRUE, "PAYMENT_LINK_CALLBACK")
        /\ SaleWithStock(o)
        /\ Commit(t, o)
        /\ UNCHANGED <<collections, captured>>

-----------------------------------------------------------------------------
(* manuallyMarkOrderPaidByMethod: a call-center agent confirms a payment *)

\* A settled order is left alone, unless it was sold as debt on account: then
\* the agent collects what the journal says remains due on it.
BeginManual(t, o, m) ==
    LET row == order[o]
    IN  /\ row.status \notin {"ABSENT", "CANCELED"}
        /\ row.settled => row.method = "DEBT_ON_ACCOUNT"
        /\ Begin(t, "manualMark", o, row, m, IF row.settled THEN Remaining(o) ELSE 0)
        /\ UNCHANGED <<order, wallet, books, history, collections, sales,
                       stockOuts, captured, lock>>

ClaimManual(t) ==
    /\ At(t, "manualMark", "read")
    /\ ~tx[t].seen.settled
    /\ LockRow(t, tx[t].ord)
    /\ Claimed(t)
    /\ UNCHANGED <<order, wallet, books, history, collections, sales,
                   stockOuts, captured>>

\* The UPDATE is unconditional and clears walletSettledAt, so the settlement
\* that follows always runs.
CommitManual(t) ==
    LET o == tx[t].ord
        m == tx[t].arg
        row == order[o]
    IN  /\ At(t, "manualMark", "claimed")
        /\ order' = [order EXCEPT ![o] = [row EXCEPT !.status = "COMPLETED",
                        !.cash = cashStatusForPaymentMethod(m), !.method = m,
                        !.settled = TRUE]]
        /\ Settle(o, row.total, m, TRUE, "CALL_CENTER_MANUAL")
        /\ SaleWithStock(o)
        /\ Commit(t, o)
        /\ UNCHANGED <<collections, captured>>

\* recordDebtInvoiceCollectedAtCallCenter, nothing remains: only the method and
\* the cash status are brought up to date.
CollectCleared(t) ==
    LET o == tx[t].ord
        m == tx[t].arg
    IN  /\ At(t, "manualMark", "read")
        /\ tx[t].seen.settled /\ tx[t].due = 0
        /\ lock[o] = NoTxn
        /\ order' = [order EXCEPT ![o].method = m,
                                  ![o].cash = cashStatusForPaymentMethod(m)]
        /\ CommitUnlocked(t)
        /\ UNCHANGED <<wallet, books, history, collections, sales, stockOuts,
                       captured>>

\* The wallet is read again under its lock; the remaining balance is the one
\* read before it.  (The duplicate check looks for a sourceRef that true
\* accounting never writes, so it never stops a collection.)
CollectDebt(t) ==
    LET o == tx[t].ord
        m == tx[t].arg
        paydown == Least(tx[t].due, wallet.debt)
        closes == paydown >= tx[t].due
        ref == PaymentRef(o, m, "CC_DEBT_INVOICE_PHYSICAL")
    IN  /\ At(t, "manualMark", "read")
        /\ tx[t].seen.settled /\ paydown > 0
        /\ closes => lock[o] = NoTxn
        /\ wallet' = [wallet EXCEPT !.debt = @ - paydown]
        /\ journal' = journal \cup {ref}
        /\ ar' = [ar EXCEPT ![o] = @ - appendBalanced(ref, paydown)]
        /\ collections' = [collections EXCEPT ![o] = @ + 1]
        /\ order' = IF closes
                    THEN [order EXCEPT ![o].method = m,
                                       ![o].cash = cashStatusForPaymentMethod(m)]
                    ELSE order
        /\ CommitUnlocked(t)
        /\ UNCHANGED <<drawn, history, sales, stockOuts, captured>>

-----------------------------------------------------------------------------
(* autoReconcileUnpaidInvoicesFromPrepaidBalanceTx: the prepaid balance pays *)
(* open invoices, oldest first                                               *)

Eligible(o) ==
    /\ order[o].cash = "UNPAID"
    /\ order[o].status \notin {"ABSENT", "CANCELED"}
    /\ ~order[o].settled

\* SELECT ... ORDER BY createdAt LIMIT 1 FOR UPDATE SKIP LOCKED.
Unlocked == {o \in Orders : Eligible(o) /\ lock[o] = NoTxn}

TotalOf(orders) == MapThenSumSet(LAMBDA o : order[o].total, orders)

\* Mutant: an invoice larger than the balance is taken too.
BeginReconcile_Partial(t, o) ==
    /\ "autoReconcile" \in Handlers
    /\ tx[t].pc = "idle"
    /\ o \in Unlocked
    /\ LockRow(t, o)
    /\ tx' = [tx EXCEPT ![t] = [Idle EXCEPT !.pc = "claimed",
                !.kind = "autoReconcile", !.ord = o, !.seen = order[o]]]
    /\ UNCHANGED <<order, wallet, books, history, collections, sales,
                   stockOuts, captured>>

\* First pass: the balance is read without the wallet lock, then the oldest
\* unlocked invoice is locked; an invoice the balance does not cover ends it.
BeginReconcile(t, o) ==
    /\ "autoReconcile" \in Handlers
    /\ tx[t].pc = "idle"
    /\ o \in Unlocked /\ \A p \in Unlocked : o <= p
    /\ order[o].total <= wallet.balance
    /\ LockRow(t, o)
    /\ tx' = [tx EXCEPT ![t] = [Idle EXCEPT !.pc = "claimed",
                !.kind = "autoReconcile", !.ord = o, !.seen = order[o]]]
    /\ UNCHANGED <<order, wallet, books, history, collections, sales,
                   stockOuts, captured>>

\* The later passes hold the wallet lock: they pay the longest run of unlocked
\* invoices, oldest first, that the balance left by the first one covers.
LaterPasses(balance) ==
    LET upTo(p) == {q \in Unlocked : q <= p}
    IN  {p \in Unlocked : /\ Cardinality(upTo(p)) < MaxPasses
                          /\ TotalOf(upTo(p)) <= balance}

\* A later pass is covered in full: no debt, no external payment.
CommitReconcile(t) ==
    LET o == tx[t].ord
        first == Settlement(o, order[o].total, "SUBSCRIPTION_WALLET", FALSE,
                            "WALLET_SETTLEMENT")
        later == LaterPasses(first.wallet.balance)
        paid == {o} \cup later
        sold == {p \in paid : order[p].status # "COMPLETED"}
        Bump(f, S) == [p \in Orders |-> IF p \in S THEN f[p] + 1 ELSE f[p]]
    IN  /\ At(t, "autoReconcile", "claimed")
        /\ order' = [p \in Orders |->
                IF p \in paid
                THEN [order[p] EXCEPT !.status = "COMPLETED",
                        !.method = "SUBSCRIPTION_WALLET",
                        !.cash = cashStatusForPaymentMethod("SUBSCRIPTION_WALLET"),
                        !.settled = TRUE]
                ELSE order[p]]
        /\ \E spent \in 0 .. first.wallet.balance :
            /\ spent = TotalOf(later)
            /\ wallet' = [first.wallet EXCEPT !.balance = @ - spent]
            /\ drawn' = drawn + first.drawn
                    + TotalOf({p \in later : Ref("ABSORBED", p) \notin journal})
        /\ journal' = journal \cup first.refs
                \cup {Ref("ISSUED", p) : p \in later}
                \cup {Ref("ABSORBED", p) : p \in later}
        /\ ar' = [p \in Orders |->
                CASE p = o       -> ar[p] + first.ar
                  [] p \in later -> ar[p]
                        + appendBalanced(Ref("ISSUED", p), order[p].total)
                        - appendBalanced(Ref("ABSORBED", p), order[p].total)
                  [] OTHER       -> ar[p]]
        /\ history' = Bump(history, paid)
        /\ sales' = Bump(sales, sold)
        /\ stockOuts' = Bump(stockOuts, sold)
        /\ Commit(t, o)
        /\ UNCHANGED <<collections, captured>>

-----------------------------------------------------------------------------
Next ==
    \/ \E o \in Orders :
        \/ \E m \in PosMethods, total \in Amounts : CreateQuick(o, m, total)
        \/ CustomerPays(o)
    \/ \E t \in Txns :
        \/ \E m \in PosMethods, total \in Amounts : BeginCheckout(t, m, total)
        \/ \E o \in Orders :
            \/ CommitHostedCheckout(t, o)
            \/ CommitInstantCheckout(t, o)
            \/ \E target \in StaffTargets : BeginUpdate(t, o, target)
            \/ BeginFinalize(t, o)
            \/ \E m \in DeskMethods : BeginManual(t, o, m)
            \/ BeginReconcile(t, o)
        \/ MoveOrder(t) \/ ClaimCompletion(t) \/ CommitCompletion(t)
        \/ ClaimFinalize(t) \/ LoseClaim(t) \/ CommitFinalize(t)
        \/ ClaimManual(t) \/ CommitManual(t)
        \/ CollectCleared(t) \/ CollectDebt(t)
        \/ CommitReconcile(t)
        \/ Rollback(t)

Spec == Init /\ [][Next]_vars

-----------------------------------------------------------------------------
(* Properties *)

\* Every variable keeps its type: the wallet never goes negative, and a
\* session's record is what its handler stores.
TypeOK ==
    /\ order \in [Orders -> Row]
    /\ wallet \in [balance : Nat, debt : Nat]
    /\ journal \subseteq SourceRef
    /\ ar \in [Orders -> Int]
    /\ drawn \in Nat
    /\ history \in [Orders -> Nat]
    /\ collections \in [Orders -> Nat]
    /\ sales \in [Orders -> Nat]
    /\ stockOuts \in [Orders -> Nat]
    /\ captured \subseteq Orders
    /\ lock \in [Orders -> Txns \cup {NoTxn}]
    /\ tx \in [Txns -> Session]

\* An order is settled against the wallet at most once, however the driver's
\* completion, duplicate gateway callbacks, the reconcile job and retries after
\* a rollback interleave; and walletSettledAt is set exactly when it happened.
SettledOnce ==
    \A o \in Orders : history[o] = (IF order[o].settled THEN 1 ELSE 0)

\* A sale enters the general ledger, and its articles leave the stock, at most
\* once per order, and only for an order that was settled.
SaleOnce ==
    \A o \in Orders : /\ sales[o] <= 1 /\ stockOuts[o] <= sales[o]
                      /\ sales[o] = 1 => history[o] >= 1

\* Prepaid credit is never spent twice: what left the wallet is exactly what the
\* journal's absorption entries say was applied to invoices.
WalletDrawnMatchesJournal ==
    wallet.balance + drawn = InitBalance

\* The journal's receivable account equals the wallet's debt ("the resulting AR
\* balance equals the customer's actual debt").
DebtMatchesReceivable == SumFunctionOnSet(ar, Orders) = wallet.debt

\* The revenue of an invoice is recognised once: never by both the receivable of
\* a payment link and the issuance entry of its settlement.
RevenueRecognisedOnce ==
    \A o \in Orders : ~({Ref("ISSUED", o), Ref("RECEIVABLE", o)} \subseteq journal)

\* Settling is final: no later step of any handler unsettles an order or removes
\* a journal entry.
SettlementIsFinal ==
    [][/\ \A o \in Orders : order[o].settled => order'[o].settled
       /\ journal \subseteq journal']_vars

\* A terminal status never changes (assertOrderStatusTransition: "Order status
\* cannot change once it is ...").
TerminalIsFinal ==
    [][\A o \in Orders : order[o].status \in {"COMPLETED", "CANCELED"}
            => order'[o].status = order[o].status]_vars

\* A link order that still counts as unpaid can still be settled by its gateway
\* callback: nobody else has marked it settled.
LinkAwaitsGateway ==
    \A o \in Orders :
        (/\ order[o].method \in LinkMethods /\ order[o].cash = "UNPAID"
         /\ order[o].status # "ABSENT") => ~order[o].settled

\* The reconcile job pays an invoice in full from the prepaid balance or not at
\* all: it never turns part of one into debt.
ReconcilePaysInFull ==
    [][\A t \in Txns :
        (At(t, "autoReconcile", "claimed") /\ tx'[t] = Idle)
            => wallet'.debt <= wallet.debt]_vars

\* The handlers together do no more than SettlementContract allows: every step
\* that settles invoices settles open ones, once, and spends exactly the prepaid
\* credit that its absorption entries apply to them.
Contract == INSTANCE SettlementContract
    WITH settled <- {o \in Orders : order[o].settled}, times <- history,
         credit <- wallet.balance, applied <- drawn, InitCredit <- InitBalance
ImplementsContract == Contract!Spec

\* A debt-on-account invoice is collected at the call-center desk at most once.
CollectedOnce == \A o \in Orders : collections[o] <= 1

=============================================================================
