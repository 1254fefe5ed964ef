----------------------------- MODULE WalletDesk -----------------------------
(***************************************************************************)
(* The call center's desk on one customer's wallet:                        *)
(*   customer-ledger/customer-ledger.service.ts  activateSubscriptionPlan, *)
(*                    recordPartialDebtPayment, cancelSubscriptionForCustomer*)
(*   call-center/call-center.service.ts          activateSubscription (with *)
(*                    the prepaid reconcile), extendSubscription           *)
(*   general-ledger/  the journal entries these write                      *)
(*                                                                         *)
(* Every handler reads the wallet row, then locks it (SELECT ... FOR       *)
(* UPDATE) and computes on from the row it read first; what else it reads, *)
(* it reads behind the lock.  So a handler is two steps: the first read,   *)
(* and the rest.  Invoices come from module OrderSettlement: on account    *)
(* (DEBT, in the wallet's debt), by payment link (LINK, UNPAID), drawn     *)
(* from the wallet (WALLET), or by any method that leaves the wallet alone *)
(* (CASH).                                                                 *)
(***************************************************************************)
EXTENDS Integers, FiniteSets, FiniteSetsExt, Functions

CONSTANTS
    MaxInvoices, \* invoices ever issued (bound)
    Total,       \* the total of an invoice
    MaxSubs,     \* subscriptions ever activated (bound)
    Price,       \* salePrice of the plan
    Credit,      \* actualBalance of the plan
    Term,        \* validityDays of the plan, in ticks
    Payments,    \* amounts and discounts the desk takes
    Extension,   \* extensionDays, in ticks
    MaxDays,     \* the furthest end of a plan (bound)
    MaxRequests, \* requests ever started (bound)
    Sessions,
    Workloads    \* kinds of invoices, operations and passing days exercised together

Invoices == 1 .. MaxInvoices
Subs == 1 .. MaxSubs
Kinds == {"DEBT", "LINK", "WALLET", "CASH"}
Methods == {"CASH", "DEBT_ON_ACCOUNT"}
AllOperations == {"activate", "pay", "discount", "cancel", "extend", "edit", "void"}
\* References of journal entries that an invoice can have once.
Refs == {"reversal", "reapply", "drawReversal", "drawReapply", "cancellation"}

ASSUME WalletDeskAssumption ==
    /\ MaxInvoices \in Nat /\ MaxSubs \in Nat
    /\ Total \in Nat \ {0} /\ Term \in Nat \ {0} /\ Extension \in Nat /\ MaxDays \in Nat /\ MaxRequests \in Nat
    /\ Price \in Nat /\ Credit \in Nat /\ Price <= Credit /\ Credit > 0
    /\ Payments \subseteq Nat \ {0}
    /\ Workloads \subseteq SUBSET (Kinds \cup AllOperations \cup {"day"})

VARIABLES
    wallet,  \* CustomerWallet: balance, debt, plan on record, days until it ends
    invoice, \* Order rows: kind, cashStatus, total, whether it is CANCELED and of
             \* today; net on account 1300 under its orderId, POS_SALE_COMPLETED
             \* rows (not for LINK), references used
    sub,     \* CustomerSubscription rows, and the days left of each
    books,   \* accounts without an orderId: cash (and banks), 2100 wallet
             \* liability, debits and credits of 1300
    moved,   \* history: money that changed hands, and refunds per subscription
    skew,    \* history: what is known to put the books off (see the properties)
    session, \* what each request has read
    started,    \* requests started so far
    overlapped, \* history: two requests have run at the same time
    workload

rows == <<wallet, invoice, sub, books, moved, skew>>
vars == <<rows, session, started, overlapped, workload>>

NoInvoice == [kind |-> "ABSENT", paid |-> FALSE, ar |-> 0, total |-> 0, canceled |-> FALSE,
              today |-> FALSE, sales |-> 0, refs |-> {}]
NoSub == [status |-> "ABSENT", parent |-> 0, left |-> 0]
Idle == [op |-> "idle", amount |-> 0, discount |-> 0, method |-> "CASH", close |-> FALSE,
         sub |-> 0, order |-> 0, kind |-> "CASH", row |-> NoInvoice, seen |-> [balance |-> 0, debt |-> 0, plan |-> FALSE, until |-> 0]]

Init ==
    /\ wallet = Idle.seen
    /\ invoice = [i \in Invoices |-> NoInvoice]
    /\ sub = [k \in Subs |-> NoSub]
    /\ books = [cash |-> 0, liability |-> 0, debits |-> 0, credits |-> 0]
    /\ moved = [received |-> 0, refunds |-> [k \in Subs |-> 0]]
    /\ skew = {}
    /\ session = [s \in Sessions |-> Idle]
    /\ started = 0
    /\ overlapped = FALSE
    /\ workload \in Workloads

Lesser(a, b) == IF a < b THEN a ELSE b
Floor(a) == IF a < 0 THEN 0 ELSE a

-----------------------------------------------------------------------------
(* Requests *)

Active(s) == session[s].op # "idle"

Begin(s, op, request) ==
    /\ op \in workload
    /\ ~Active(s)
    /\ started < MaxRequests /\ started' = started + 1
    /\ session' = [session EXCEPT ![s] = [request EXCEPT !.op = op, !.seen = wallet]]
    /\ overlapped' = (overlapped \/ \E r \in Sessions : Active(r))
    /\ UNCHANGED rows

End(s) ==
    /\ session' = [session EXCEPT ![s] = Idle]
    /\ UNCHANGED <<started, overlapped>>

\* An exception, a timeout or a crash: the transaction leaves nothing.
Rollback(s) == Active(s) /\ End(s) /\ UNCHANGED rows

-----------------------------------------------------------------------------
(* What is owed *)

Loose == books.debits - books.credits
NetReceivable == SumFunctionOnSet([i \in Invoices |-> invoice[i].ar], Invoices) + Loose

\* resolveOperationalDebtKd: the larger of account 1300 and the wallet's debt.
OpenDebt == Max({0, NetReceivable, wallet.debt})

Unpaid == {i \in Invoices : invoice[i].kind # "ABSENT" /\ ~invoice[i].paid}

\* How much of `budget` reaches x when the elements of S below it take theirs first.
Fifo(S, need, budget, x) ==
    Lesser(need[x], Floor(budget - SumFunctionOnSet(need, {y \in S : y < x})))

\* computeOrderRemainingBalancesBatch: net on 1300, less the credits that name no
\* order, which the invoices asked about share out, oldest first.
Remaining(i) ==
    LET open == [j \in Invoices |-> Floor(invoice[j].ar)]
    IN  open[i] - Fifo(Unpaid, open, books.credits, i)

\* Mutant: every invoice gets the whole budget.
Allotted_Each(i, budget) == IF i \in Unpaid THEN Lesser(Remaining(i), budget) ELSE 0

Allotted(i, budget) ==
    IF i \in Unpaid THEN Fifo(Unpaid, [j \in Invoices |-> Remaining(j)], budget, i) ELSE 0

\* Invoices after `budget` was spread over the unpaid ones.
Spread(budget) ==
    [i \in Invoices |->
        IF Allotted(i, budget) = 0 THEN invoice[i]
        ELSE [invoice[i] EXCEPT !.ar = @ - Allotted(i, budget),
                                !.paid = Allotted(i, budget) = Remaining(i)]]

SpreadTotal(budget) == SumFunctionOnSet([i \in Invoices |-> Allotted(i, budget)], Invoices)

-----------------------------------------------------------------------------
(* Subscriptions *)

BeginActivate(s, method, close) ==
    Begin(s, "activate", [Idle EXCEPT !.method = method, !.close = close])

\* The prepaid reconcile: oldest first, in full, until one does not fit.
Prepaid(invoices, balance) ==
    LET open == {i \in Invoices : invoices[i].kind # "ABSENT" /\ ~invoices[i].paid}
        due == [i \in Invoices |-> invoices[i].total]
    IN  {i \in open : SumFunctionOnSet(due, {j \in open : j <= i}) <= balance}

ActiveSub == {k \in Subs : sub[k].status = "ACTIVE"}

\* Mutant: the predecessor stays ACTIVE.
Rolled_Open(k) == [sub EXCEPT ![k] = [status |-> "ACTIVE", left |-> Term,
                                      parent |-> IF ActiveSub = {} THEN 0 ELSE Max(ActiveSub)]]

\* The predecessor is closed and linked (no code writes EXPIRED).
Rolled(k) ==
    [j \in Subs |->
        CASE j = k -> [status |-> "ACTIVE", left |-> Term,
                       parent |-> IF ActiveSub = {} THEN 0 ELSE Max(ActiveSub)]
          [] ActiveSub # {} /\ j = Max(ActiveSub) -> [sub[j] EXCEPT !.status = "ROLLED_OVER"]
          [] OTHER -> sub[j]]

\* Mutant: the wallet gets what the customer paid, without the gift.
Credited_Price(paid) == Lesser(Price, Credit - paid)

Credited(paid) == Credit - paid

\* The plan's credit pays debt first, the rest is prepaid.  Journal: the funding
\* (the price, and the company's support up to the credit) and one PAYMENT per
\* allotted amount; PAYMENT has no asset account for DEBT_ON_ACCOUNT: it fails and
\* is only logged.  Then the prepaid reconcile.
CommitActivate(s, k) ==
    LET r == session[s]
        onAccount == r.method = "DEBT_ON_ACCOUNT"
        paid == Lesser(OpenDebt, Credit)
        spread == IF r.close THEN Spread(paid) ELSE invoice
        closed == [i \in Invoices |-> [spread[i] EXCEPT
                                         !.ar = IF onAccount THEN invoice[i].ar ELSE @]]
        covered == IF r.close THEN SpreadTotal(paid) ELSE 0
        balance == r.seen.balance + Credited(paid)
        prepaid == Prepaid(closed, balance)
        spent == SumFunctionOnSet([i \in Invoices |-> closed[i].total], prepaid)
    IN  /\ r.op = "activate"
        /\ sub[k].status = "ABSENT" /\ \A j \in Subs : j < k => sub[j].status # "ABSENT"
        /\ wallet' = [balance |-> balance - spent,
                      debt |-> r.seen.debt - Lesser(paid, r.seen.debt)
                               + (IF onAccount THEN Price ELSE 0),
                      plan |-> TRUE, until |-> Term]
        /\ sub' = Rolled(k)
        /\ invoice' = [i \in Invoices |->
                IF i \in prepaid THEN [closed[i] EXCEPT !.paid = TRUE, !.ar = @ - closed[i].total]
                ELSE closed[i]]
        /\ books' = [cash |-> books.cash + (IF onAccount THEN 0 ELSE Price + paid),
                     liability |-> books.liability + Credit - spent,
                     debits |-> books.debits + (IF onAccount THEN Price ELSE 0),
                     credits |-> books.credits + (IF onAccount THEN 0 ELSE paid - covered)]
        /\ moved' = [moved EXCEPT !.received = @ + (IF onAccount THEN 0 ELSE Price)]
        /\ skew' = skew \cup (IF paid > 0 THEN {"debtSettled"} ELSE {})
                        \cup (IF paid > 0 /\ onAccount THEN {"settledOnAccount"} ELSE {})
                        \cup (IF \E i \in prepaid : closed[i].ar # closed[i].total THEN {"chargedTwice"} ELSE {})
        /\ End(s)

\* The subscription is read before the lock as well.
BeginCancel(s, k) ==
    /\ sub[k].status = "ACTIVE"
    /\ Begin(s, "cancel", [Idle EXCEPT !.sub = k])

\* Time-proportional: the gift is voided first, then the price, up to the balance.
GiftVoid(left, balance) == Lesser(((Credit - Price) * left) \div Term, balance)
CashRefund(left, balance) ==
    Lesser((Price * left) \div Term, balance - GiftVoid(left, balance))

\* The journal entry's reference is the subscription: a second one is skipped.
CommitCancel(s) ==
    LET r == session[s]
        gift == GiftVoid(sub[r.sub].left, r.seen.balance)
        cash == CashRefund(sub[r.sub].left, r.seen.balance)
        fresh == sub[r.sub].status # "CANCELLED"
    IN  /\ r.op = "cancel"
        /\ sub[r.sub].left > 0
        /\ wallet' = [wallet EXCEPT !.balance = r.seen.balance - gift - cash,
                                    !.plan = FALSE, !.until = 0]
        /\ sub' = [sub EXCEPT ![r.sub].status = "CANCELLED"]
        /\ books' = [books EXCEPT !.liability = @ - (IF fresh THEN gift + cash ELSE 0),
                                  !.cash = @ - (IF fresh THEN cash ELSE 0)]
        /\ moved' = [moved EXCEPT !.received = @ - cash, !.refunds[r.sub] = @ + cash]
        /\ End(s)
        /\ UNCHANGED <<invoice, skew>>

\* extendSubscription takes no lock and writes the end date only; the
\* subscription's own end date stays.
BeginExtend(s) ==
    /\ wallet.plan
    /\ wallet.until + Extension <= MaxDays
    /\ Begin(s, "extend", Idle)

CommitExtend(s) ==
    /\ session[s].op = "extend"
    /\ wallet' = [wallet EXCEPT !.until = session[s].seen.until + Extension]
    /\ End(s)
    /\ UNCHANGED <<invoice, sub, books, moved, skew>>

-----------------------------------------------------------------------------
(* recordPartialDebtPayment *)

BeginPay(s, amount, discount) ==
    /\ discount = 0 \/ "discount" \in workload
    /\ amount + discount > 0
    /\ Begin(s, "pay", [Idle EXCEPT !.amount = amount, !.discount = discount])

Ceiling == OpenDebt

\* The wallet's debt from the row read before the lock; amount and discount spread
\* over the unpaid invoices; PAYMENT entries for what was spread and for the rest
\* of the amount, a DEBT_DISCOUNT entry for the discount.
CommitPay(s) ==
    LET r == session[s]
        total == r.amount + r.discount
        spread == SpreadTotal(total)
        onInvoices == IF r.amount > 0 THEN spread ELSE 0
        rest == Floor(r.amount - spread)
    IN  /\ r.op = "pay"
        /\ total <= Ceiling
        /\ wallet' = [wallet EXCEPT !.debt = r.seen.debt - Lesser(total, r.seen.debt)]
        /\ invoice' = [i \in Invoices |->
                [Spread(total)[i] EXCEPT !.ar = IF r.amount > 0 THEN @ ELSE invoice[i].ar]]
        /\ books' = [books EXCEPT !.cash = @ + onInvoices + rest,
                                  !.credits = @ + rest + r.discount]
        /\ moved' = [moved EXCEPT !.received = @ + r.amount]
        /\ skew' = skew \cup (IF r.discount > 0 /\ spread > 0 THEN {"discountSpread"} ELSE {})
        /\ End(s)
        /\ UNCHANGED sub

-----------------------------------------------------------------------------
(* Outside of the desk *)

\* An invoice is issued: DR receivables, and what pays it at once credits them
\* again; on account it is in the wallet's debt.
Issue(i, kind) ==
    LET amount(k) == IF kind = k THEN Total ELSE 0
    IN  /\ kind \in workload
        /\ invoice[i].kind = "ABSENT" /\ \A j \in Invoices : j < i => invoice[j].kind # "ABSENT"
        /\ amount("WALLET") <= wallet.balance
        /\ invoice' = [invoice EXCEPT ![i] =
                [NoInvoice EXCEPT !.kind = kind, !.paid = kind # "LINK", !.total = Total, !.today = TRUE,
                                  !.ar = amount("DEBT") + amount("LINK"),
                                  !.sales = Total - amount("LINK")]]
        /\ wallet' = [wallet EXCEPT !.debt = @ + amount("DEBT"), !.balance = @ - amount("WALLET")]
        /\ books' = [books EXCEPT !.cash = @ + amount("CASH"), !.liability = @ - amount("WALLET")]
        /\ moved' = [moved EXCEPT !.received = @ + amount("CASH")]
        /\ overlapped' = (overlapped \/ \E s \in Sessions : Active(s))
        /\ UNCHANGED <<sub, skew, session, started>>

\* A day passes.
Day ==
    /\ "day" \in workload
    /\ wallet' = [wallet EXCEPT !.until = Floor(@ - 1)]
    /\ sub' = [k \in Subs |-> [sub[k] EXCEPT !.left = Floor(@ - 1)]]
    /\ invoice' = [i \in Invoices |-> [invoice[i] EXCEPT !.today = FALSE]]
    /\ UNCHANGED <<books, moved, skew, session, started, overlapped>>

Step ==
    \/ \E s \in Sessions :
        \/ Rollback(s)
        \/ \E method \in Methods, close \in BOOLEAN : BeginActivate(s, method, close)
        \/ \E k \in Subs : CommitActivate(s, k) \/ BeginCancel(s, k)
        \/ CommitCancel(s)
        \/ BeginExtend(s) \/ CommitExtend(s)
        \/ \E amount, discount \in Payments \cup {0} : BeginPay(s, amount, discount)
        \/ CommitPay(s)
    \/ \E i \in Invoices, kind \in Kinds : Issue(i, kind)
    \/ Day

Next == Step /\ UNCHANGED workload

Spec == Init /\ [][Next]_vars

-----------------------------------------------------------------------------
(* Properties *)

\* Every row keeps its type; neither the balance nor the debt of a wallet is ever
\* negative, also when requests overlap.
TypeOK ==
    /\ wallet \in [balance : Nat, debt : Nat, plan : BOOLEAN, until : Nat]
    /\ invoice \in [Invoices -> [kind : Kinds \cup {"ABSENT"}, paid : BOOLEAN, ar : Int, total : Nat,
                                  canceled : BOOLEAN, today : BOOLEAN, sales : Int, refs : SUBSET Refs]]
    /\ sub \in [Subs -> [status : {"ABSENT", "ACTIVE", "ROLLED_OVER", "CANCELLED"},
                         parent : Subs \cup {0}, left : 0 .. Term]]
    /\ books \in [cash : Int, liability : Int, debits : Nat, credits : Nat]
    /\ moved \in [received : Int, refunds : [Subs -> Nat]]
    /\ skew \subseteq {"debtSettled", "settledOnAccount", "chargedTwice", "discountSpread", "refReused",
                        "reversedTwice", "drawnShort", "paidReversed"}
    /\ started \in 0 .. MaxRequests /\ overlapped \in BOOLEAN /\ workload \in Workloads

\* A customer has one ACTIVE subscription, and every subscription that was rolled
\* over is the parent of its successor: activations that overlap with each other
\* and with cancellations neither fork nor break the chain.
OneChain ==
    /\ Cardinality(ActiveSub) <= 1
    /\ \A k \in Subs : sub[k].status = "ROLLED_OVER" => \E j \in Subs : j > k /\ sub[j].parent = k
    /\ \A j, k \in Subs : sub[j].parent = sub[k].parent /\ sub[k].parent # 0 => j = k

\* Invariant 3 of the reconciliation engine: account 2100 is what the wallets
\* hold.
LiabilityMatchesWallet == books.liability = wallet.balance

\* It holds as long as requests do not overlap, no activation has paid debt (such
\* an activation credits 2100 with the whole funding and pays the debt from an
\* asset account) and no edit found its journal reference used.
LiabilityMatchesWalletApart ==
    ~overlapped /\ skew \cap {"debtSettled", "refReused"} = {} => LiabilityMatchesWallet

\* A customer with invoices on account only owes what account 1300 says, through
\* payments, discounts, activations, edits and voids.  As long as requests do not
\* overlap, no activation on account has paid debt (its PAYMENT entry fails), no
\* edit found its journal reference used, and neither an edit nor a void reversed a
\* debt that was paid already or reversed it twice.
DebtMatchesReceivable ==
    ~overlapped /\ (\A i \in Invoices : invoice[i].kind # "LINK")
    /\ skew \cap {"settledOnAccount", "refReused", "reversedTwice", "paidReversed"} = {}
    => wallet.debt = NetReceivable

\* The cash and bank accounts hold the money that changed hands, as long as
\* requests do not overlap, no activation has paid debt and no discount was
\* spread over invoices.
CashIsReceived ==
    ~overlapped /\ skew \cap {"debtSettled", "discountSpread"} = {}
    => books.cash = moved.received

\* A subscription is refunded once and never more than its price.  As long as
\* requests do not overlap (two cancellations read the same ACTIVE row).
RefundWithinPrice ==
    ~overlapped => \A k \in Subs :
        /\ moved.refunds[k] <= Price
        /\ moved.refunds[k] > 0 => sub[k].status = "CANCELLED"

\* Subscriptions form one chain, and each is refunded at most once.
SubscriptionsSound == OneChain /\ RefundWithinPrice

\* What the reconciliation engine looks for: accounts 2100, 1300 and the asset
\* accounts agree with the wallet and with the money that changed hands, each
\* under the conditions stated above.
BooksAgree == LiabilityMatchesWalletApart /\ DebtMatchesReceivable /\ CashIsReceived

\* A payment settles exactly what it says: account 1300 falls by amount and
\* discount, also when requests overlap.  Unless a discount is spread over
\* invoices.
PaymentSettlesItsTotal ==
    [][\A s \in Sessions :
          session[s].op = "pay" /\ rows' # rows /\ session'[s].op = "idle"
          /\ (session[s].discount = 0 \/ Unpaid = {})
          => NetReceivable' = NetReceivable - session[s].amount - session[s].discount]_vars
=============================================================================
