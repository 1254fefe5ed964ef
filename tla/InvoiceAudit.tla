---------------------------- MODULE InvoiceAudit ----------------------------
(***************************************************************************)
(* A supervisor edits or voids a settled invoice:                          *)
(*   invoice-audit/invoice-audit.service.ts   editInvoice, voidInvoice,    *)
(*                              reverseWalletForOrder, applyWalletForOrder *)
(* on the wallet, the invoices and the books of module WalletDesk.         *)
(*                                                                         *)
(* Order and wallet are read before the wallet is locked.  The journal     *)
(* entries are named after the order, so each is written once per order:   *)
(* a second one with the same reference is skipped.                        *)
(***************************************************************************)
EXTENDS WalletDesk

CONSTANTS NewTotals \* totals an edit may set

ASSUME AuditAssumption == NewTotals \subseteq Nat

\* Refs that writing `ref` for the invoice uses up when there is an amount.
Once(row, ref, amount) == row.refs \cup (IF amount > 0 THEN {ref} ELSE {})

\* Writing under a reference that is used has no effect.
Fresh(row, ref, amount) == IF ref \in row.refs THEN 0 ELSE amount

Reused(row, ref, amount) == ref \in row.refs /\ amount > 0

\* Only on the day the invoice was issued.
BeginEdit(s, i, total, kind) ==
    /\ invoice[i].kind \in {"DEBT", "WALLET", "CASH"} /\ ~invoice[i].canceled
    /\ invoice[i].today
    /\ Begin(s, "edit", [Idle EXCEPT !.order = i, !.amount = total, !.kind = kind, !.row = invoice[i]])

BeginVoid(s, i) ==
    /\ invoice[i].kind \in {"DEBT", "WALLET", "CASH"} /\ ~invoice[i].canceled
    /\ Begin(s, "void", [Idle EXCEPT !.order = i, !.row = invoice[i]])

\* What the invoice drew from the wallet, and what it put on account.
Drawn(row) == IF row.kind = "WALLET" /\ ~row.canceled THEN row.total ELSE 0
OnAccount(row) == IF row.kind = "DEBT" /\ ~row.canceled THEN row.total ELSE 0

\* reverseWalletForOrder: the column of the method, from the rows read first.
ReversedBalance(r) == IF r.row.kind = "WALLET" THEN r.seen.balance + r.row.total ELSE wallet.balance
ReversedDebt(r) == IF r.row.kind = "DEBT" THEN Floor(r.seen.debt - r.row.total) ELSE wallet.debt

\* The wallet owed less than the invoice: some of it was paid.
PaidReversed(r) == IF OnAccount(r.row) > r.seen.debt THEN {"paidReversed"} ELSE {}

\* Mutant: the new amount is only posted on top of the old one.
Resold_Added(r) == r.amount

\* The sale of the old amount is reversed and the new one posted.
Resold(r) == r.amount - r.row.total

\* The order's total and method, the wallet reversed and re-applied; what the
\* balance does not cover is not drawn.
CommitEdit(s) ==
    LET r == session[s]
        old == invoice[r.order]
        draw == IF r.kind = "WALLET" THEN Lesser(ReversedBalance(r), r.amount) ELSE 0
        owe == IF r.kind = "DEBT" THEN r.amount ELSE 0
    IN  /\ r.op = "edit"
        /\ wallet' = [wallet EXCEPT !.balance = ReversedBalance(r) - draw, !.debt = ReversedDebt(r) + owe]
        /\ invoice' = [invoice EXCEPT ![r.order] =
                [old EXCEPT !.total = r.amount, !.kind = r.kind,
                            !.ar = @ - Fresh(old, "reversal", OnAccount(r.row)) + Fresh(old, "reapply", owe),
                            !.sales = @ + Resold(r),
                            !.refs = @ \cup Once(old, "reversal", OnAccount(r.row)) \cup Once(old, "reapply", owe)
                                       \cup Once(old, "drawReversal", Drawn(r.row))
                                       \cup Once(old, "drawReapply", draw)]]
        /\ books' = [books EXCEPT !.liability = @ + Fresh(old, "drawReversal", Drawn(r.row))
                                                  - Fresh(old, "drawReapply", draw)]
        /\ skew' = skew \cup (IF \/ Reused(old, "reversal", OnAccount(r.row)) \/ Reused(old, "reapply", owe)
                                 \/ Reused(old, "drawReversal", Drawn(r.row)) \/ Reused(old, "drawReapply", draw)
                              THEN {"refReused"} ELSE {})
                        \cup (IF r.kind = "WALLET" /\ draw < r.amount THEN {"drawnShort"} ELSE {})
                        \cup PaidReversed(r)
        /\ End(s)
        /\ UNCHANGED <<sub, moved>>

\* getOrderArBalance reads on a connection of its own: what this transaction has
\* just reversed still counts.
Cleared(row) == Fresh(row, "cancellation", Floor(row.ar))

\* The invoice is CANCELED, its wallet effect and its sale reversed and its
\* receivable cleared.
CommitVoid(s) ==
    LET r == session[s]
        old == invoice[r.order]
    IN  /\ r.op = "void"
        /\ wallet' = [wallet EXCEPT !.balance = ReversedBalance(r), !.debt = ReversedDebt(r)]
        /\ invoice' = [invoice EXCEPT ![r.order] =
                [old EXCEPT !.canceled = TRUE,
                            !.ar = @ - Fresh(old, "reversal", OnAccount(r.row)) - Cleared(old),
                            !.sales = @ - r.row.total,
                            !.refs = @ \cup Once(old, "reversal", OnAccount(r.row))
                                       \cup Once(old, "drawReversal", Drawn(r.row))
                                       \cup Once(old, "cancellation", Floor(old.ar))]]
        /\ books' = [books EXCEPT !.liability = @ + Fresh(old, "drawReversal", Drawn(r.row))]
        /\ skew' = skew \cup (IF Fresh(old, "reversal", OnAccount(r.row)) > 0 THEN {"reversedTwice"} ELSE {})
                        \cup (IF Reused(old, "drawReversal", Drawn(r.row)) THEN {"refReused"} ELSE {})
                        \cup PaidReversed(r)
        /\ End(s)
        /\ UNCHANGED <<sub, moved>>

AuditStep ==
    \E s \in Sessions :
        \/ \E i \in Invoices, total \in NewTotals, kind \in {"DEBT", "WALLET", "CASH"} : BeginEdit(s, i, total, kind)
        \/ \E i \in Invoices : BeginVoid(s, i)
        \/ CommitEdit(s) \/ CommitVoid(s)

AuditNext == (Step \/ AuditStep) /\ UNCHANGED workload

AuditSpec == Init /\ [][AuditNext]_vars

-----------------------------------------------------------------------------
(* Properties *)

\* The sales ledger carries every invoice at its present total and a voided one at
\* nothing, through any number of edits.  As long as requests do not overlap.
SalesFollowInvoices ==
    ~overlapped => \A i \in Invoices :
        invoice[i].kind # "LINK"
        => invoice[i].sales = IF invoice[i].canceled THEN 0 ELSE invoice[i].total

\* A customer's wallet is what the activations put in, less the invoices that are
\* drawn from it: edits and voids neither make nor lose prepaid money.  As long as
\* requests do not overlap, nothing was cancelled or prepaid by a reconcile, and no
\* edit drew less than the new total (its reversal gives the whole total back).
WalletFollowsInvoices ==
    ~overlapped /\ skew \cap {"drawnShort", "debtSettled"} = {}
    /\ (\A k \in Subs : sub[k].status # "CANCELLED") /\ (\A i \in Invoices : invoice[i].kind # "LINK")
    => wallet.balance = Credit * Cardinality({k \in Subs : sub[k].status # "ABSENT"})
                        - SumFunctionOnSet([i \in Invoices |-> Drawn(invoice[i])], Invoices)

\* "post the contra entry ... for that exact remainder": a voided invoice has
\* nothing left on account 1300.
VoidClearsReceivable == \A i \in Invoices : invoice[i].canceled => invoice[i].ar = 0

\* It holds, as long as requests do not overlap, unless the void itself reversed a
\* debt: then the remainder it clears is the one from before the reversal.
VoidClearsReceivableApart ==
    ~overlapped /\ skew \cap {"reversedTwice", "refReused"} = {} => VoidClearsReceivable

\* Edits and voids leave sales, wallet and receivable as the invoices stand now.
InvoicesExplained == SalesFollowInvoices /\ WalletFollowsInvoices /\ VoidClearsReceivableApart
=============================================================================
