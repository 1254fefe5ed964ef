---------------------------- MODULE WalletProofs ----------------------------
(***************************************************************************)
(* For any number of invoices, subscriptions, requests and sessions, any   *)
(* price, credit and term: the wallet's rows keep their types, the chain   *)
(* of subscriptions does not fork, and a payment settles what it says, in  *)
(* every order of requests; and while requests do not overlap, the journal *)
(* agrees with the wallet, the invoices and the money that changed hands.  *)
(*                                                                         *)
(* None of these is inductive.  DInv adds to the types what a request may  *)
(* rely on when it writes (SessionsOK), how the subscriptions are numbered *)
(* and linked (ChainOK), and which invoices may be unpaid or void          *)
(* (InvoicesOK).  ApartInv is about requests that have run one by one: the *)
(* one under way has read what is still there (Alone), and the books add   *)
(* up (BooksOK), which needs the receivable of each invoice that is not a  *)
(* payment link (ReceivableOK) beside the sums the runs check.             *)
(*                                                                         *)
(* The journal's sums are followed step by step with SumTheorems: what is  *)
(* handed out oldest first (Fifo) adds up to the budget or to all that is  *)
(* open, by induction on the number of the invoice.                        *)
(***************************************************************************)
EXTENDS InvoiceAudit, SumTheorems

-----------------------------------------------------------------------------
(* The inductive invariant *)

WalletRow == [balance : Nat, debt : Nat, plan : BOOLEAN, until : Nat]
InvoiceRow == [kind : Kinds \cup {"ABSENT"}, paid : BOOLEAN, ar : Int, total : Nat,
               canceled : BOOLEAN, today : BOOLEAN, sales : Int, refs : SUBSET Refs]
SubRow == [status : {"ABSENT", "ACTIVE", "ROLLED_OVER", "CANCELLED"},
           parent : Subs \cup {0}, left : 0 .. Term]
BookRow == [cash : Int, liability : Int, debits : Nat, credits : Nat]
MovedRow == [received : Int, refunds : [Subs -> Nat]]
Skews == {"debtSettled", "settledOnAccount", "chargedTwice", "discountSpread", "refReused",
          "reversedTwice", "drawnShort", "paidReversed"}

\* The kinds an edit or a void handles.
Settled == {"DEBT", "WALLET", "CASH"}

SessionRow == [op : AllOperations \cup {"idle"}, amount : Nat, discount : Nat, method : Methods,
               close : BOOLEAN, sub : Subs \cup {0}, order : Invoices \cup {0}, kind : Settled,
               row : InvoiceRow, seen : WalletRow]

\* What a request has read, and what stays true of the rows it read from.
SessionsOK ==
    /\ session \in [Sessions -> SessionRow]
    /\ \A s \in Sessions : session[s].op = "cancel" =>
          session[s].sub \in Subs /\ sub[session[s].sub].status # "ABSENT"
    /\ \A s \in Sessions : session[s].op \in {"edit", "void"} =>
          /\ session[s].order \in Invoices /\ invoice[session[s].order].kind \in Settled
          /\ session[s].row.kind \in Settled /\ ~session[s].row.canceled

\* Subscriptions: numbered without a gap, one active, and what a successor names
\* as its parent is closed.
ChainOK ==
    /\ \A k \in Subs : sub[k].status = "ABSENT" => sub[k].parent = 0
    /\ \A j, k \in Subs : j < k /\ sub[k].status # "ABSENT" => sub[j].status # "ABSENT"
    /\ \A j, k \in Subs : sub[j].parent = k => k < j /\ sub[k].status \in {"ROLLED_OVER", "CANCELLED"}
    /\ \A j, k \in Subs : sub[j].status = "ACTIVE" /\ sub[k].status = "ACTIVE" => j = k
    /\ \A k \in Subs : sub[k].status = "ROLLED_OVER" => \E j \in Subs : j > k /\ sub[j].parent = k
    /\ \A j, k \in Subs : sub[j].parent = sub[k].parent /\ sub[k].parent # 0 => j = k

\* Invoices: a row that does not exist yet is blank; only a payment link is ever
\* unpaid, and it is not voided; the cancellation's reference comes with the void.
InvoiceOK(row) ==
    /\ row.kind = "ABSENT" => row = NoInvoice
    /\ row.kind \in Settled => row.paid
    /\ row.kind = "LINK" => ~row.canceled
    /\ "cancellation" \in row.refs => row.canceled
InvoicesOK == \A i \in Invoices : InvoiceOK(invoice[i])

DInv == TypeOK /\ SessionsOK /\ ChainOK /\ InvoicesOK

\* As long as requests do not overlap, one is under way and what it has read still
\* stands.
Alone ==
    /\ \A r, s \in Sessions : Active(r) /\ Active(s) => r = s
    /\ \A s \in Sessions : Active(s) =>
          session[s].seen.balance = wallet.balance /\ session[s].seen.debt = wallet.debt
    /\ \A s \in Sessions : session[s].op = "cancel" => sub[session[s].sub].status = "ACTIVE"
    /\ \A s \in Sessions : session[s].op \in {"edit", "void"} =>
          LET old == invoice[session[s].order]
          IN  session[s].row.kind = old.kind /\ session[s].row.total = old.total /\ ~old.canceled

\* The invoices are not payment links.
NoLink == \A i \in Invoices : invoice[i].kind # "LINK"

\* Account 1300 under an invoice that is not a payment link.
ReceivableOK ==
    skew \cap {"refReused", "reversedTwice"} = {} =>
        \A i \in Invoices : invoice[i].kind # "LINK" => invoice[i].ar = OnAccount(invoice[i])

\* The invariants of the runs, for a state that requests have reached one by one.
RefundsOK == \A k \in Subs : /\ moved.refunds[k] <= Price
                             /\ moved.refunds[k] > 0 => sub[k].status = "CANCELLED"
LiabilityOK == skew \cap {"debtSettled", "refReused"} = {} => books.liability = wallet.balance
DebtOK == NoLink /\ skew \cap {"settledOnAccount", "refReused", "reversedTwice", "paidReversed"} = {}
          => wallet.debt = NetReceivable
CashOK == skew \cap {"debtSettled", "discountSpread"} = {} => books.cash = moved.received
SalesOK == \A i \in Invoices : invoice[i].kind # "LINK"
              => invoice[i].sales = IF invoice[i].canceled THEN 0 ELSE invoice[i].total
Activated == {k \in Subs : sub[k].status # "ABSENT"}
Drawings == SumFunctionOnSet([i \in Invoices |-> Drawn(invoice[i])], Invoices)
HoldingsOK == NoLink /\ skew \cap {"drawnShort", "debtSettled"} = {} /\ (\A k \in Subs : sub[k].status # "CANCELLED")
              => wallet.balance = Credit * Cardinality(Activated) - Drawings

BooksOK == ReceivableOK /\ RefundsOK /\ LiabilityOK /\ DebtOK /\ CashOK /\ SalesOK /\ HoldingsOK

ApartInv == ~overlapped => Alone /\ BooksOK

-----------------------------------------------------------------------------
(* Amounts, shares and sums *)

\* The larger of nothing and two amounts.
LEMMA MaxOfThree ==
    ASSUME NEW a \in Int, NEW b \in Int
    PROVE  /\ Max({0, a, b}) \in Nat
           /\ Max({0, a, b}) >= a /\ Max({0, a, b}) >= b
           /\ Max({0, a, b}) \in {0, a, b}
<1> DEFINE S == {0, a, b}
<1>1. \E x \in S : \A y \in S : x >= y
  BY DEF S
<1>2. Max(S) \in S /\ \A y \in S : Max(S) >= y
  BY <1>1 DEF Max
<1> QED BY <1>2

\* The invoices and the subscriptions are finitely many.
LEMMA RowsFinite ==
    /\ IsFiniteSet(Invoices) /\ IsFiniteSet(Subs)
    /\ Invoices \subseteq Nat /\ Subs \subseteq Nat /\ 0 \notin Subs
    /\ \A S \in SUBSET Invoices : IsFiniteSet(S)
<1>1. MaxInvoices \in Int /\ MaxSubs \in Int
  BY WalletDeskAssumption
<1>2. IsFiniteSet(1 .. MaxInvoices) /\ IsFiniteSet(1 .. MaxSubs)
  BY <1>1, FS_Interval
<1>3. \A S \in SUBSET Invoices : IsFiniteSet(S)
  BY <1>2, FS_Subset DEF Invoices
<1> QED BY <1>1, <1>2, <1>3 DEF Invoices, Subs

\* Some invoices, one of them the latest.
LEMMA LatestInvoice ==
    ASSUME NEW P \in SUBSET Invoices, P # {}
    PROVE  \E m \in P : \A x \in P : x <= m
<1> DEFINE D == {MaxInvoices - x : x \in P}
<1>1. \A x \in P : x \in Nat /\ MaxInvoices - x \in Nat
  BY WalletDeskAssumption DEF Invoices
<1>2. PICK d \in D : \A e \in D : d <= e
  <2>1. D \in SUBSET Nat /\ D # {}
    BY <1>1
  <2> HIDE DEF D
  <2> QED BY <2>1, LeastNat
<1>3. PICK m \in P : d = MaxInvoices - m
  BY <1>2
<1>4. ASSUME NEW x \in P PROVE x <= m
  BY <1>1, <1>2, <1>3, <1>4, WalletDeskAssumption
<1> QED BY <1>4

\* What a queue hands out, up to its n-th place, is the budget or all that is
\* needed there.
LEMMA FifoUpTo ==
    ASSUME NEW S \in SUBSET Invoices, NEW need, \A x \in S : need[x] \in Nat,
           NEW budget \in Nat, NEW share,
           \A x \in S : share[x] = Fifo(S, need, budget, x), NEW n \in Nat,
           NEW U, U = {y \in S : y < n}
    PROVE  SumFunctionOnSet(share, U) = Lesser(budget, SumFunctionOnSet(need, U))
<1> DEFINE T(k) == {y \in S : y < k}
           Good == {k \in Nat : /\ \A x \in T(k) : share[x] \in Nat
                                /\ SumFunctionOnSet(share, T(k)) = Lesser(budget, SumFunctionOnSet(need, T(k)))}
<1>0. (\A y \in S : y \in Nat /\ y # 0) /\ \A k \in Nat : IsFiniteSet(T(k)) /\ T(k) \in SUBSET S
  BY RowsFinite DEF Invoices
<1>1. 0 \in Good
  <2>1. T(0) = {}
    BY <1>0
  <2>2. SumFunctionOnSet(share, {}) = 0 /\ SumFunctionOnSet(need, {}) = 0
    BY SumEmpty
  <2> QED BY <2>1, <2>2 DEF Lesser
<1>2. ASSUME NEW k \in Nat, k \in Good PROVE k + 1 \in Good
  <2>0. k + 1 \in Nat
    OBVIOUS
  <2>1. CASE k \notin S
    <3>1. T(k + 1) = T(k)
      BY <1>0, <2>1
    <3> QED BY <1>2, <2>0, <3>1
  <2>2. CASE k \in S
    <3>1. T(k + 1) = T(k) \cup {k} /\ k \notin T(k)
      <4>1. \A y \in S : y < k + 1 <=> (y < k \/ y = k)
        BY <1>0
      <4>2. ~(k < k)
        OBVIOUS
      <4>3. \A y : y \in T(k + 1) <=> (y \in T(k) \/ y = k)
        BY <2>2, <4>1
      <4> QED BY <4>2, <4>3
    <3>2. SumFunctionOnSet(need, T(k)) \in Nat /\ SumFunctionOnSet(need, T(k) \cup {k}) = need[k] + SumFunctionOnSet(need, T(k))
      <4>1. \A x \in T(k) \cup {k} : need[x] \in Nat /\ need[x] \in Int
        BY <2>2
      <4> QED BY <1>0, <3>1, <4>1, SumNat, SumAddElement
    <3>3. share[k] = Lesser(need[k], Floor(budget - SumFunctionOnSet(need, T(k))))
      BY <2>2 DEF Fifo
    <3>4. share[k] \in Nat
      BY <2>2, <3>2, <3>3 DEF Lesser, Floor
    <3>5. SumFunctionOnSet(share, T(k) \cup {k}) = share[k] + SumFunctionOnSet(share, T(k))
      <4>1. \A x \in T(k) \cup {k} : share[x] \in Int
        BY <1>2, <3>4
      <4> QED BY <1>0, <3>1, <4>1, SumAddElement
    <3>6. SumFunctionOnSet(share, T(k)) = Lesser(budget, SumFunctionOnSet(need, T(k)))
      BY <1>2
    <3>7. need[k] \in Nat
      BY <2>2
    <3> DEFINE a == SumFunctionOnSet(need, T(k))
    <3> HIDE DEF a
    <3>8. Lesser(need[k], Floor(budget - a)) + Lesser(budget, a) = Lesser(budget, need[k] + a)
      BY <3>2, <3>7 DEF Lesser, Floor, a
    <3>9. SumFunctionOnSet(share, T(k) \cup {k}) = Lesser(budget, SumFunctionOnSet(need, T(k) \cup {k}))
      BY <3>2, <3>3, <3>5, <3>6, <3>8 DEF a
    <3>10. \A x \in T(k) \cup {k} : share[x] \in Nat
      BY <1>2, <3>4
    <3> QED BY <2>0, <3>1, <3>9, <3>10, Zenon
  <2> QED BY <2>1, <2>2
<1> HIDE DEF Good
<1>3. n \in Good
  BY <1>1, <1>2, NatGood
<1> QED BY <1>3 DEF Good

\* A queue hands out the budget or all that is needed.
LEMMA FifoTotal ==
    ASSUME NEW S \in SUBSET Invoices, NEW need, \A x \in S : need[x] \in Nat,
           NEW budget \in Nat, NEW share,
           \A x \in S : share[x] = Fifo(S, need, budget, x)
    PROVE  SumFunctionOnSet(share, S) = Lesser(budget, SumFunctionOnSet(need, S))
<1>0. \A y \in S : y \in Nat /\ y <= MaxInvoices
  BY WalletDeskAssumption DEF Invoices
<1>1. {y \in S : y < MaxInvoices + 1} = S /\ MaxInvoices + 1 \in Nat
  BY <1>0, WalletDeskAssumption
<1> DEFINE n == MaxInvoices + 1
<1>2. S = {y \in S : y < n} /\ n \in Nat
  BY <1>1
<1> HIDE DEF n
<1> QED BY <1>2, FifoUpTo

\* A share is within the need.
LEMMA FifoWithin ==
    ASSUME NEW S \in SUBSET Invoices, NEW need, \A x \in S : need[x] \in Nat,
           NEW budget \in Nat, NEW x, need[x] \in Nat
    PROVE  Fifo(S, need, budget, x) \in 0 .. need[x]
<1> DEFINE T == {y \in S : y < x}
<1>1. SumFunctionOnSet(need, T) \in Nat
  BY RowsFinite, SumNat
<1> QED BY <1>1 DEF Fifo, Lesser, Floor

-----------------------------------------------------------------------------
(* What is owed and how it is shared out *)

\* The parts of TypeOK, with the names of the row types.
LEMMA Types ==
    ASSUME TypeOK
    PROVE  /\ wallet \in WalletRow /\ invoice \in [Invoices -> InvoiceRow] /\ sub \in [Subs -> SubRow]
           /\ books \in BookRow /\ moved \in MovedRow /\ skew \subseteq Skews
           /\ started \in 0 .. MaxRequests /\ overlapped \in BOOLEAN /\ workload \in Workloads
BY DEF TypeOK, WalletRow, InvoiceRow, SubRow, BookRow, MovedRow, Skews

\* The net on account 1300 is an integer.
LEMMA NetInt ==
    ASSUME TypeOK
    PROVE  NetReceivable \in Int /\ SumFunctionOnSet([i \in Invoices |-> invoice[i].ar], Invoices) \in Int
<1> DEFINE f == [i \in Invoices |-> invoice[i].ar]
<1>1. \A i \in Invoices : f[i] \in Int
  BY Types DEF InvoiceRow
<1>2. Loose \in Int
  BY Types DEF Loose, BookRow
<1> HIDE DEF f
<1>3. SumFunctionOnSet(f, Invoices) \in Int
  BY <1>1, RowsFinite, SumInt
<1> QED BY <1>2, <1>3 DEF f, NetReceivable

\* The open debt is the larger of account 1300 and the wallet's debt.
LEMMA OpenDebtIs ==
    ASSUME TypeOK
    PROVE  /\ OpenDebt \in Nat /\ OpenDebt \in {0, NetReceivable, wallet.debt}
           /\ OpenDebt >= NetReceivable /\ OpenDebt >= wallet.debt
<1>1. wallet.debt \in Int
  BY Types DEF WalletRow
<1> DEFINE n == NetReceivable
           d == wallet.debt
<1>2. n \in Int /\ d \in Int
  BY <1>1, NetInt
<1> HIDE DEF n, d
<1>3. Max({0, n, d}) \in Nat /\ Max({0, n, d}) >= n /\ Max({0, n, d}) >= d /\ Max({0, n, d}) \in {0, n, d}
  BY <1>2, MaxOfThree
<1> QED BY <1>3 DEF n, d, OpenDebt

\* What remains of an invoice is not negative.
LEMMA RemainingNat ==
    ASSUME TypeOK, NEW i \in Invoices
    PROVE  Remaining(i) \in Nat
<1> DEFINE open == [j \in Invoices |-> Floor(invoice[j].ar)]
<1>1. \A j \in Invoices : open[j] \in Nat
  BY Types DEF InvoiceRow, Floor
<1>2. Unpaid \in SUBSET Invoices /\ books.credits \in Nat
  BY Types DEF Unpaid, BookRow
<1>3. Remaining(i) = open[i] - Fifo(Unpaid, open, books.credits, i)
  BY DEF Remaining
<1> HIDE DEF open
<1>4. Fifo(Unpaid, open, books.credits, i) \in 0 .. open[i]
  BY <1>1, <1>2, FifoWithin
<1> QED BY <1>1, <1>3, <1>4

\* What an invoice is allotted is within what remains of it, and nothing for one
\* that is paid.
LEMMA AllottedWithin ==
    ASSUME TypeOK, NEW i \in Invoices, NEW budget \in Nat
    PROVE  /\ Allotted(i, budget) \in 0 .. Remaining(i)
           /\ Remaining(i) \in Nat
           /\ i \notin Unpaid => Allotted(i, budget) = 0
<1> DEFINE rem == [j \in Invoices |-> Remaining(j)]
<1>1. \A j \in Invoices : rem[j] \in Nat /\ rem[j] = Remaining(j)
  BY RemainingNat
<1>2. Unpaid \in SUBSET Invoices
  BY DEF Unpaid
<1>3. Allotted(i, budget) = IF i \in Unpaid THEN Fifo(Unpaid, rem, budget, i) ELSE 0
  BY DEF Allotted
<1> HIDE DEF rem
<1>4. Fifo(Unpaid, rem, budget, i) \in 0 .. rem[i]
  BY <1>1, <1>2, FifoWithin
<1> QED BY <1>1, <1>3, <1>4

\* No more is spread than the budget.
LEMMA SpreadWithin ==
    ASSUME TypeOK, NEW budget \in Nat
    PROVE  SpreadTotal(budget) \in 0 .. budget
<1> DEFINE rem == [j \in Invoices |-> Remaining(j)]
           share == [i \in Invoices |-> Allotted(i, budget)]
<1>1. \A j \in Invoices : rem[j] \in Nat
  BY RemainingNat
<1>2. Unpaid \in SUBSET Invoices /\ IsFiniteSet(Unpaid)
  BY RowsFinite DEF Unpaid
<1>3. \A j \in Invoices : share[j] \in Nat /\ share[j] \in Int
  BY AllottedWithin
<1>4. \A j \in Invoices \ Unpaid : share[j] = 0
  BY AllottedWithin
<1>5. \A x \in Unpaid : share[x] = Fifo(Unpaid, rem, budget, x)
  BY <1>2 DEF Allotted
<1>6. SpreadTotal(budget) = SumFunctionOnSet(share, Invoices)
  BY DEF SpreadTotal
<1> HIDE DEF rem, share
<1>7. SumFunctionOnSet(share, Invoices) = SumFunctionOnSet(share, Unpaid)
  BY <1>2, <1>3, <1>4, RowsFinite, SumWithin
<1>8. SumFunctionOnSet(share, Unpaid) = Lesser(budget, SumFunctionOnSet(rem, Unpaid))
  BY <1>1, <1>2, <1>5, FifoTotal
<1>9. SumFunctionOnSet(rem, Unpaid) \in Nat
  BY <1>1, <1>2, SumNat
<1> QED BY <1>6, <1>7, <1>8, <1>9 DEF Lesser

\* With every invoice paid nothing is spread.
LEMMA NothingSpread ==
    ASSUME TypeOK, Unpaid = {}, NEW budget \in Nat
    PROVE  SpreadTotal(budget) = 0 /\ Spread(budget) = invoice
<1>1. \A i \in Invoices : Allotted(i, budget) = 0
  BY AllottedWithin
<1>2. Spread(budget) = [i \in Invoices |-> invoice[i]]
  BY <1>1 DEF Spread
<1>3. Spread(budget) = invoice
  BY <1>2, Types
<1> DEFINE share == [i \in Invoices |-> Allotted(i, budget)]
<1>4. \A i \in Invoices : share[i] = 0
  BY <1>1
<1>5. SpreadTotal(budget) = SumFunctionOnSet(share, Invoices)
  BY DEF SpreadTotal
<1> HIDE DEF share
<1> QED BY <1>3, <1>4, <1>5, RowsFinite, SumZero

\* The row of an invoice after a budget was spread.
LEMMA SpreadRow ==
    ASSUME TypeOK, NEW budget \in Nat, NEW i \in Invoices
    PROVE  /\ Spread(budget)[i] \in InvoiceRow
           /\ Spread(budget)[i].ar = invoice[i].ar - Allotted(i, budget)
           /\ \E p \in BOOLEAN : Spread(budget)[i] = [invoice[i] EXCEPT !.ar = @ - Allotted(i, budget), !.paid = p]
           /\ i \notin Unpaid => Spread(budget)[i] = invoice[i]
<1>1. Allotted(i, budget) \in Nat /\ (i \notin Unpaid => Allotted(i, budget) = 0)
  BY AllottedWithin
<1>2. invoice[i] \in InvoiceRow
  BY Types
<1> DEFINE a == Allotted(i, budget)
           b == (a = Remaining(i))
           row == invoice[i]
<1>3. Spread(budget)[i] = IF a = 0 THEN row ELSE [row EXCEPT !.ar = @ - a, !.paid = b]
  BY DEF Spread
<1>4. b \in BOOLEAN /\ a \in Nat /\ row \in InvoiceRow
  BY <1>1, <1>2
<1> HIDE DEF a, b, row
<1> DEFINE v == row.ar - a
<1>5. v \in Int /\ (a = 0 => v = row.ar) /\ row.paid \in BOOLEAN
  BY <1>4 DEF InvoiceRow
<1>6. Spread(budget)[i] = IF a = 0 THEN row ELSE [row EXCEPT !.ar = v, !.paid = b]
  BY <1>3
<1> HIDE DEF v
<1>7. [row EXCEPT !.ar = v, !.paid = b] \in InvoiceRow /\ [row EXCEPT !.ar = v, !.paid = b].ar = v
  BY <1>4, <1>5 DEF InvoiceRow
<1>8. row = [row EXCEPT !.ar = row.ar, !.paid = row.paid]
  BY <1>4 DEF InvoiceRow
<1>9. /\ Spread(budget)[i] \in InvoiceRow /\ Spread(budget)[i].ar = v
      /\ \E p \in BOOLEAN : Spread(budget)[i] = [row EXCEPT !.ar = v, !.paid = p]
  <2>1. CASE a = 0
    BY <1>4, <1>5, <1>6, <1>8, <2>1
  <2>2. CASE a # 0
    BY <1>4, <1>6, <1>7, <2>2
  <2> QED BY <2>1, <2>2
<1>10. i \notin Unpaid => Spread(budget)[i] = row
  BY <1>1, <1>6 DEF a
<1> QED BY <1>9, <1>10 DEF a, row, v

\* The prepaid reconcile spends no more than the balance.
LEMMA PrepaidWithin ==
    ASSUME NEW rowsOf \in [Invoices -> InvoiceRow], NEW balance \in Nat
    PROVE  /\ Prepaid(rowsOf, balance) \in SUBSET {i \in Invoices : rowsOf[i].kind # "ABSENT" /\ ~rowsOf[i].paid}
           /\ SumFunctionOnSet([i \in Invoices |-> rowsOf[i].total], Prepaid(rowsOf, balance)) \in 0 .. balance
<1> DEFINE open == {i \in Invoices : rowsOf[i].kind # "ABSENT" /\ ~rowsOf[i].paid}
           due == [i \in Invoices |-> rowsOf[i].total]
           P == Prepaid(rowsOf, balance)
<1>1. P = {i \in open : SumFunctionOnSet(due, {j \in open : j <= i}) <= balance}
  BY DEF Prepaid
<1>2. \A i \in Invoices : due[i] \in Nat
  BY DEF InvoiceRow
<1>3. open \in SUBSET Invoices /\ P \in SUBSET open
  BY <1>1
<1> HIDE DEF P, due, open
<1>4. IsFiniteSet(P) /\ P \subseteq Nat
  BY <1>3, RowsFinite
<1>5. SumFunctionOnSet(due, P) \in Nat
  BY <1>2, <1>3, <1>4, SumNat
<1>6. CASE P = {}
  BY <1>3, <1>6, SumEmpty DEF P, due, open
<1>7. CASE P # {}
  <2>1. PICK m \in P : \A x \in P : x <= m
    BY <1>3, <1>7, LatestInvoice
  <2> DEFINE U == {j \in open : j <= m}
  <2>2. P \in SUBSET U /\ U \in SUBSET Invoices /\ IsFiniteSet(U)
    BY <1>3, <2>1, RowsFinite
  <2>3. SumFunctionOnSet(due, U) <= balance
    BY <1>1, <2>1
  <2> HIDE DEF U
  <2>4. \A x \in U : due[x] \in Nat
    BY <1>2, <2>2
  <2>5. SumFunctionOnSet(due, P) <= SumFunctionOnSet(due, U) /\ SumFunctionOnSet(due, U) \in Nat
    BY <2>2, <2>4, SumSubset, SumNat
  <2> QED BY <1>3, <1>5, <2>3, <2>5 DEF P, due, open
<1> QED BY <1>6, <1>7

\* What a cancellation voids and refunds is within the balance, and the refund
\* within the price.
LEMMA RefundWithin ==
    ASSUME NEW left \in 0 .. Term, NEW balance \in Nat
    PROVE  /\ GiftVoid(left, balance) \in 0 .. balance
           /\ CashRefund(left, balance) \in 0 .. (balance - GiftVoid(left, balance))
           /\ CashRefund(left, balance) <= Price
<1>0. Term \in Nat /\ Term > 0 /\ Price \in Nat /\ Credit - Price \in Nat /\ left \in Nat /\ left <= Term
  BY WalletDeskAssumption
<1>1. ASSUME NEW a \in Nat PROVE (a * left) \in Nat /\ (a * left) <= a * Term /\ a * Term \in Nat
  BY <1>0, <1>1
<1>2. ASSUME NEW a \in Nat PROVE (a * left) \div Term \in 0 .. a
  <2> DEFINE x == a * left
             q == x \div Term
  <2>1. x \in Nat /\ x <= a * Term
    BY <1>1, <1>2
  <2> HIDE DEF x
  <2>2. q \in Int /\ Term * q <= x /\ x < Term * (q + 1)
    BY <1>0, <2>1
  <2> HIDE DEF q
  <2>3. q <= a /\ q >= 0
    BY <1>0, <2>1, <2>2
  <2> QED BY <2>2, <2>3 DEF q, x
<1>3. ((Credit - Price) * left) \div Term \in Nat /\ (Price * left) \div Term \in 0 .. Price
  BY <1>0, <1>2
<1> DEFINE x == ((Credit - Price) * left) \div Term
           y == (Price * left) \div Term
<1>4. x \in Nat /\ y \in 0 .. Price
  BY <1>3
<1>5. GiftVoid(left, balance) = Lesser(x, balance) /\ CashRefund(left, balance) = Lesser(y, balance - Lesser(x, balance))
  BY DEF GiftVoid, CashRefund
<1> HIDE DEF x, y
<1> QED BY <1>0, <1>4, <1>5 DEF Lesser

-----------------------------------------------------------------------------
(* What payments and activations do to the invoices *)

\* Only payment links change, and of those neither the method nor the void.
LinkOnly(f) ==
    /\ f \in [Invoices -> InvoiceRow]
    /\ \A i \in Invoices : invoice[i].kind # "LINK" => f[i] = invoice[i]
    /\ \A i \in Invoices : invoice[i].kind = "LINK" =>
          f[i].kind = "LINK" /\ f[i].canceled = FALSE /\ f[i].refs = invoice[i].refs

\* What is unpaid is a payment link.
LEMMA UnpaidLink ==
    ASSUME TypeOK, InvoicesOK, NEW i \in Unpaid
    PROVE  i \in Invoices /\ invoice[i].kind = "LINK"
BY Types DEF InvoicesOK, InvoiceOK, Unpaid, InvoiceRow, Kinds, Settled

\* The invoices as they are.
LEMMA SameLinkOnly ==
    ASSUME TypeOK, InvoicesOK
    PROVE  LinkOnly(invoice)
<1>1. \A i \in Invoices : invoice[i].kind = "LINK" => invoice[i].canceled = FALSE
  <2>1. \A i \in Invoices : invoice[i].canceled \in BOOLEAN
    BY Types DEF InvoiceRow
  <2> QED BY <2>1, Zenon DEF InvoicesOK, InvoiceOK
<1> QED BY <1>1, Types DEF LinkOnly

\* A budget that is spread.
LEMMA SpreadLinkOnly ==
    ASSUME TypeOK, InvoicesOK, NEW budget \in Nat
    PROVE  LinkOnly(Spread(budget))
<1> DEFINE f == Spread(budget)
<1>1. f \in [Invoices -> InvoiceRow]
  <2>1. f = [i \in Invoices |-> f[i]]
    BY DEF Spread
  <2> HIDE DEF f
  <2>2. \A i \in Invoices : f[i] \in InvoiceRow
    BY SpreadRow DEF f
  <2> QED BY <2>1, <2>2
<1>2. ASSUME NEW i \in Invoices, invoice[i].kind # "LINK" PROVE f[i] = invoice[i]
  BY <1>2, SpreadRow, UnpaidLink
<1>3. ASSUME NEW i \in Invoices, invoice[i].kind = "LINK"
      PROVE  f[i].kind = "LINK" /\ f[i].canceled = FALSE /\ f[i].refs = invoice[i].refs
  <2> DEFINE row == invoice[i]
  <2>1. row \in InvoiceRow /\ row.canceled = FALSE /\ row.kind = "LINK"
    BY <1>3, SameLinkOnly, Types DEF LinkOnly
  <2>2. PICK p \in BOOLEAN : f[i] = [row EXCEPT !.ar = @ - Allotted(i, budget), !.paid = p]
    BY SpreadRow
  <2> HIDE DEF f, row
  <2>3. f[i].kind = row.kind /\ f[i].canceled = row.canceled /\ f[i].refs = row.refs
    BY <2>1, <2>2 DEF InvoiceRow
  <2> QED BY <2>1, <2>3 DEF row
<1> HIDE DEF f
<1> QED BY <1>1, <1>2, <1>3 DEF LinkOnly, f

\* Then other receivables for the payment links.
LEMMA LinkOnlyAr ==
    ASSUME TypeOK, NEW f, LinkOnly(f), NEW v, \A i \in Invoices : v[i] \in Int,
           \A i \in Invoices : invoice[i].kind # "LINK" => v[i] = invoice[i].ar
    PROVE  LinkOnly([i \in Invoices |-> [f[i] EXCEPT !.ar = v[i]]])
<1> DEFINE g == [i \in Invoices |-> [f[i] EXCEPT !.ar = v[i]]]
<1>1. ASSUME NEW i \in Invoices
      PROVE  /\ g[i] \in InvoiceRow
             /\ g[i].kind = f[i].kind /\ g[i].canceled = f[i].canceled /\ g[i].refs = f[i].refs
             /\ v[i] = f[i].ar => g[i] = f[i]
  <2> DEFINE row == f[i]
             w == v[i]
  <2>1. row \in InvoiceRow /\ w \in Int
    BY DEF LinkOnly
  <2>2. g[i] = [row EXCEPT !.ar = w]
    OBVIOUS
  <2> HIDE DEF row, w, g
  <2>3. /\ g[i] \in InvoiceRow
        /\ g[i].kind = row.kind /\ g[i].canceled = row.canceled /\ g[i].refs = row.refs
    BY <2>1, <2>2 DEF InvoiceRow
  <2>4. w = row.ar => g[i] = row
    BY <2>1, <2>2 DEF InvoiceRow
  <2> QED BY <2>3, <2>4 DEF row, w
<1>2. g \in [Invoices -> InvoiceRow]
  BY <1>1
<1> HIDE DEF g
<1>3. LinkOnly(g)
  BY <1>1, <1>2 DEF LinkOnly
<1> QED BY <1>3 DEF g

\* Then the prepaid reconcile.
LEMMA LinkOnlyPrepaid ==
    ASSUME TypeOK, InvoicesOK, NEW f, LinkOnly(f),
           NEW P \in SUBSET {i \in Invoices : f[i].kind # "ABSENT" /\ ~f[i].paid}
    PROVE  LinkOnly([i \in Invoices |->
                        IF i \in P THEN [f[i] EXCEPT !.paid = TRUE, !.ar = @ - f[i].total] ELSE f[i]])
<1> DEFINE g == [i \in Invoices |->
                    IF i \in P THEN [f[i] EXCEPT !.paid = TRUE, !.ar = @ - f[i].total] ELSE f[i]]
<1>1. ASSUME NEW i \in Invoices
      PROVE  /\ g[i] \in InvoiceRow
             /\ g[i].kind = f[i].kind /\ g[i].canceled = f[i].canceled /\ g[i].refs = f[i].refs
             /\ i \notin P => g[i] = f[i]
  <2> DEFINE row == f[i]
             w == row.ar - row.total
  <2>1. row \in InvoiceRow
    BY DEF LinkOnly
  <2>2. w \in Int
    BY <2>1 DEF InvoiceRow
  <2>3. g[i] = IF i \in P THEN [row EXCEPT !.paid = TRUE, !.ar = w] ELSE row
    OBVIOUS
  <2> HIDE DEF row, w, g
  <2>4. [row EXCEPT !.paid = TRUE, !.ar = w] \in InvoiceRow
    BY <2>1, <2>2 DEF InvoiceRow
  <2>5. g[i] \in InvoiceRow
    BY <2>1, <2>3, <2>4
  <2>6. g[i].kind = row.kind /\ g[i].canceled = row.canceled /\ g[i].refs = row.refs
    BY <2>1, <2>3 DEF InvoiceRow
  <2> QED BY <2>3, <2>5, <2>6 DEF row
<1>2. g \in [Invoices -> InvoiceRow]
  BY <1>1
<1>3. \A i \in P : invoice[i].kind = "LINK"
  <2>1. SUFFICES ASSUME NEW i \in P, invoice[i].kind # "LINK" PROVE FALSE
    OBVIOUS
  <2>2. i \in Invoices /\ f[i] = invoice[i]
    BY <2>1 DEF LinkOnly
  <2>3. i \in Unpaid
    BY <2>2 DEF Unpaid
  <2> QED BY <2>1, <2>3, UnpaidLink
<1> HIDE DEF g
<1>4. LinkOnly(g)
  BY <1>1, <1>2, <1>3 DEF LinkOnly
<1> QED BY <1>4 DEF g

\* Without payment links everything is paid.
LEMMA NoLinks ==
    ASSUME TypeOK, InvoicesOK, \A i \in Invoices : invoice[i].kind # "LINK"
    PROVE  /\ Unpaid = {}
           /\ \A f : LinkOnly(f) => f = invoice
           /\ \A f, b : LinkOnly(f) => Prepaid(f, b) = {}
<1>1. Unpaid = {}
  BY UnpaidLink
<1>2. ASSUME NEW f, LinkOnly(f) PROVE f = invoice
  BY <1>2, Types DEF LinkOnly
<1>3. ASSUME NEW b PROVE Prepaid(invoice, b) = {}
  BY <1>1 DEF Prepaid, Unpaid
<1> QED BY <1>1, <1>2, <1>3

\* Invoices of which only payment links changed are sound.
LEMMA LinkOnlySound ==
    ASSUME TypeOK, InvoicesOK, LinkOnly(invoice')
    PROVE  InvoicesOK' /\ \A i \in Invoices : invoice[i].kind \in Settled => invoice'[i].kind \in Settled
<1>1. ASSUME NEW i \in Invoices PROVE InvoiceOK(invoice'[i])
  <2>1. CASE invoice[i].kind # "LINK"
    BY <2>1 DEF LinkOnly, InvoicesOK
  <2>2. CASE invoice[i].kind = "LINK"
    <3> DEFINE new == invoice'[i]
    <3>1. new.kind = "LINK" /\ new.canceled = FALSE /\ new.refs = invoice[i].refs
      BY <2>2 DEF LinkOnly
    <3>2. "cancellation" \notin invoice[i].refs
      BY <2>2 DEF InvoicesOK, InvoiceOK
    <3> HIDE DEF new
    <3>3. InvoiceOK(new)
      BY <3>1, <3>2 DEF InvoiceOK, Settled
    <3> QED BY <3>3 DEF new
  <2> QED BY <2>1, <2>2
<1>2. \A i \in Invoices : invoice[i].kind \in Settled => invoice'[i].kind \in Settled
  BY DEF LinkOnly, Settled
<1> QED BY <1>1, <1>2 DEF InvoicesOK

-----------------------------------------------------------------------------
(* What the steps of a request do *)

\* A payment: what is spread is within its total; without payment links nothing is.
LEMMA PayEffect ==
    ASSUME DInv, NEW s \in Sessions, CommitPay(s)
    PROVE  \E spread \in Nat :
              LET r == session[s]
                  rest == Floor(r.amount - spread)
              IN  /\ r.op = "pay" /\ r.amount \in Nat /\ r.discount \in Nat
                  /\ r.amount + r.discount <= OpenDebt
                  /\ spread <= r.amount + r.discount
                  /\ Unpaid = {} => spread = 0
                  /\ (\A i \in Invoices : invoice[i].kind # "LINK") => spread = 0 /\ invoice' = invoice
                  /\ wallet' = [wallet EXCEPT !.debt = r.seen.debt - Lesser(r.amount + r.discount, r.seen.debt)]
                  /\ LinkOnly(invoice')
                  /\ books' = [books EXCEPT !.cash = @ + (IF r.amount > 0 THEN spread ELSE 0) + rest,
                                            !.credits = @ + rest + r.discount]
                  /\ moved' = [moved EXCEPT !.received = @ + r.amount]
                  /\ skew' = skew \cup (IF r.discount > 0 /\ spread > 0 THEN {"discountSpread"} ELSE {})
                  /\ sub' = sub /\ End(s)
<1> DEFINE r == session[s]
           total == r.amount + r.discount
           spread == SpreadTotal(total)
<1>0. TypeOK /\ InvoicesOK /\ r \in SessionRow
  BY DEF DInv, SessionsOK
<1>1. r.amount \in Nat /\ r.discount \in Nat /\ total \in Nat
  BY <1>0 DEF SessionRow
<1>2. spread \in 0 .. total
  BY <1>0, <1>1, SpreadWithin
<1>3. Unpaid = {} => spread = 0
  BY <1>0, <1>1, NothingSpread
<1> DEFINE v == [i \in Invoices |-> IF r.amount > 0 THEN Spread(total)[i].ar ELSE invoice[i].ar]
<1>4. invoice' = [i \in Invoices |-> [Spread(total)[i] EXCEPT !.ar = v[i]]]
  BY DEF CommitPay
<1>5. LinkOnly(invoice')
  <2> DEFINE f == Spread(total)
  <2>1. LinkOnly(f)
    BY <1>0, <1>1, SpreadLinkOnly
  <2> HIDE DEF f
  <2>2. \A i \in Invoices : v[i] = (IF r.amount > 0 THEN f[i].ar ELSE invoice[i].ar)
    BY DEF f
  <2>3. \A i \in Invoices : f[i] \in InvoiceRow /\ invoice[i] \in InvoiceRow
    BY <1>0, <2>1, Types DEF LinkOnly
  <2>4. \A i \in Invoices : f[i].ar \in Int /\ invoice[i].ar \in Int
    BY <2>3 DEF InvoiceRow
  <2>5. invoice' = [i \in Invoices |-> [f[i] EXCEPT !.ar = v[i]]]
    BY <1>4 DEF f
  <2> HIDE DEF v
  <2>6. \A i \in Invoices : v[i] \in Int /\ (invoice[i].kind # "LINK" => v[i] = invoice[i].ar)
    BY <2>1, <2>2, <2>4 DEF LinkOnly
  <2>7. LinkOnly([i \in Invoices |-> [f[i] EXCEPT !.ar = v[i]]])
    BY <1>0, <2>1, <2>6, LinkOnlyAr
  <2> QED BY <2>5, <2>7
<1>6. (\A i \in Invoices : invoice[i].kind # "LINK") => Unpaid = {} /\ invoice' = invoice
  BY <1>0, <1>5, NoLinks
<1>7. /\ r.op = "pay" /\ total <= OpenDebt
      /\ wallet' = [wallet EXCEPT !.debt = r.seen.debt - Lesser(total, r.seen.debt)]
      /\ books' = [books EXCEPT !.cash = @ + (IF r.amount > 0 THEN spread ELSE 0) + Floor(r.amount - spread),
                                !.credits = @ + Floor(r.amount - spread) + r.discount]
      /\ moved' = [moved EXCEPT !.received = @ + r.amount]
      /\ skew' = skew \cup (IF r.discount > 0 /\ spread > 0 THEN {"discountSpread"} ELSE {})
      /\ sub' = sub /\ End(s)
  BY DEF CommitPay, Ceiling
<1> HIDE DEF spread
<1>8. spread \in Nat
  BY <1>1, <1>2
<1> USE <1>8
<1> WITNESS spread \in Nat
<1> QED BY <1>1, <1>2, <1>3, <1>5, <1>6, <1>7

\* An activation: what it pays is within the credit, what it spreads within that,
\* and what the reconcile spends within the balance; without payment links the last
\* two are nothing.
LEMMA ActivateEffect ==
    ASSUME DInv, NEW s \in Sessions, NEW k \in Subs, CommitActivate(s, k)
    PROVE  \E covered \in Nat, spent \in Nat :
              LET r == session[s]
                  onAccount == r.method = "DEBT_ON_ACCOUNT"
                  paid == Lesser(OpenDebt, Credit)
              IN  /\ r.op = "activate"
                  /\ covered <= paid /\ spent <= r.seen.balance + Credit - paid
                  /\ (\A i \in Invoices : invoice[i].kind # "LINK") => covered = 0 /\ spent = 0 /\ invoice' = invoice
                  /\ sub[k].status = "ABSENT" /\ \A j \in Subs : j < k => sub[j].status # "ABSENT"
                  /\ wallet' = [balance |-> (r.seen.balance + (Credit - paid)) - spent,
                                debt |-> r.seen.debt - Lesser(paid, r.seen.debt) + (IF onAccount THEN Price ELSE 0),
                                plan |-> TRUE, until |-> Term]
                  /\ sub' = Rolled(k)
                  /\ LinkOnly(invoice')
                  /\ books' = [cash |-> books.cash + (IF onAccount THEN 0 ELSE Price + paid),
                               liability |-> books.liability + Credit - spent,
                               debits |-> books.debits + (IF onAccount THEN Price ELSE 0),
                               credits |-> books.credits + (IF onAccount THEN 0 ELSE paid - covered)]
                  /\ moved' = [moved EXCEPT !.received = @ + (IF onAccount THEN 0 ELSE Price)]
                  /\ skew \subseteq skew' /\ skew' \subseteq skew \cup {"debtSettled", "settledOnAccount", "chargedTwice"}
                  /\ paid > 0 => "debtSettled" \in skew' /\ (onAccount => "settledOnAccount" \in skew')
                  /\ End(s)
<1> DEFINE r == session[s]
           onAccount == r.method = "DEBT_ON_ACCOUNT"
           paid == Lesser(OpenDebt, Credit)
           spread == IF r.close THEN Spread(paid) ELSE invoice
           v == [i \in Invoices |-> IF onAccount THEN invoice[i].ar ELSE spread[i].ar]
           closed == [i \in Invoices |-> [spread[i] EXCEPT !.ar = IF onAccount THEN invoice[i].ar ELSE @]]
           covered == IF r.close THEN SpreadTotal(paid) ELSE 0
           balance == r.seen.balance + (Credit - paid)
           prepaid == Prepaid(closed, balance)
           spent == SumFunctionOnSet([i \in Invoices |-> closed[i].total], prepaid)
<1>0. TypeOK /\ InvoicesOK /\ r \in SessionRow
  BY DEF DInv, SessionsOK
<1>1. paid \in Nat /\ paid <= Credit /\ r.seen.balance \in Nat /\ balance \in Nat
  <2>1. OpenDebt \in Nat /\ Credit \in Nat
    BY <1>0, OpenDebtIs, WalletDeskAssumption
  <2>2. r.seen.balance \in Nat
    BY <1>0 DEF SessionRow, WalletRow
  <2> QED BY <2>1, <2>2 DEF Lesser
<1>2. /\ r.op = "activate"
      /\ sub[k].status = "ABSENT" /\ \A j \in Subs : j < k => sub[j].status # "ABSENT"
      /\ wallet' = [balance |-> balance - spent,
                    debt |-> r.seen.debt - Lesser(paid, r.seen.debt) + (IF onAccount THEN Price ELSE 0),
                    plan |-> TRUE, until |-> Term]
      /\ sub' = Rolled(k)
      /\ invoice' = [i \in Invoices |->
            IF i \in prepaid THEN [closed[i] EXCEPT !.paid = TRUE, !.ar = @ - closed[i].total] ELSE closed[i]]
      /\ books' = [cash |-> books.cash + (IF onAccount THEN 0 ELSE Price + paid),
                   liability |-> books.liability + Credit - spent,
                   debits |-> books.debits + (IF onAccount THEN Price ELSE 0),
                   credits |-> books.credits + (IF onAccount THEN 0 ELSE paid - covered)]
      /\ moved' = [moved EXCEPT !.received = @ + (IF onAccount THEN 0 ELSE Price)]
      /\ End(s)
  BY DEF CommitActivate, Credited
<1>11. skew' = skew \cup (IF paid > 0 THEN {"debtSettled"} ELSE {})
                     \cup (IF paid > 0 /\ onAccount THEN {"settledOnAccount"} ELSE {})
                     \cup (IF \E i \in prepaid : closed[i].ar # closed[i].total THEN {"chargedTwice"} ELSE {})
  BY DEF CommitActivate, Credited
<1>12. /\ skew \subseteq skew' /\ skew' \subseteq skew \cup {"debtSettled", "settledOnAccount", "chargedTwice"}
       /\ paid > 0 => "debtSettled" \in skew' /\ (onAccount => "settledOnAccount" \in skew')
  <2> HIDE DEF closed, prepaid, paid, onAccount
  <2> QED BY <1>11
<1>13. closed = [i \in Invoices |-> [spread[i] EXCEPT !.ar = v[i]]]
  <2> HIDE DEF spread, onAccount
  <2> QED OBVIOUS
<1> HIDE DEF paid
<1>3. LinkOnly(spread)
  BY <1>0, <1>1, SpreadLinkOnly, SameLinkOnly
<1>4. LinkOnly(closed)
  <2> HIDE DEF spread
  <2>3. \A i \in Invoices : spread[i] \in InvoiceRow /\ invoice[i] \in InvoiceRow
    BY <1>0, <1>3, Types DEF LinkOnly
  <2>4. \A i \in Invoices : spread[i].ar \in Int /\ invoice[i].ar \in Int
    BY <2>3 DEF InvoiceRow
  <2>6. \A i \in Invoices : v[i] \in Int /\ (invoice[i].kind # "LINK" => v[i] = invoice[i].ar)
    BY <1>3, <2>4 DEF LinkOnly
  <2> HIDE DEF v, closed
  <2>7. LinkOnly([i \in Invoices |-> [spread[i] EXCEPT !.ar = v[i]]])
    BY <1>0, <1>3, <2>6, LinkOnlyAr
  <2> QED BY <1>13, <2>7
<1>5. covered \in Nat /\ covered <= paid
  BY <1>0, <1>1, SpreadWithin
<1>6. prepaid \in SUBSET {i \in Invoices : closed[i].kind # "ABSENT" /\ ~closed[i].paid} /\ spent \in 0 .. balance
  <2>1. closed \in [Invoices -> InvoiceRow]
    BY <1>4 DEF LinkOnly
  <2> HIDE DEF closed, balance
  <2> QED BY <1>1, <2>1, PrepaidWithin
<1>7. LinkOnly(invoice')
  <2> HIDE DEF closed, prepaid
  <2> QED BY <1>0, <1>2, <1>4, <1>6, LinkOnlyPrepaid
<1>8. ASSUME \A i \in Invoices : invoice[i].kind # "LINK"
      PROVE  covered = 0 /\ spent = 0 /\ invoice' = invoice
  <2>1. Unpaid = {} /\ invoice' = invoice /\ prepaid = {}
    <3> HIDE DEF closed, balance
    <3> QED BY <1>0, <1>4, <1>7, <1>8, NoLinks
  <2>2. covered = 0
    BY <1>0, <1>1, <2>1, NothingSpread
  <2>3. spent = 0
    <3> HIDE DEF closed, prepaid
    <3> QED BY <2>1, SumEmpty
  <2> QED BY <2>1, <2>2, <2>3
<1> HIDE DEF covered, spent, closed, prepaid, spread, v
<1>9. spent <= r.seen.balance + Credit - paid /\ spent \in Nat
  BY <1>1, <1>6, WalletDeskAssumption
<1>10. covered \in Nat /\ spent \in Nat
  BY <1>5, <1>9
<1> USE <1>10
<1> WITNESS covered \in Nat, spent \in Nat
<1>14. (\A i \in Invoices : invoice[i].kind # "LINK") => covered = 0 /\ spent = 0 /\ invoice' = invoice
  BY <1>8
<1>15. /\ r.op = "activate"
       /\ sub[k].status = "ABSENT" /\ \A j \in Subs : j < k => sub[j].status # "ABSENT"
       /\ wallet' = [balance |-> (r.seen.balance + (Credit - paid)) - spent,
                     debt |-> r.seen.debt - Lesser(paid, r.seen.debt) + (IF onAccount THEN Price ELSE 0),
                     plan |-> TRUE, until |-> Term]
       /\ sub' = Rolled(k)
       /\ books' = [cash |-> books.cash + (IF onAccount THEN 0 ELSE Price + paid),
                    liability |-> books.liability + Credit - spent,
                    debits |-> books.debits + (IF onAccount THEN Price ELSE 0),
                    credits |-> books.credits + (IF onAccount THEN 0 ELSE paid - covered)]
       /\ moved' = [moved EXCEPT !.received = @ + (IF onAccount THEN 0 ELSE Price)]
       /\ End(s)
  BY <1>2, Zenon
<1> QED BY <1>5, <1>7, <1>9, <1>12, <1>14, <1>15, Zenon DEF paid

-----------------------------------------------------------------------------
(* Subscriptions *)

\* The parent of a new subscription: the active one, if there is one.
Parent == IF ActiveSub = {} THEN 0 ELSE Max(ActiveSub)

\* It is the only active one.
LEMMA ParentIs ==
    ASSUME TypeOK, ChainOK
    PROVE  /\ Parent \in Subs \cup {0}
           /\ Parent # 0 <=> ActiveSub # {}
           /\ \A j \in Subs : sub[j].status = "ACTIVE" <=> j = Parent
<1>1. CASE ActiveSub = {}
  BY <1>1, RowsFinite DEF Parent, ActiveSub
<1>2. CASE ActiveSub # {}
  <2>1. PICK a \in Subs : sub[a].status = "ACTIVE"
    BY <1>2 DEF ActiveSub
  <2>2. ActiveSub = {a} /\ \A j \in Subs : sub[j].status = "ACTIVE" <=> j = a
    BY <2>1 DEF ActiveSub, ChainOK
  <2>3. a \in Nat /\ a # 0
    BY RowsFinite
  <2>4. Max({a}) = a
    BY <2>3 DEF Max
  <2> QED BY <1>2, <2>2, <2>3, <2>4 DEF Parent
<1> QED BY <1>1, <1>2

\* The subscriptions after an activation: the new one is active, its parent rolled
\* over, the others as before.
LEMMA RolledRows ==
    ASSUME TypeOK, ChainOK, NEW k \in Subs, sub[k].status = "ABSENT", NEW new, new = Rolled(k)
    PROVE  /\ new \in [Subs -> SubRow]
           /\ new[k].status = "ACTIVE" /\ new[k].parent = Parent /\ new[k].left = Term
           /\ \A j \in Subs \ {k} :
                 /\ new[j].parent = sub[j].parent /\ new[j].left = sub[j].left
                 /\ new[j].status = IF j = Parent THEN "ROLLED_OVER" ELSE sub[j].status
<1>0. /\ Parent \in Subs \cup {0} /\ Parent # k /\ (Parent # 0 <=> ActiveSub # {}) /\ 0 \notin Subs
      /\ Term \in Nat /\ Term \in 0 .. Term
  BY ParentIs, RowsFinite, WalletDeskAssumption
<1>1. new = [j \in Subs |->
               IF j = k THEN [status |-> "ACTIVE", left |-> Term, parent |-> Parent]
               ELSE IF j = Parent THEN [sub[j] EXCEPT !.status = "ROLLED_OVER"] ELSE sub[j]]
  <2>1. ASSUME NEW j \in Subs
        PROVE  new[j] = IF j = k THEN [status |-> "ACTIVE", left |-> Term, parent |-> Parent]
                        ELSE IF j = Parent THEN [sub[j] EXCEPT !.status = "ROLLED_OVER"] ELSE sub[j]
    <3>1. CASE ActiveSub = {}
      BY <1>0, <3>1 DEF Rolled, Parent
    <3>2. CASE ActiveSub # {}
      BY <1>0, <3>2 DEF Rolled, Parent
    <3> QED BY <3>1, <3>2
  <2>2. new = [j \in Subs |-> new[j]]
    BY DEF Rolled
  <2> QED BY <2>1, <2>2
<1>2. ASSUME NEW j \in Subs PROVE sub[j] \in SubRow
  BY Types
<1>3. new[k] = [status |-> "ACTIVE", left |-> Term, parent |-> Parent]
  BY <1>1
<1>4. ASSUME NEW j \in Subs \ {k}
      PROVE  /\ new[j] \in SubRow /\ new[j].parent = sub[j].parent /\ new[j].left = sub[j].left
             /\ new[j].status = IF j = Parent THEN "ROLLED_OVER" ELSE sub[j].status
  <2>1. new[j] = IF j = Parent THEN [sub[j] EXCEPT !.status = "ROLLED_OVER"] ELSE sub[j]
    BY <1>1
  <2> QED BY <1>2, <2>1 DEF SubRow
<1>5. new[k] \in SubRow
  BY <1>0, <1>3 DEF SubRow
<1>6. new \in [Subs -> SubRow]
  BY <1>1, <1>4, <1>5
<1> QED BY <1>3, <1>4, <1>6

\* An activation keeps the chain.
LEMMA RolledChain ==
    ASSUME TypeOK, ChainOK, NEW k \in Subs, sub[k].status = "ABSENT",
           \A j \in Subs : j < k => sub[j].status # "ABSENT", sub' = Rolled(k)
    PROVE  ChainOK' /\ \A j \in Subs : sub[j].status # "ABSENT" => sub'[j].status # "ABSENT"
<1> DEFINE new == sub'
<1>0. new = Rolled(k)
  OBVIOUS
<1> HIDE DEF new
<1>1. /\ new[k].status = "ACTIVE" /\ new[k].parent = Parent
      /\ \A j \in Subs \ {k} : new[j].parent = sub[j].parent /\ new[j].status = IF j = Parent THEN "ROLLED_OVER" ELSE sub[j].status
  BY <1>0, RolledRows
<1>2. /\ Parent \in Subs \cup {0} /\ 0 \notin Subs /\ Subs \subseteq Nat
      /\ \A j \in Subs : sub[j].status = "ACTIVE" <=> j = Parent
  BY ParentIs, RowsFinite
<1>3. Parent # k /\ \A j \in Subs : sub[j].parent \in Subs \cup {0}
  BY <1>2, Types DEF SubRow
<1>4. Parent # 0 => Parent < k
  BY <1>2, <1>3 DEF ChainOK
<1>5. \A j \in Subs : sub[j].parent # Parent \/ Parent = 0
  BY <1>2 DEF ChainOK
<1>6. \A j \in Subs : sub[j].parent # k
  BY DEF ChainOK
<1>7. \A j \in Subs : new[j].status = "ABSENT" => new[j].parent = 0
  BY <1>1 DEF ChainOK
<1>8. \A j, l \in Subs : j < l /\ new[l].status # "ABSENT" => new[j].status # "ABSENT"
  BY <1>1, <1>2, <1>3 DEF ChainOK
<1>9. \A j, l \in Subs : new[j].parent = l => l < j /\ new[l].status \in {"ROLLED_OVER", "CANCELLED"}
  <2> SUFFICES ASSUME NEW j \in Subs, NEW l \in Subs, new[j].parent = l
               PROVE  l < j /\ new[l].status \in {"ROLLED_OVER", "CANCELLED"}
    OBVIOUS
  <2>1. CASE j = k
    BY <1>1, <1>2, <1>3, <1>4, <2>1
  <2>2. CASE j # k
    BY <1>1, <1>6, <2>2 DEF ChainOK
  <2> QED BY <2>1, <2>2
<1>10. \A j, l \in Subs : new[j].status = "ACTIVE" /\ new[l].status = "ACTIVE" => j = l
  BY <1>1, <1>2
<1>11. \A l \in Subs : new[l].status = "ROLLED_OVER" => \E j \in Subs : j > l /\ new[j].parent = l
  <2> SUFFICES ASSUME NEW l \in Subs, new[l].status = "ROLLED_OVER" PROVE \E j \in Subs : j > l /\ new[j].parent = l
    OBVIOUS
  <2>1. CASE l = Parent
    BY <1>1, <1>2, <1>4, <2>1
  <2>2. CASE l # Parent
    <3>1. l # k /\ sub[l].status = "ROLLED_OVER"
      BY <1>1, <2>2
    <3>2. PICK j \in Subs : j > l /\ sub[j].parent = l
      BY <3>1 DEF ChainOK
    <3>3. j # k
      BY <1>2, <3>2 DEF ChainOK
    <3> QED BY <1>1, <3>2, <3>3
  <2> QED BY <2>1, <2>2
<1>12. \A j, l \in Subs : new[j].parent = new[l].parent /\ new[l].parent # 0 => j = l
  <2> SUFFICES ASSUME NEW j \in Subs, NEW l \in Subs, new[j].parent = new[l].parent, new[l].parent # 0 PROVE j = l
    OBVIOUS
  <2>1. CASE j = k /\ l # k
    BY <1>1, <1>5, <2>1
  <2>2. CASE j # k /\ l = k
    BY <1>1, <1>5, <2>2
  <2>3. CASE j # k /\ l # k
    BY <1>1, <2>3 DEF ChainOK
  <2> QED BY <2>1, <2>2, <2>3
<1>13. ChainOK'
  BY <1>7, <1>8, <1>9, <1>10, <1>11, <1>12 DEF ChainOK, new
<1>14. \A j \in Subs : sub[j].status # "ABSENT" => new[j].status # "ABSENT"
  BY <1>1
<1> QED BY <1>13, <1>14 DEF new

\* A cancellation keeps the chain.
LEMMA CancelledChain ==
    ASSUME TypeOK, ChainOK, NEW k \in Subs, sub[k].status # "ABSENT",
           sub' = [sub EXCEPT ![k].status = "CANCELLED"]
    PROVE  /\ sub' \in [Subs -> SubRow] /\ ChainOK'
           /\ \A j \in Subs : sub[j].status # "ABSENT" => sub'[j].status # "ABSENT"
           /\ \A j \in Subs : sub'[j].status = IF j = k THEN "CANCELLED" ELSE sub[j].status
<1> DEFINE new == sub'
<1>0. \A j \in Subs : sub[j] \in SubRow
  BY Types
<1>1. /\ new \in [Subs -> SubRow]
      /\ \A j \in Subs : new[j].parent = sub[j].parent /\ new[j].status = IF j = k THEN "CANCELLED" ELSE sub[j].status
  BY <1>0, Types DEF SubRow
<1> HIDE DEF new
<1>2. /\ \A j \in Subs : new[j].status = "ABSENT" => new[j].parent = 0
      /\ \A j, l \in Subs : j < l /\ new[l].status # "ABSENT" => new[j].status # "ABSENT"
      /\ \A j, l \in Subs : new[j].status = "ACTIVE" /\ new[l].status = "ACTIVE" => j = l
      /\ \A j, l \in Subs : new[j].parent = new[l].parent /\ new[l].parent # 0 => j = l
  BY <1>1 DEF ChainOK
<1>3. \A j, l \in Subs : new[j].parent = l => l < j /\ new[l].status \in {"ROLLED_OVER", "CANCELLED"}
  BY <1>1 DEF ChainOK
<1>4. \A l \in Subs : new[l].status = "ROLLED_OVER" => \E j \in Subs : j > l /\ new[j].parent = l
  BY <1>1 DEF ChainOK
<1>5. ChainOK'
  BY <1>2, <1>3, <1>4 DEF ChainOK, new
<1> QED BY <1>1, <1>5 DEF new

\* A day keeps the chain.
LEMMA DayChain ==
    ASSUME TypeOK, ChainOK, sub' = [k \in Subs |-> [sub[k] EXCEPT !.left = Floor(@ - 1)]]
    PROVE  /\ sub' \in [Subs -> SubRow] /\ ChainOK'
           /\ \A j \in Subs : sub'[j].status = sub[j].status
<1> DEFINE new == sub'
<1>0. Term \in Nat
  BY WalletDeskAssumption
<1>1. ASSUME NEW j \in Subs
      PROVE  new[j] \in SubRow /\ new[j].parent = sub[j].parent /\ new[j].status = sub[j].status
  <2> DEFINE row == sub[j]
             x == Floor(row.left - 1)
  <2>1. row \in SubRow
    BY Types
  <2>2. x \in 0 .. Term
    BY <1>0, <2>1 DEF Floor, SubRow
  <2>3. new[j] = [row EXCEPT !.left = x]
    OBVIOUS
  <2> HIDE DEF x, row, new
  <2>4. new[j] \in SubRow /\ new[j].parent = row.parent /\ new[j].status = row.status
    BY <2>1, <2>2, <2>3 DEF SubRow
  <2> QED BY <2>4 DEF row
<1>2. new \in [Subs -> SubRow]
  BY <1>1
<1> HIDE DEF new
<1>4. \A j \in Subs : new[j].parent = sub[j].parent /\ new[j].status = sub[j].status
  BY <1>1
<1>5. /\ \A j \in Subs : new[j].status = "ABSENT" => new[j].parent = 0
      /\ \A j, l \in Subs : j < l /\ new[l].status # "ABSENT" => new[j].status # "ABSENT"
      /\ \A j, l \in Subs : new[j].status = "ACTIVE" /\ new[l].status = "ACTIVE" => j = l
      /\ \A j, l \in Subs : new[j].parent = new[l].parent /\ new[l].parent # 0 => j = l
  BY <1>4 DEF ChainOK
<1>6. \A j, l \in Subs : new[j].parent = l => l < j /\ new[l].status \in {"ROLLED_OVER", "CANCELLED"}
  BY <1>4 DEF ChainOK
<1>7. \A l \in Subs : new[l].status = "ROLLED_OVER" => \E j \in Subs : j > l /\ new[j].parent = l
  BY <1>4 DEF ChainOK
<1>3. ChainOK'
  BY <1>5, <1>6, <1>7 DEF ChainOK, new
<1> QED BY <1>1, <1>2, <1>3 DEF new

-----------------------------------------------------------------------------
(* Every step keeps the rows sound *)

\* The blank session.
LEMMA IdleRow == Idle \in SessionRow /\ Idle.op = "idle" /\ NoInvoice \in InvoiceRow
<1>1. NoInvoice \in InvoiceRow
  BY DEF NoInvoice, InvoiceRow, Kinds
<1>2. Idle \in SessionRow
  BY <1>1 DEF Idle, SessionRow, WalletRow, Settled, Methods
<1> QED BY <1>1, <1>2 DEF Idle

\* Rows that are sound make a state that is sound.
LEMMA FromParts ==
    ASSUME wallet' \in WalletRow, invoice' \in [Invoices -> InvoiceRow], sub' \in [Subs -> SubRow],
           books' \in BookRow, moved' \in MovedRow, skew' \subseteq Skews,
           started' \in 0 .. MaxRequests, overlapped' \in BOOLEAN, workload' \in Workloads
    PROVE  TypeOK'
BY DEF TypeOK, WalletRow, InvoiceRow, SubRow, BookRow, MovedRow, Skews

\* A request that ends.
LEMMA EndKeeps ==
    ASSUME DInv, NEW s \in Sessions, End(s),
           \A k \in Subs : sub[k].status # "ABSENT" => sub'[k].status # "ABSENT",
           \A i \in Invoices : invoice[i].kind \in Settled => invoice'[i].kind \in Settled
    PROVE  /\ SessionsOK'
           /\ started' \in 0 .. MaxRequests /\ overlapped' \in BOOLEAN
           /\ overlapped' = overlapped
<1>1. session' = [session EXCEPT ![s] = Idle] /\ started' = started /\ overlapped' = overlapped
  BY DEF End
<1>2. session \in [Sessions -> SessionRow] /\ SessionsOK
  BY DEF DInv, SessionsOK
<1>3. session' \in [Sessions -> SessionRow] /\ session'[s].op = "idle"
      /\ \A r \in Sessions \ {s} : session'[r] = session[r]
  BY <1>1, <1>2, IdleRow
<1>4. ASSUME NEW r \in Sessions, session'[r].op = "cancel"
      PROVE  session'[r].sub \in Subs /\ sub'[session'[r].sub].status # "ABSENT"
  BY <1>2, <1>3, <1>4 DEF SessionsOK
<1>5. ASSUME NEW r \in Sessions, session'[r].op \in {"edit", "void"}
      PROVE  /\ session'[r].order \in Invoices /\ invoice'[session'[r].order].kind \in Settled
             /\ session'[r].row.kind \in Settled /\ ~session'[r].row.canceled
  <2>1. session'[r] = session[r]
    BY <1>3, <1>5
  <2> QED BY <1>2, <1>5, <2>1 DEF SessionsOK
<1>6. SessionsOK'
  BY <1>3, <1>4, <1>5 DEF SessionsOK
<1>7. started' \in 0 .. MaxRequests /\ overlapped' \in BOOLEAN
  BY <1>1, Types DEF DInv
<1> QED BY <1>1, <1>6, <1>7

\* A request that starts.
LEMMA BeginKeeps ==
    ASSUME DInv, NEW s \in Sessions, NEW op \in AllOperations, NEW request \in SessionRow,
           Begin(s, op, request), workload' = workload,
           op = "cancel" => request.sub \in Subs /\ sub[request.sub].status # "ABSENT",
           op \in {"edit", "void"} =>
              /\ request.order \in Invoices /\ invoice[request.order].kind \in Settled
              /\ request.row.kind \in Settled /\ ~request.row.canceled
    PROVE  DInv'
<1>0. wallet' = wallet /\ invoice' = invoice /\ sub' = sub /\ books' = books /\ moved' = moved /\ skew' = skew
  BY DEF Begin, rows
<1>1. TypeOK /\ SessionsOK /\ ChainOK /\ InvoicesOK
  BY DEF DInv
<1>2. started' \in 0 .. MaxRequests
  BY <1>1, Types, WalletDeskAssumption DEF Begin
<1>3. overlapped' \in BOOLEAN
  BY DEF Begin
<1>4. TypeOK'
  BY <1>0, <1>1, <1>2, <1>3, Types, FromParts
<1> DEFINE new == [request EXCEPT !.op = op, !.seen = wallet]
<1>5. /\ new \in SessionRow /\ new.op = op /\ new.sub = request.sub /\ new.order = request.order /\ new.row = request.row
  <2>1. wallet \in WalletRow
    BY <1>1, Types
  <2> QED BY <2>1 DEF SessionRow
<1>6. session' = [session EXCEPT ![s] = new]
  BY DEF Begin
<1> HIDE DEF new
<1>7. session' \in [Sessions -> SessionRow] /\ session'[s] = new
      /\ \A r \in Sessions \ {s} : session'[r] = session[r]
  BY <1>1, <1>5, <1>6 DEF SessionsOK
<1>8. \A r \in Sessions : session'[r].op = "cancel" => session'[r].sub \in Subs /\ sub'[session'[r].sub].status # "ABSENT"
  BY <1>0, <1>1, <1>5, <1>7 DEF SessionsOK
<1>9. ASSUME NEW r \in Sessions, session'[r].op \in {"edit", "void"}
      PROVE  /\ session'[r].order \in Invoices /\ invoice'[session'[r].order].kind \in Settled
             /\ session'[r].row.kind \in Settled /\ ~session'[r].row.canceled
  <2>1. CASE r = s
    BY <1>0, <1>5, <1>7, <1>9, <2>1
  <2>2. CASE r # s
    <3>1. session'[r] = session[r]
      BY <1>7, <2>2
    <3> QED BY <1>0, <1>1, <1>9, <3>1 DEF SessionsOK
  <2> QED BY <2>1, <2>2
<1>10. SessionsOK'
  BY <1>7, <1>8, <1>9 DEF SessionsOK
<1>11. ChainOK' /\ InvoicesOK'
  BY <1>0, <1>1 DEF ChainOK, InvoicesOK, InvoiceOK
<1> QED BY <1>4, <1>10, <1>11 DEF DInv

\* Steps that end a request.
LEMMA EndStep ==
    ASSUME DInv, NEW s \in Sessions, End(s), workload' = workload,
           wallet' \in WalletRow, invoice' \in [Invoices -> InvoiceRow], sub' \in [Subs -> SubRow],
           books' \in BookRow, moved' \in MovedRow, skew' \subseteq Skews, ChainOK', InvoicesOK',
           \A k \in Subs : sub[k].status # "ABSENT" => sub'[k].status # "ABSENT",
           \A i \in Invoices : invoice[i].kind \in Settled => invoice'[i].kind \in Settled
    PROVE  DInv'
<1>1. SessionsOK' /\ started' \in 0 .. MaxRequests /\ overlapped' \in BOOLEAN
  BY EndKeeps
<1>2. workload' \in Workloads
  BY Types DEF DInv
<1>3. TypeOK'
  BY <1>1, <1>2, FromParts
<1> QED BY <1>1, <1>3 DEF DInv

\* A request that is rolled back.
LEMMA RollbackKeeps ==
    ASSUME DInv, NEW s \in Sessions, Rollback(s), workload' = workload
    PROVE  DInv'
<1>0. wallet' = wallet /\ invoice' = invoice /\ sub' = sub /\ books' = books /\ moved' = moved /\ skew' = skew /\ End(s)
  BY DEF Rollback, rows
<1>1. ChainOK' /\ InvoicesOK'
  BY <1>0 DEF DInv, ChainOK, InvoicesOK, InvoiceOK
<1>2. TypeOK
  BY DEF DInv
<1> QED BY <1>0, <1>1, <1>2, Types, EndStep

\* An activation.
LEMMA ActivateKeeps ==
    ASSUME DInv, NEW s \in Sessions, NEW k \in Subs, CommitActivate(s, k), workload' = workload
    PROVE  DInv'
<1>0. TypeOK /\ ChainOK /\ InvoicesOK /\ session[s] \in SessionRow
  BY DEF DInv, SessionsOK
<1> DEFINE r == session[s]
           onAccount == r.method = "DEBT_ON_ACCOUNT"
           paid == Lesser(OpenDebt, Credit)
<1>1. PICK covered \in Nat, spent \in Nat :
         /\ covered <= paid /\ spent <= r.seen.balance + Credit - paid
         /\ sub[k].status = "ABSENT" /\ \A j \in Subs : j < k => sub[j].status # "ABSENT"
         /\ wallet' = [balance |-> (r.seen.balance + (Credit - paid)) - spent,
                       debt |-> r.seen.debt - Lesser(paid, r.seen.debt) + (IF onAccount THEN Price ELSE 0),
                       plan |-> TRUE, until |-> Term]
         /\ sub' = Rolled(k)
         /\ LinkOnly(invoice')
         /\ books' = [cash |-> books.cash + (IF onAccount THEN 0 ELSE Price + paid),
                      liability |-> books.liability + Credit - spent,
                      debits |-> books.debits + (IF onAccount THEN Price ELSE 0),
                      credits |-> books.credits + (IF onAccount THEN 0 ELSE paid - covered)]
         /\ moved' = [moved EXCEPT !.received = @ + (IF onAccount THEN 0 ELSE Price)]
         /\ skew' \subseteq skew \cup {"debtSettled", "settledOnAccount", "chargedTwice"}
         /\ End(s)
  BY ActivateEffect, Zenon
<1>2. /\ paid \in Nat /\ paid <= Credit /\ Credit \in Nat /\ Price \in Nat /\ Term \in Nat
      /\ r.seen.balance \in Nat /\ r.seen.debt \in Nat
  <2>1. OpenDebt \in Nat /\ Credit \in Nat /\ Price \in Nat /\ Term \in Nat
    BY <1>0, OpenDebtIs, WalletDeskAssumption
  <2>2. r.seen.balance \in Nat /\ r.seen.debt \in Nat
    BY <1>0 DEF SessionRow, WalletRow
  <2> QED BY <2>1, <2>2 DEF Lesser
<1> HIDE DEF paid, onAccount
<1>3. wallet' \in WalletRow
  BY <1>1, <1>2 DEF WalletRow, Lesser
<1>4. books' \in BookRow
  BY <1>0, <1>1, <1>2, Types DEF BookRow
<1>5. moved' \in MovedRow
  BY <1>0, <1>1, <1>2, Types DEF MovedRow
<1>6. skew' \subseteq Skews
  BY <1>0, <1>1, Types DEF Skews
<1>7. sub' \in [Subs -> SubRow]
  <2> DEFINE new == sub'
  <2>1. new = Rolled(k) /\ sub[k].status = "ABSENT"
    BY <1>1
  <2> HIDE DEF new
  <2>2. new \in [Subs -> SubRow]
    BY <1>0, <2>1, RolledRows
  <2> QED BY <2>2 DEF new
<1>8. ChainOK' /\ \A j \in Subs : sub[j].status # "ABSENT" => sub'[j].status # "ABSENT"
  BY <1>0, <1>1, RolledChain
<1>9. InvoicesOK' /\ \A i \in Invoices : invoice[i].kind \in Settled => invoice'[i].kind \in Settled
  BY <1>0, <1>1, LinkOnlySound
<1>10. invoice' \in [Invoices -> InvoiceRow]
  BY <1>1 DEF LinkOnly
<1> QED BY <1>1, <1>3, <1>4, <1>5, <1>6, <1>7, <1>8, <1>9, <1>10, EndStep

\* A payment.
LEMMA PayKeeps ==
    ASSUME DInv, NEW s \in Sessions, CommitPay(s), workload' = workload
    PROVE  DInv'
<1>0. TypeOK /\ ChainOK /\ InvoicesOK /\ session[s] \in SessionRow
  BY DEF DInv, SessionsOK
<1> DEFINE r == session[s]
<1>1. PICK spread \in Nat :
         /\ r.amount \in Nat /\ r.discount \in Nat
         /\ wallet' = [wallet EXCEPT !.debt = r.seen.debt - Lesser(r.amount + r.discount, r.seen.debt)]
         /\ LinkOnly(invoice')
         /\ books' = [books EXCEPT !.cash = @ + (IF r.amount > 0 THEN spread ELSE 0) + Floor(r.amount - spread),
                                   !.credits = @ + Floor(r.amount - spread) + r.discount]
         /\ moved' = [moved EXCEPT !.received = @ + r.amount]
         /\ skew' = skew \cup (IF r.discount > 0 /\ spread > 0 THEN {"discountSpread"} ELSE {})
         /\ sub' = sub /\ End(s)
  BY PayEffect, Zenon
<1>2. r.seen.debt \in Nat
  BY <1>0 DEF SessionRow, WalletRow
<1>3. wallet' \in WalletRow
  BY <1>0, <1>1, <1>2, Types DEF WalletRow, Lesser
<1>4. books' \in BookRow
  <2> DEFINE rest == Floor(r.amount - spread)
             x == books.cash + (IF r.amount > 0 THEN spread ELSE 0) + rest
             y == books.credits + rest + r.discount
  <2>1. rest \in Nat /\ books \in BookRow
    BY <1>0, <1>1, Types DEF Floor
  <2>2. books' = [books EXCEPT !.cash = x, !.credits = y]
    BY <1>1
  <2>3. x \in Int /\ y \in Nat
    <3> HIDE DEF rest
    <3> QED BY <1>1, <2>1 DEF BookRow
  <2> HIDE DEF x, y
  <2> QED BY <2>1, <2>2, <2>3 DEF BookRow
<1>5. moved' \in MovedRow
  BY <1>0, <1>1, Types DEF MovedRow
<1>6. skew' \subseteq Skews
  BY <1>0, <1>1, Types DEF Skews
<1>7. sub' \in [Subs -> SubRow] /\ ChainOK' /\ \A j \in Subs : sub[j].status # "ABSENT" => sub'[j].status # "ABSENT"
  BY <1>0, <1>1, Types DEF ChainOK
<1>9. InvoicesOK' /\ \A i \in Invoices : invoice[i].kind \in Settled => invoice'[i].kind \in Settled
  BY <1>0, <1>1, LinkOnlySound
<1>10. invoice' \in [Invoices -> InvoiceRow]
  BY <1>1 DEF LinkOnly
<1> QED BY <1>1, <1>3, <1>4, <1>5, <1>6, <1>7, <1>9, <1>10, EndStep

\* Invoices that no step touches stay sound.
LEMMA SameInvoices ==
    ASSUME DInv, invoice' = invoice
    PROVE  InvoicesOK' /\ \A i \in Invoices : invoice[i].kind \in Settled => invoice'[i].kind \in Settled
BY DEF DInv, InvoicesOK, InvoiceOK

\* A cancellation: what it voids and refunds, and the subscription it closes.
LEMMA CancelEffect ==
    ASSUME DInv, NEW s \in Sessions, CommitCancel(s)
    PROVE  \E gift \in Nat, cash \in Nat :
              LET r == session[s]
                  k == r.sub
                  fresh == sub[k].status # "CANCELLED"
              IN  /\ r.op = "cancel" /\ k \in Subs /\ sub[k].status # "ABSENT"
                  /\ gift + cash <= r.seen.balance /\ r.seen.balance \in Nat /\ cash <= Price
                  /\ wallet' = [wallet EXCEPT !.balance = r.seen.balance - gift - cash, !.plan = FALSE, !.until = 0]
                  /\ sub' = [sub EXCEPT ![k].status = "CANCELLED"]
                  /\ books' = [books EXCEPT !.liability = @ - (IF fresh THEN gift + cash ELSE 0),
                                            !.cash = @ - (IF fresh THEN cash ELSE 0)]
                  /\ moved' = [moved EXCEPT !.received = @ - cash, !.refunds[k] = @ + cash]
                  /\ End(s) /\ invoice' = invoice /\ skew' = skew
<1> DEFINE r == session[s]
           gift == GiftVoid(sub[r.sub].left, r.seen.balance)
           cash == CashRefund(sub[r.sub].left, r.seen.balance)
<1>0. TypeOK /\ r \in SessionRow
  BY DEF DInv, SessionsOK
<1>1. r.op = "cancel" /\ r.sub \in Subs /\ sub[r.sub].status # "ABSENT"
  BY DEF CommitCancel, DInv, SessionsOK
<1>2. sub[r.sub].left \in 0 .. Term /\ r.seen.balance \in Nat
  BY <1>0, <1>1, Types DEF SubRow, SessionRow, WalletRow
<1>3. gift \in 0 .. r.seen.balance /\ cash \in 0 .. (r.seen.balance - gift) /\ cash <= Price
  BY <1>2, RefundWithin
<1>4. /\ wallet' = [wallet EXCEPT !.balance = r.seen.balance - gift - cash, !.plan = FALSE, !.until = 0]
      /\ sub' = [sub EXCEPT ![r.sub].status = "CANCELLED"]
      /\ books' = [books EXCEPT !.liability = @ - (IF sub[r.sub].status # "CANCELLED" THEN gift + cash ELSE 0),
                                !.cash = @ - (IF sub[r.sub].status # "CANCELLED" THEN cash ELSE 0)]
      /\ moved' = [moved EXCEPT !.received = @ - cash, !.refunds[r.sub] = @ + cash]
      /\ End(s) /\ invoice' = invoice /\ skew' = skew
  BY DEF CommitCancel
<1> HIDE DEF gift, cash
<1>5. gift \in Nat /\ cash \in Nat /\ gift + cash <= r.seen.balance
  BY <1>2, <1>3
<1> USE <1>5
<1> WITNESS gift \in Nat, cash \in Nat
<1> QED BY <1>1, <1>2, <1>3, <1>4

\* A cancellation.
LEMMA CancelKeeps ==
    ASSUME DInv, NEW s \in Sessions, CommitCancel(s), workload' = workload
    PROVE  DInv'
<1>0. TypeOK /\ ChainOK /\ session[s] \in SessionRow
  BY DEF DInv, SessionsOK
<1> DEFINE r == session[s]
           k == r.sub
           fresh == sub[k].status # "CANCELLED"
<1>1. PICK gift \in Nat, cash \in Nat :
         /\ k \in Subs /\ sub[k].status # "ABSENT"
         /\ gift + cash <= r.seen.balance /\ r.seen.balance \in Nat
         /\ wallet' = [wallet EXCEPT !.balance = r.seen.balance - gift - cash, !.plan = FALSE, !.until = 0]
         /\ sub' = [sub EXCEPT ![k].status = "CANCELLED"]
         /\ books' = [books EXCEPT !.liability = @ - (IF fresh THEN gift + cash ELSE 0),
                                   !.cash = @ - (IF fresh THEN cash ELSE 0)]
         /\ moved' = [moved EXCEPT !.received = @ - cash, !.refunds[k] = @ + cash]
         /\ End(s) /\ invoice' = invoice /\ skew' = skew
  BY CancelEffect, Zenon
<1> DEFINE left == r.seen.balance - gift - cash
<1>2. left \in Nat
  BY <1>1
<1>3. wallet' \in WalletRow
  <2>1. wallet' = [wallet EXCEPT !.balance = left, !.plan = FALSE, !.until = 0]
    BY <1>1
  <2> HIDE DEF left
  <2> QED BY <1>0, <1>2, <2>1, Types DEF WalletRow
<1>4. books' \in BookRow
  <2> DEFINE x == books.liability - (IF fresh THEN gift + cash ELSE 0)
             y == books.cash - (IF fresh THEN cash ELSE 0)
  <2>1. books' = [books EXCEPT !.liability = x, !.cash = y]
    BY <1>1
  <2>2. books \in BookRow
    BY <1>0, Types
  <2>3. x \in Int /\ y \in Int
    <3> HIDE DEF fresh
    <3> QED BY <2>2 DEF BookRow
  <2> HIDE DEF x, y
  <2> QED BY <2>1, <2>2, <2>3 DEF BookRow
<1>5. moved' \in MovedRow
  <2>1. moved \in MovedRow /\ moved.refunds \in [Subs -> Nat] /\ moved.refunds[k] + cash \in Nat
    BY <1>0, <1>1, Types DEF MovedRow
  <2> DEFINE x == moved.received - cash
             f == [moved.refunds EXCEPT ![k] = @ + cash]
  <2>2. moved' = [moved EXCEPT !.received = x, !.refunds = f]
    BY <1>1
  <2>3. x \in Int /\ f \in [Subs -> Nat]
    <3>1. x \in Int
      BY <2>1 DEF MovedRow
    <3> QED BY <2>1, <3>1
  <2> HIDE DEF x, f
  <2> QED BY <2>1, <2>2, <2>3 DEF MovedRow
<1>7. sub' \in [Subs -> SubRow] /\ ChainOK' /\ \A j \in Subs : sub[j].status # "ABSENT" => sub'[j].status # "ABSENT"
  BY <1>0, <1>1, CancelledChain
<1>8. skew' \subseteq Skews /\ invoice' \in [Invoices -> InvoiceRow]
  BY <1>0, <1>1, Types
<1>9. InvoicesOK' /\ \A i \in Invoices : invoice[i].kind \in Settled => invoice'[i].kind \in Settled
  BY <1>1, SameInvoices
<1> QED BY <1>1, <1>3, <1>4, <1>5, <1>7, <1>8, <1>9, EndStep

\* An extension.
LEMMA ExtendKeeps ==
    ASSUME DInv, NEW s \in Sessions, CommitExtend(s), workload' = workload
    PROVE  DInv'
<1>0. TypeOK /\ ChainOK /\ session[s] \in SessionRow
  BY DEF DInv, SessionsOK
<1>1. /\ wallet' = [wallet EXCEPT !.until = session[s].seen.until + Extension] /\ End(s)
      /\ invoice' = invoice /\ sub' = sub /\ books' = books /\ moved' = moved /\ skew' = skew
  BY DEF CommitExtend
<1>2. session[s].seen.until + Extension \in Nat
  BY <1>0, WalletDeskAssumption DEF SessionRow, WalletRow
<1>3. wallet' \in WalletRow
  BY <1>0, <1>1, <1>2, Types DEF WalletRow
<1>4. sub' \in [Subs -> SubRow] /\ ChainOK' /\ \A j \in Subs : sub[j].status # "ABSENT" => sub'[j].status # "ABSENT"
  BY <1>0, <1>1, Types DEF ChainOK
<1>5. InvoicesOK' /\ \A i \in Invoices : invoice[i].kind \in Settled => invoice'[i].kind \in Settled
  BY <1>1, SameInvoices
<1>6. skew' \subseteq Skews /\ invoice' \in [Invoices -> InvoiceRow] /\ books' \in BookRow /\ moved' \in MovedRow
  BY <1>0, <1>1, Types
<1> QED BY <1>1, <1>3, <1>4, <1>5, <1>6, EndStep

-----------------------------------------------------------------------------
(* Issuing, editing and voiding an invoice *)

\* Steps outside of the desk.
LEMMA OutsideStep ==
    ASSUME DInv, session' = session, started' = started, overlapped' \in BOOLEAN, workload' = workload,
           wallet' \in WalletRow, invoice' \in [Invoices -> InvoiceRow], sub' \in [Subs -> SubRow],
           books' \in BookRow, moved' \in MovedRow, skew' = skew, ChainOK', InvoicesOK',
           \A k \in Subs : sub[k].status # "ABSENT" => sub'[k].status # "ABSENT",
           \A i \in Invoices : invoice[i].kind \in Settled => invoice'[i].kind \in Settled
    PROVE  DInv'
<1>1. SessionsOK'
  BY DEF DInv, SessionsOK
<1>2. workload' \in Workloads /\ started' \in 0 .. MaxRequests /\ skew' \subseteq Skews
  BY Types DEF DInv
<1>3. TypeOK'
  BY <1>2, FromParts
<1> QED BY <1>1, <1>3 DEF DInv

\* The row of an invoice that is issued.
Issued(kind) ==
    LET amount(k) == IF kind = k THEN Total ELSE 0
    IN  [NoInvoice EXCEPT !.kind = kind, !.paid = kind # "LINK", !.total = Total, !.today = TRUE,
                          !.ar = amount("DEBT") + amount("LINK"),
                          !.sales = Total - amount("LINK")]

\* Its fields.
LEMMA IssuedRow ==
    ASSUME NEW kind \in Kinds
    PROVE  /\ Issued(kind) \in InvoiceRow /\ InvoiceOK(Issued(kind))
           /\ Issued(kind).kind = kind /\ Issued(kind).total = Total /\ Issued(kind).canceled = FALSE
           /\ Issued(kind).ar = IF kind \in {"DEBT", "LINK"} THEN Total ELSE 0
           /\ kind # "LINK" => Issued(kind).sales = Total
<1> DEFINE a == IF kind \in {"DEBT", "LINK"} THEN Total ELSE 0
           c == IF kind = "LINK" THEN 0 ELSE Total
           p == kind # "LINK"
<1>0. Total \in Nat
  BY WalletDeskAssumption
<1>1. Issued(kind) = [kind |-> kind, paid |-> p, ar |-> a, total |-> Total, canceled |-> FALSE,
                      today |-> TRUE, sales |-> c, refs |-> {}]
  <2>1. (IF kind = "DEBT" THEN Total ELSE 0) + (IF kind = "LINK" THEN Total ELSE 0) = a
    BY <1>0
  <2>2. Total - (IF kind = "LINK" THEN Total ELSE 0) = c
    BY <1>0
  <2>3. Issued(kind) = [NoInvoice EXCEPT !.kind = kind, !.paid = p, !.total = Total, !.today = TRUE, !.ar = a, !.sales = c]
    BY <2>1, <2>2 DEF Issued
  <2> HIDE DEF a, c, p
  <2> QED BY <2>3 DEF NoInvoice
<1>2. a \in Int /\ c \in Int /\ p \in BOOLEAN
  BY <1>0
<1>3. kind \in Settled => p
  BY DEF Settled
<1>4. /\ Issued(kind).kind = kind /\ Issued(kind).total = Total /\ Issued(kind).canceled = FALSE
      /\ Issued(kind).ar = a /\ Issued(kind).sales = c /\ Issued(kind).refs = {} /\ Issued(kind).paid = p
  <2> HIDE DEF a, c, p
  <2> QED BY <1>1
<1>5. Issued(kind) \in InvoiceRow
  <2> HIDE DEF a, c, p
  <2> QED BY <1>0, <1>1, <1>2 DEF InvoiceRow
<1>6. InvoiceOK(Issued(kind))
  <2> DEFINE row == Issued(kind)
  <2>1. row.kind = kind /\ row.canceled = FALSE /\ row.refs = {} /\ row.paid = p
    BY <1>4
  <2> HIDE DEF row, p
  <2>2. InvoiceOK(row)
    BY <1>3, <2>1 DEF InvoiceOK, Kinds
  <2> QED BY <2>2 DEF row
<1> QED BY <1>4, <1>5, <1>6

\* Replacing one invoice by a sound row.
LEMMA OneInvoice ==
    ASSUME DInv, NEW i \in Invoices, NEW new \in InvoiceRow, InvoiceOK(new),
           invoice' = [invoice EXCEPT ![i] = new],
           invoice[i].kind \in Settled => new.kind \in Settled
    PROVE  /\ invoice' \in [Invoices -> InvoiceRow] /\ InvoicesOK'
           /\ \A j \in Invoices : invoice[j].kind \in Settled => invoice'[j].kind \in Settled
           /\ invoice'[i] = new /\ \A j \in Invoices \ {i} : invoice'[j] = invoice[j]
<1>1. invoice \in [Invoices -> InvoiceRow]
  BY Types DEF DInv
<1>2. /\ invoice' \in [Invoices -> InvoiceRow] /\ invoice'[i] = new
      /\ \A j \in Invoices \ {i} : invoice'[j] = invoice[j]
  BY <1>1
<1>3. \A j \in Invoices : InvoiceOK(invoice'[j])
  BY <1>2 DEF DInv, InvoicesOK
<1> QED BY <1>2, <1>3 DEF InvoicesOK

\* An invoice that is issued: what it changes.
LEMMA IssueEffect ==
    ASSUME NEW i \in Invoices, NEW kind \in Kinds, Issue(i, kind)
    PROVE  LET amount(k) == IF kind = k THEN Total ELSE 0
           IN  /\ invoice[i].kind = "ABSENT" /\ amount("WALLET") <= wallet.balance
               /\ invoice' = [invoice EXCEPT ![i] = Issued(kind)]
               /\ wallet' = [wallet EXCEPT !.debt = @ + amount("DEBT"), !.balance = @ - amount("WALLET")]
               /\ books' = [books EXCEPT !.cash = @ + amount("CASH"), !.liability = @ - amount("WALLET")]
               /\ moved' = [moved EXCEPT !.received = @ + amount("CASH")]
               /\ overlapped' = (overlapped \/ \E s \in Sessions : Active(s))
               /\ sub' = sub /\ skew' = skew /\ session' = session /\ started' = started
BY DEF Issue, Issued

\* An invoice that is issued.
LEMMA IssueKeeps ==
    ASSUME DInv, NEW i \in Invoices, NEW kind \in Kinds, Issue(i, kind), workload' = workload
    PROVE  DInv'
<1>0. TypeOK /\ ChainOK
  BY DEF DInv
<1> DEFINE owe == IF kind = "DEBT" THEN Total ELSE 0
           draw == IF kind = "WALLET" THEN Total ELSE 0
           cash == IF kind = "CASH" THEN Total ELSE 0
<1>1. /\ invoice[i].kind = "ABSENT" /\ draw <= wallet.balance
      /\ invoice' = [invoice EXCEPT ![i] = Issued(kind)]
      /\ wallet' = [wallet EXCEPT !.debt = @ + owe, !.balance = @ - draw]
      /\ books' = [books EXCEPT !.cash = @ + cash, !.liability = @ - draw]
      /\ moved' = [moved EXCEPT !.received = @ + cash]
      /\ overlapped' = (overlapped \/ \E s \in Sessions : Active(s))
      /\ sub' = sub /\ skew' = skew /\ session' = session /\ started' = started
  BY IssueEffect
<1>2. owe \in Nat /\ draw \in Nat /\ cash \in Nat
  BY WalletDeskAssumption
<1> HIDE DEF owe, draw, cash
<1>3. wallet' \in WalletRow
  <2> DEFINE x == wallet.debt + owe
             y == wallet.balance - draw
  <2>1. wallet \in WalletRow /\ wallet' = [wallet EXCEPT !.debt = x, !.balance = y]
    BY <1>0, <1>1, Types
  <2>2. x \in Nat /\ y \in Nat
    BY <1>1, <1>2, <2>1 DEF WalletRow
  <2> HIDE DEF x, y
  <2> QED BY <2>1, <2>2 DEF WalletRow
<1>4. books' \in BookRow
  <2> DEFINE x == books.cash + cash
             y == books.liability - draw
  <2>1. books \in BookRow /\ books' = [books EXCEPT !.cash = x, !.liability = y]
    BY <1>0, <1>1, Types
  <2>2. x \in Int /\ y \in Int
    BY <1>1, <1>2, <2>1 DEF BookRow
  <2> HIDE DEF x, y
  <2> QED BY <2>1, <2>2 DEF BookRow
<1>5. moved' \in MovedRow
  BY <1>0, <1>1, <1>2, Types DEF MovedRow
<1>6. sub' \in [Subs -> SubRow] /\ ChainOK' /\ \A j \in Subs : sub[j].status # "ABSENT" => sub'[j].status # "ABSENT"
  BY <1>0, <1>1, Types DEF ChainOK
<1>7. /\ invoice' \in [Invoices -> InvoiceRow] /\ InvoicesOK'
      /\ \A j \in Invoices : invoice[j].kind \in Settled => invoice'[j].kind \in Settled
  <2>1. invoice[i].kind \notin Settled
    BY <1>1 DEF Settled
  <2> QED BY <1>1, <2>1, IssuedRow, OneInvoice
<1>8. overlapped' \in BOOLEAN
  BY <1>1
<1> QED BY <1>1, <1>3, <1>4, <1>5, <1>6, <1>7, <1>8, OutsideStep

\* A day that passes: nothing but dates.
LEMMA DayEffect ==
    ASSUME DInv, Day
    PROVE  /\ wallet' = [wallet EXCEPT !.until = Floor(@ - 1)]
           /\ invoice' \in [Invoices -> InvoiceRow]
           /\ \A i \in Invoices :
                 /\ invoice'[i].kind = invoice[i].kind /\ invoice'[i].total = invoice[i].total
                 /\ invoice'[i].ar = invoice[i].ar /\ invoice'[i].sales = invoice[i].sales
                 /\ invoice'[i].canceled = invoice[i].canceled /\ invoice'[i].refs = invoice[i].refs
                 /\ invoice'[i].paid = invoice[i].paid /\ invoice'[i].today = FALSE
           /\ sub' = [k \in Subs |-> [sub[k] EXCEPT !.left = Floor(@ - 1)]]
           /\ books' = books /\ moved' = moved /\ skew' = skew /\ session' = session
           /\ started' = started /\ overlapped' = overlapped
<1>1. /\ wallet' = [wallet EXCEPT !.until = Floor(@ - 1)]
      /\ sub' = [k \in Subs |-> [sub[k] EXCEPT !.left = Floor(@ - 1)]]
      /\ invoice' = [i \in Invoices |-> [invoice[i] EXCEPT !.today = FALSE]]
      /\ books' = books /\ moved' = moved /\ skew' = skew /\ session' = session
      /\ started' = started /\ overlapped' = overlapped
  BY DEF Day
<1>2. ASSUME NEW i \in Invoices
      PROVE  /\ invoice'[i] \in InvoiceRow
             /\ invoice'[i].kind = invoice[i].kind /\ invoice'[i].total = invoice[i].total
             /\ invoice'[i].ar = invoice[i].ar /\ invoice'[i].sales = invoice[i].sales
             /\ invoice'[i].canceled = invoice[i].canceled /\ invoice'[i].refs = invoice[i].refs
             /\ invoice'[i].paid = invoice[i].paid /\ invoice'[i].today = FALSE
  <2> DEFINE row == invoice[i]
             new == invoice'[i]
  <2>1. row \in InvoiceRow
    BY Types DEF DInv
  <2>2. new = [row EXCEPT !.today = FALSE]
    BY <1>1
  <2> HIDE DEF row, new
  <2>3. new \in InvoiceRow
    BY <2>1, <2>2 DEF InvoiceRow
  <2>4. /\ new.kind = row.kind /\ new.total = row.total /\ new.ar = row.ar /\ new.sales = row.sales
        /\ new.canceled = row.canceled /\ new.refs = row.refs /\ new.paid = row.paid /\ new.today = FALSE
    BY <2>1, <2>2 DEF InvoiceRow
  <2> QED BY <2>3, <2>4 DEF row, new
<1>3. invoice' \in [Invoices -> InvoiceRow]
  BY <1>1, <1>2
<1> QED BY <1>1, <1>2, <1>3

\* A day that passes.
LEMMA DayKeeps ==
    ASSUME DInv, Day, workload' = workload
    PROVE  DInv'
<1>0. TypeOK /\ ChainOK /\ InvoicesOK
  BY DEF DInv
<1>1. wallet' \in WalletRow
  <2> DEFINE x == Floor(wallet.until - 1)
  <2>1. wallet \in WalletRow
    BY <1>0, Types
  <2>2. x \in Nat
    BY <2>1 DEF WalletRow, Floor
  <2>3. wallet' = [wallet EXCEPT !.until = x]
    BY DayEffect
  <2> HIDE DEF x
  <2> QED BY <2>1, <2>2, <2>3 DEF WalletRow
<1>2. sub' \in [Subs -> SubRow] /\ ChainOK' /\ \A j \in Subs : sub[j].status # "ABSENT" => sub'[j].status # "ABSENT"
  <2>1. sub' = [k \in Subs |-> [sub[k] EXCEPT !.left = Floor(@ - 1)]]
    BY DayEffect
  <2> QED BY <1>0, <2>1, DayChain
<1>3. ASSUME NEW i \in Invoices PROVE InvoiceOK(invoice'[i])
  <2> DEFINE row == invoice[i]
             new == invoice'[i]
  <2>1. /\ new.kind = row.kind /\ new.total = row.total /\ new.ar = row.ar /\ new.sales = row.sales
        /\ new.canceled = row.canceled /\ new.refs = row.refs /\ new.paid = row.paid /\ new.today = FALSE
        /\ new \in InvoiceRow
    BY DayEffect
  <2>2. InvoiceOK(row)
    BY <1>0 DEF InvoicesOK
  <2> HIDE DEF row, new
  <2>3. new.kind = "ABSENT" => new = NoInvoice
    <3> SUFFICES ASSUME new.kind = "ABSENT" PROVE new = NoInvoice
      OBVIOUS
    <3>1. row = NoInvoice
      BY <2>1, <2>2 DEF InvoiceOK
    <3>2. /\ new.kind = "ABSENT" /\ new.total = 0 /\ new.ar = 0 /\ new.sales = 0
          /\ new.canceled = FALSE /\ new.refs = {} /\ new.paid = FALSE /\ new.today = FALSE
      BY <2>1, <3>1 DEF NoInvoice
    <3> QED BY <2>1, <3>2 DEF InvoiceRow, NoInvoice
  <2>4. InvoiceOK(new)
    BY <2>1, <2>2, <2>3, Zenon DEF InvoiceOK
  <2> QED BY <2>4 DEF new
<1>4. InvoicesOK'
  BY <1>3 DEF InvoicesOK
<1>5. \A i \in Invoices : invoice[i].kind \in Settled => invoice'[i].kind \in Settled
  BY DayEffect
<1>6. books' \in BookRow /\ moved' \in MovedRow /\ overlapped' \in BOOLEAN
  BY <1>0, DayEffect, Types
<1> QED BY <1>1, <1>2, <1>4, <1>5, <1>6, DayEffect, OutsideStep

\* What an edit draws from the wallet and puts on account, and the row it leaves.
EditDraw(r) == IF r.kind = "WALLET" THEN Lesser(ReversedBalance(r), r.amount) ELSE 0
EditOwe(r) == IF r.kind = "DEBT" THEN r.amount ELSE 0
Edited(r, old) ==
    [old EXCEPT !.total = r.amount, !.kind = r.kind,
                !.ar = @ - Fresh(old, "reversal", OnAccount(r.row)) + Fresh(old, "reapply", EditOwe(r)),
                !.sales = @ + Resold(r),
                !.refs = @ \cup Once(old, "reversal", OnAccount(r.row)) \cup Once(old, "reapply", EditOwe(r))
                           \cup Once(old, "drawReversal", Drawn(r.row))
                           \cup Once(old, "drawReapply", EditDraw(r))]

\* The row a void leaves.
Voided(r, old) ==
    [old EXCEPT !.canceled = TRUE,
                !.ar = @ - Fresh(old, "reversal", OnAccount(r.row)) - Cleared(old),
                !.sales = @ - r.row.total,
                !.refs = @ \cup Once(old, "reversal", OnAccount(r.row))
                           \cup Once(old, "drawReversal", Drawn(r.row))
                           \cup Once(old, "cancellation", Floor(old.ar))]

\* What a session of an edit or of a void holds.
LEMMA AuditSession ==
    ASSUME DInv, NEW s \in Sessions, session[s].op \in {"edit", "void"}
    PROVE  /\ session[s] \in SessionRow /\ session[s].order \in Invoices
           /\ session[s].amount \in Nat /\ session[s].kind \in Settled
           /\ session[s].row \in InvoiceRow /\ session[s].row.total \in Nat
           /\ session[s].seen.balance \in Nat /\ session[s].seen.debt \in Nat
           /\ session[s].row.kind \in Settled /\ ~session[s].row.canceled
           /\ invoice[session[s].order] \in InvoiceRow
           /\ invoice[session[s].order].kind \in Settled
           /\ InvoiceOK(invoice[session[s].order])
<1>1. session[s] \in SessionRow /\ session[s].order \in Invoices
      /\ session[s].row.kind \in Settled /\ ~session[s].row.canceled
      /\ invoice[session[s].order].kind \in Settled
  BY DEF DInv, SessionsOK
<1>2. /\ session[s].amount \in Nat /\ session[s].kind \in Settled
      /\ session[s].row \in InvoiceRow /\ session[s].seen \in WalletRow
  BY <1>1 DEF SessionRow
<1>3. session[s].row.total \in Nat /\ session[s].seen.balance \in Nat /\ session[s].seen.debt \in Nat
  BY <1>2 DEF InvoiceRow, WalletRow
<1>4. invoice[session[s].order] \in InvoiceRow /\ InvoiceOK(invoice[session[s].order])
  BY <1>1, Types DEF DInv, InvoicesOK
<1> QED BY <1>1, <1>2, <1>3, <1>4

\* The amounts of an audit are not negative.
LEMMA AuditAmounts ==
    ASSUME DInv, NEW s \in Sessions, session[s].op \in {"edit", "void"}
    PROVE  LET r == session[s]
           IN  /\ ReversedBalance(r) \in Nat /\ ReversedDebt(r) \in Nat
               /\ OnAccount(r.row) = IF r.row.kind = "DEBT" THEN r.row.total ELSE 0
               /\ Drawn(r.row) = IF r.row.kind = "WALLET" THEN r.row.total ELSE 0
               /\ OnAccount(r.row) \in Nat /\ Drawn(r.row) \in Nat
               /\ EditDraw(r) \in 0 .. ReversedBalance(r) /\ EditDraw(r) <= r.amount /\ EditOwe(r) \in Nat
<1> DEFINE r == session[s]
<1>0. /\ r.amount \in Nat /\ r.row.total \in Nat /\ r.seen.balance \in Nat /\ r.seen.debt \in Nat
      /\ ~r.row.canceled
  BY AuditSession
<1>1. wallet.balance \in Nat /\ wallet.debt \in Nat
  BY Types DEF DInv, WalletRow
<1> HIDE DEF r
<1>2. ReversedBalance(r) \in Nat
  BY <1>0, <1>1 DEF ReversedBalance
<1>3. ReversedDebt(r) \in Nat
  BY <1>0, <1>1 DEF ReversedDebt, Floor
<1>4. /\ OnAccount(r.row) = IF r.row.kind = "DEBT" THEN r.row.total ELSE 0
      /\ Drawn(r.row) = IF r.row.kind = "WALLET" THEN r.row.total ELSE 0
  BY <1>0 DEF OnAccount, Drawn
<1>5. EditDraw(r) \in 0 .. ReversedBalance(r) /\ EditDraw(r) <= r.amount /\ EditOwe(r) \in Nat
  BY <1>0, <1>2 DEF EditDraw, EditOwe, Lesser
<1> QED BY <1>0, <1>2, <1>3, <1>4, <1>5 DEF r

\* A reference is written once.
LEMMA RefFacts ==
    ASSUME NEW row \in InvoiceRow, NEW ref \in Refs, NEW amount \in Nat
    PROVE  /\ Fresh(row, ref, amount) \in 0 .. amount
           /\ ~Reused(row, ref, amount) => Fresh(row, ref, amount) = amount
           /\ Once(row, ref, amount) \in SUBSET Refs
           /\ Once(row, ref, amount) \subseteq row.refs \cup {ref}
<1>1. row.refs \in SUBSET Refs
  BY DEF InvoiceRow
<1> QED BY <1>1 DEF Fresh, Reused, Once

\* The fields of the row an edit leaves.
LEMMA EditedRow ==
    ASSUME DInv, NEW s \in Sessions, session[s].op = "edit", NEW new, NEW old, NEW r,
           r = session[s], old = invoice[r.order], new = Edited(r, old)
    PROVE  /\ new \in InvoiceRow /\ InvoiceOK(new)
           /\ new.kind = r.kind /\ new.kind \in Settled /\ new.total = r.amount
           /\ new.canceled = old.canceled
           /\ new.ar = old.ar - Fresh(old, "reversal", OnAccount(r.row)) + Fresh(old, "reapply", EditOwe(r))
           /\ new.sales = old.sales + (r.amount - r.row.total)
<1> DEFINE a == old.ar - Fresh(old, "reversal", OnAccount(r.row)) + Fresh(old, "reapply", EditOwe(r))
           c == old.sales + Resold(r)
           f == old.refs \cup Once(old, "reversal", OnAccount(r.row)) \cup Once(old, "reapply", EditOwe(r))
                           \cup Once(old, "drawReversal", Drawn(r.row))
                           \cup Once(old, "drawReapply", EditDraw(r))
<1>0. /\ r.amount \in Nat /\ r.kind \in Settled /\ r.row.total \in Nat
      /\ old \in InvoiceRow /\ InvoiceOK(old) /\ old.kind \in Settled
  BY AuditSession
<1>1. OnAccount(r.row) \in Nat /\ Drawn(r.row) \in Nat /\ EditDraw(r) \in Nat /\ EditOwe(r) \in Nat
  BY AuditAmounts
<1>2. /\ Fresh(old, "reversal", OnAccount(r.row)) \in Nat /\ Fresh(old, "reapply", EditOwe(r)) \in Nat
      /\ Once(old, "reversal", OnAccount(r.row)) \in SUBSET Refs
      /\ Once(old, "reversal", OnAccount(r.row)) \subseteq old.refs \cup {"reversal"}
      /\ Once(old, "reapply", EditOwe(r)) \in SUBSET Refs
      /\ Once(old, "reapply", EditOwe(r)) \subseteq old.refs \cup {"reapply"}
      /\ Once(old, "drawReversal", Drawn(r.row)) \in SUBSET Refs
      /\ Once(old, "drawReversal", Drawn(r.row)) \subseteq old.refs \cup {"drawReversal"}
      /\ Once(old, "drawReapply", EditDraw(r)) \in SUBSET Refs
      /\ Once(old, "drawReapply", EditDraw(r)) \subseteq old.refs \cup {"drawReapply"}
  <2>1. "reversal" \in Refs /\ "reapply" \in Refs /\ "drawReversal" \in Refs /\ "drawReapply" \in Refs
    BY DEF Refs
  <2>2. \A ref \in Refs, amount \in Nat :
          /\ Fresh(old, ref, amount) \in Nat /\ Once(old, ref, amount) \in SUBSET Refs
          /\ Once(old, ref, amount) \subseteq old.refs \cup {ref}
    BY <1>0, RefFacts
  <2> QED BY <1>1, <2>1, <2>2
<1>3. a \in Int /\ c \in Int /\ f \in SUBSET Refs /\ ("cancellation" \in f <=> "cancellation" \in old.refs)
  <2>1. old.ar \in Int /\ old.sales \in Int /\ old.refs \in SUBSET Refs
    BY <1>0 DEF InvoiceRow
  <2>2. a \in Int
    BY <1>2, <2>1
  <2>3. c \in Int
    BY <1>0, <2>1 DEF Resold
  <2>4. f \in SUBSET Refs
    BY <1>2, <2>1
  <2>5. "cancellation" \in f <=> "cancellation" \in old.refs
    BY <1>2
  <2> QED BY <2>2, <2>3, <2>4, <2>5
<1>4. new = [old EXCEPT !.total = r.amount, !.kind = r.kind, !.ar = a, !.sales = c, !.refs = f]
  BY DEF Edited
<1>5. c = old.sales + (r.amount - r.row.total)
  BY DEF Resold
<1> HIDE DEF a, c, f
<1>6. r.kind \in Kinds
  BY <1>0 DEF Settled, Kinds
<1>7. new \in InvoiceRow
  BY <1>0, <1>3, <1>4, <1>6 DEF InvoiceRow
<1>8. /\ new.kind = r.kind /\ new.total = r.amount /\ new.ar = a /\ new.sales = c /\ new.refs = f
      /\ new.canceled = old.canceled /\ new.paid = old.paid
  BY <1>0, <1>4 DEF InvoiceRow
<1>9. InvoiceOK(new)
  <2>1. old.paid /\ ("cancellation" \in old.refs => old.canceled)
    BY <1>0 DEF InvoiceOK
  <2>2. new.kind \in Settled /\ new.kind # "ABSENT" /\ new.kind # "LINK"
    BY <1>0, <1>8 DEF Settled
  <2>3. new.paid /\ ("cancellation" \in new.refs => new.canceled)
    BY <1>3, <1>8, <2>1, Zenon
  <2> QED BY <2>2, <2>3 DEF InvoiceOK
<1> QED BY <1>0, <1>5, <1>7, <1>8, <1>9 DEF a

\* The fields of the row a void leaves.
LEMMA VoidedRow ==
    ASSUME DInv, NEW s \in Sessions, session[s].op = "void", NEW new, NEW old, NEW r,
           r = session[s], old = invoice[r.order], new = Voided(r, old)
    PROVE  /\ new \in InvoiceRow /\ InvoiceOK(new)
           /\ new.kind = old.kind /\ new.kind \in Settled /\ new.total = old.total
           /\ new.canceled
           /\ new.ar = (old.ar - Fresh(old, "reversal", OnAccount(r.row))) - Cleared(old)
           /\ new.sales = old.sales - r.row.total
<1> DEFINE a == (old.ar - Fresh(old, "reversal", OnAccount(r.row))) - Cleared(old)
           c == old.sales - r.row.total
           f == old.refs \cup Once(old, "reversal", OnAccount(r.row))
                           \cup Once(old, "drawReversal", Drawn(r.row))
                           \cup Once(old, "cancellation", Floor(old.ar))
<1>0. /\ r.row.total \in Nat /\ old \in InvoiceRow /\ InvoiceOK(old) /\ old.kind \in Settled
  BY AuditSession
<1>1. OnAccount(r.row) \in Nat /\ Drawn(r.row) \in Nat
  BY AuditAmounts
<1>2. old.ar \in Int /\ old.sales \in Int /\ old.refs \in SUBSET Refs /\ Floor(old.ar) \in Nat
  BY <1>0 DEF InvoiceRow, Floor
<1>3. /\ Fresh(old, "reversal", OnAccount(r.row)) \in Nat /\ Fresh(old, "cancellation", Floor(old.ar)) \in Nat
      /\ Once(old, "reversal", OnAccount(r.row)) \in SUBSET Refs
      /\ Once(old, "drawReversal", Drawn(r.row)) \in SUBSET Refs
      /\ Once(old, "cancellation", Floor(old.ar)) \in SUBSET Refs
  <2>1. "reversal" \in Refs /\ "cancellation" \in Refs /\ "drawReversal" \in Refs
    BY DEF Refs
  <2> QED BY <1>0, <1>1, <1>2, <2>1, RefFacts
<1>4. a \in Int /\ c \in Int /\ f \in SUBSET Refs
  BY <1>0, <1>2, <1>3 DEF Cleared
<1>5. new = [old EXCEPT !.canceled = TRUE, !.ar = a, !.sales = c, !.refs = f]
  BY DEF Voided
<1> HIDE DEF a, c, f
<1>7. new \in InvoiceRow
  BY <1>0, <1>4, <1>5 DEF InvoiceRow
<1>8. /\ new.kind = old.kind /\ new.total = old.total /\ new.ar = a /\ new.sales = c
      /\ new.canceled = TRUE /\ new.paid = old.paid
  BY <1>0, <1>5 DEF InvoiceRow
<1>9. InvoiceOK(new)
  <2>1. old.paid
    BY <1>0 DEF InvoiceOK
  <2>2. new.kind \in Settled /\ new.kind # "ABSENT" /\ new.kind # "LINK"
    BY <1>0, <1>8 DEF Settled
  <2>3. new.paid /\ new.canceled
    BY <1>8, <2>1, Zenon
  <2> QED BY <2>2, <2>3 DEF InvoiceOK
<1>10. new.canceled
  BY <1>8, Zenon
<1> QED BY <1>0, <1>7, <1>8, <1>9, <1>10 DEF a, c

\* An edit: the reversed and re-applied wallet, the row, and what marks the books.
LEMMA EditEffect ==
    ASSUME NEW s \in Sessions, CommitEdit(s), NEW r, r = session[s], NEW old, old = invoice[r.order]
    PROVE  /\ r.op = "edit"
           /\ wallet' = [wallet EXCEPT !.balance = ReversedBalance(r) - EditDraw(r),
                                       !.debt = ReversedDebt(r) + EditOwe(r)]
           /\ invoice' = [invoice EXCEPT ![r.order] = Edited(r, old)]
           /\ books' = [books EXCEPT !.liability = @ + Fresh(old, "drawReversal", Drawn(r.row))
                                                     - Fresh(old, "drawReapply", EditDraw(r))]
           /\ skew' = skew \cup (IF \/ Reused(old, "reversal", OnAccount(r.row)) \/ Reused(old, "reapply", EditOwe(r))
                                    \/ Reused(old, "drawReversal", Drawn(r.row)) \/ Reused(old, "drawReapply", EditDraw(r))
                                 THEN {"refReused"} ELSE {})
                           \cup (IF r.kind = "WALLET" /\ EditDraw(r) < r.amount THEN {"drawnShort"} ELSE {})
                           \cup PaidReversed(r)
           /\ End(s) /\ sub' = sub /\ moved' = moved
BY DEF CommitEdit, EditDraw, EditOwe, Edited

\* A void.
LEMMA VoidEffect ==
    ASSUME NEW s \in Sessions, CommitVoid(s), NEW r, r = session[s], NEW old, old = invoice[r.order]
    PROVE  /\ r.op = "void"
           /\ wallet' = [wallet EXCEPT !.balance = ReversedBalance(r), !.debt = ReversedDebt(r)]
           /\ invoice' = [invoice EXCEPT ![r.order] = Voided(r, old)]
           /\ books' = [books EXCEPT !.liability = @ + Fresh(old, "drawReversal", Drawn(r.row))]
           /\ skew' = skew \cup (IF Fresh(old, "reversal", OnAccount(r.row)) > 0 THEN {"reversedTwice"} ELSE {})
                           \cup (IF Reused(old, "drawReversal", Drawn(r.row)) THEN {"refReused"} ELSE {})
                           \cup PaidReversed(r)
           /\ End(s) /\ sub' = sub /\ moved' = moved
BY DEF CommitVoid, Voided

\* An edit.
LEMMA EditKeeps ==
    ASSUME DInv, NEW s \in Sessions, CommitEdit(s), workload' = workload
    PROVE  DInv'
<1> DEFINE r == session[s]
           i == r.order
           old == invoice[i]
           new == Edited(r, old)
<1>0. TypeOK /\ ChainOK /\ r.op = "edit"
  BY EditEffect DEF DInv
<1>1. i \in Invoices /\ old \in InvoiceRow
  BY <1>0, AuditSession
<1>2. /\ ReversedBalance(r) \in Nat /\ ReversedDebt(r) \in Nat /\ EditDraw(r) \in 0 .. ReversedBalance(r)
      /\ EditOwe(r) \in Nat /\ Drawn(r.row) \in Nat
  BY <1>0, AuditAmounts
<1>3. /\ wallet' = [wallet EXCEPT !.balance = ReversedBalance(r) - EditDraw(r), !.debt = ReversedDebt(r) + EditOwe(r)]
      /\ invoice' = [invoice EXCEPT ![i] = new]
      /\ books' = [books EXCEPT !.liability = @ + Fresh(old, "drawReversal", Drawn(r.row))
                                                - Fresh(old, "drawReapply", EditDraw(r))]
      /\ End(s) /\ sub' = sub /\ moved' = moved
  BY DEF CommitEdit, EditDraw, EditOwe, Edited
<1>4. new \in InvoiceRow /\ InvoiceOK(new) /\ new.kind \in Settled
  BY <1>0, EditedRow
<1>5. skew' \subseteq skew \cup {"refReused", "drawnShort", "paidReversed"}
  BY EditEffect DEF PaidReversed
<1> HIDE DEF new
<1>6. /\ invoice' \in [Invoices -> InvoiceRow] /\ InvoicesOK'
      /\ \A j \in Invoices : invoice[j].kind \in Settled => invoice'[j].kind \in Settled
  BY <1>1, <1>3, <1>4, OneInvoice
<1>7. wallet' \in WalletRow
  <2> DEFINE x == ReversedBalance(r) - EditDraw(r)
             y == ReversedDebt(r) + EditOwe(r)
  <2>1. wallet \in WalletRow /\ wallet' = [wallet EXCEPT !.balance = x, !.debt = y]
    BY <1>0, <1>3, Types
  <2>2. x \in Nat /\ y \in Nat
    BY <1>2
  <2> HIDE DEF x, y
  <2> QED BY <2>1, <2>2 DEF WalletRow
<1>8. books' \in BookRow
  <2> DEFINE x == Fresh(old, "drawReversal", Drawn(r.row))
             y == Fresh(old, "drawReapply", EditDraw(r))
             z == books.liability + (x - y)
  <2>1. books \in BookRow /\ books' = [books EXCEPT !.liability = z]
    BY <1>0, <1>3, Types
  <2>2. x \in Nat /\ y \in Nat
    <3>1. "drawReversal" \in Refs /\ "drawReapply" \in Refs /\ EditDraw(r) \in Nat
      BY <1>2 DEF Refs
    <3> QED BY <1>1, <1>2, <3>1, RefFacts
  <2> HIDE DEF x, y
  <2>3. z \in Int
    BY <2>1, <2>2 DEF BookRow
  <2> HIDE DEF z
  <2> QED BY <2>1, <2>3 DEF BookRow
<1>9. moved' \in MovedRow /\ skew' \subseteq Skews
  BY <1>0, <1>3, <1>5, Types DEF Skews
<1>10. sub' \in [Subs -> SubRow] /\ ChainOK' /\ \A j \in Subs : sub[j].status # "ABSENT" => sub'[j].status # "ABSENT"
  BY <1>0, <1>3, Types DEF ChainOK
<1> QED BY <1>3, <1>6, <1>7, <1>8, <1>9, <1>10, EndStep

\* A void.
LEMMA VoidKeeps ==
    ASSUME DInv, NEW s \in Sessions, CommitVoid(s), workload' = workload
    PROVE  DInv'
<1> DEFINE r == session[s]
           i == r.order
           old == invoice[i]
           new == Voided(r, old)
<1>0. TypeOK /\ ChainOK /\ r.op = "void"
  BY VoidEffect DEF DInv
<1>1. i \in Invoices /\ old \in InvoiceRow
  BY <1>0, AuditSession
<1>2. ReversedBalance(r) \in Nat /\ ReversedDebt(r) \in Nat /\ Drawn(r.row) \in Nat
  BY <1>0, AuditAmounts
<1>3. /\ wallet' = [wallet EXCEPT !.balance = ReversedBalance(r), !.debt = ReversedDebt(r)]
      /\ invoice' = [invoice EXCEPT ![i] = new]
      /\ books' = [books EXCEPT !.liability = @ + Fresh(old, "drawReversal", Drawn(r.row))]
      /\ End(s) /\ sub' = sub /\ moved' = moved
  BY DEF CommitVoid, Voided
<1>4. new \in InvoiceRow /\ InvoiceOK(new) /\ new.kind \in Settled
  BY <1>0, VoidedRow
<1>5. skew' \subseteq skew \cup {"refReused", "reversedTwice", "paidReversed"}
  BY VoidEffect DEF PaidReversed
<1> HIDE DEF new
<1>6. /\ invoice' \in [Invoices -> InvoiceRow] /\ InvoicesOK'
      /\ \A j \in Invoices : invoice[j].kind \in Settled => invoice'[j].kind \in Settled
  BY <1>1, <1>3, <1>4, OneInvoice
<1>7. wallet' \in WalletRow
  BY <1>0, <1>2, <1>3, Types DEF WalletRow
<1>8. books' \in BookRow
  <2> DEFINE x == Fresh(old, "drawReversal", Drawn(r.row))
             z == books.liability + x
  <2>1. books \in BookRow /\ books' = [books EXCEPT !.liability = z]
    BY <1>0, <1>3, Types
  <2>2. x \in Nat
    <3>1. "drawReversal" \in Refs
      BY DEF Refs
    <3> QED BY <1>1, <1>2, <3>1, RefFacts
  <2> HIDE DEF x
  <2>3. z \in Int
    BY <2>1, <2>2 DEF BookRow
  <2> HIDE DEF z
  <2> QED BY <2>1, <2>3 DEF BookRow
<1>9. moved' \in MovedRow /\ skew' \subseteq Skews
  BY <1>0, <1>3, <1>5, Types DEF Skews
<1>10. sub' \in [Subs -> SubRow] /\ ChainOK' /\ \A j \in Subs : sub[j].status # "ABSENT" => sub'[j].status # "ABSENT"
  BY <1>0, <1>3, Types DEF ChainOK
<1> QED BY <1>3, <1>6, <1>7, <1>8, <1>9, <1>10, EndStep

\* The requests that start.
LEMMA BeginsKeep ==
    ASSUME DInv, NEW s \in Sessions, workload' = workload,
           \/ \E method \in Methods, close \in BOOLEAN : BeginActivate(s, method, close)
           \/ \E k \in Subs : BeginCancel(s, k)
           \/ BeginExtend(s)
           \/ \E amount, discount \in Payments \cup {0} : BeginPay(s, amount, discount)
           \/ \E i \in Invoices, total \in NewTotals, kind \in {"DEBT", "WALLET", "CASH"} : BeginEdit(s, i, total, kind)
           \/ \E i \in Invoices : BeginVoid(s, i)
    PROVE  DInv'
<1>0. TypeOK /\ InvoicesOK
  BY DEF DInv
<1>1. ASSUME NEW method \in Methods, NEW close \in BOOLEAN, BeginActivate(s, method, close) PROVE DInv'
  <2> DEFINE q == [Idle EXCEPT !.method = method, !.close = close]
  <2>1. q \in SessionRow
    BY IdleRow DEF SessionRow
  <2>2. Begin(s, "activate", q) /\ "activate" \in AllOperations
    BY <1>1 DEF BeginActivate, AllOperations
  <2> HIDE DEF q
  <2> QED BY <2>1, <2>2, BeginKeeps
<1>2. ASSUME NEW k \in Subs, BeginCancel(s, k) PROVE DInv'
  <2> DEFINE q == [Idle EXCEPT !.sub = k]
  <2>1. q \in SessionRow /\ q.sub = k
    BY IdleRow DEF SessionRow
  <2>2. Begin(s, "cancel", q) /\ "cancel" \in AllOperations /\ sub[k].status = "ACTIVE"
    BY <1>2 DEF BeginCancel, AllOperations
  <2> HIDE DEF q
  <2> QED BY <2>1, <2>2, BeginKeeps
<1>3. ASSUME BeginExtend(s) PROVE DInv'
  <2> DEFINE q == Idle
  <2>1. q \in SessionRow
    BY IdleRow
  <2>2. Begin(s, "extend", q) /\ "extend" \in AllOperations
    BY <1>3 DEF BeginExtend, AllOperations
  <2> HIDE DEF q
  <2> QED BY <2>1, <2>2, BeginKeeps
<1>4. ASSUME NEW amount \in Payments \cup {0}, NEW discount \in Payments \cup {0}, BeginPay(s, amount, discount) PROVE DInv'
  <2> DEFINE q == [Idle EXCEPT !.amount = amount, !.discount = discount]
  <2>0. amount \in Nat /\ discount \in Nat
    BY WalletDeskAssumption
  <2>1. q \in SessionRow
    BY <2>0, IdleRow DEF SessionRow
  <2>2. Begin(s, "pay", q) /\ "pay" \in AllOperations
    BY <1>4 DEF BeginPay, AllOperations
  <2> HIDE DEF q
  <2> QED BY <2>1, <2>2, BeginKeeps
<1>5. ASSUME NEW i \in Invoices, NEW total \in NewTotals, NEW kind \in {"DEBT", "WALLET", "CASH"}, BeginEdit(s, i, total, kind)
      PROVE  DInv'
  <2> DEFINE q == [Idle EXCEPT !.order = i, !.amount = total, !.kind = kind, !.row = invoice[i]]
  <2>0. total \in Nat /\ invoice[i] \in InvoiceRow /\ kind \in Settled
    BY <1>0, Types, AuditAssumption DEF Settled
  <2>1. q \in SessionRow /\ q.order = i /\ q.row = invoice[i]
    BY <2>0, IdleRow DEF SessionRow
  <2>2. /\ Begin(s, "edit", q) /\ "edit" \in AllOperations
        /\ invoice[i].kind \in Settled /\ ~invoice[i].canceled
    BY <1>5 DEF BeginEdit, AllOperations, Settled
  <2> HIDE DEF q
  <2> QED BY <2>1, <2>2, BeginKeeps
<1>6. ASSUME NEW i \in Invoices, BeginVoid(s, i) PROVE  DInv'
  <2> DEFINE q == [Idle EXCEPT !.order = i, !.row = invoice[i]]
  <2>0. invoice[i] \in InvoiceRow
    BY <1>0, Types
  <2>1. q \in SessionRow /\ q.order = i /\ q.row = invoice[i]
    BY <2>0, IdleRow DEF SessionRow
  <2>2. /\ Begin(s, "void", q) /\ "void" \in AllOperations
        /\ invoice[i].kind \in Settled /\ ~invoice[i].canceled
    BY <1>6 DEF BeginVoid, AllOperations, Settled
  <2> HIDE DEF q
  <2> QED BY <2>1, <2>2, BeginKeeps
<1> QED BY <1>1, <1>2, <1>3, <1>4, <1>5, <1>6

\* The invariant holds at first.
LEMMA InitDInv == Init => DInv
<1> SUFFICES ASSUME Init PROVE DInv
  OBVIOUS
<1>0. /\ wallet = [balance |-> 0, debt |-> 0, plan |-> FALSE, until |-> 0]
      /\ invoice = [i \in Invoices |-> NoInvoice]
      /\ sub = [k \in Subs |-> NoSub]
      /\ session = [s \in Sessions |-> Idle]
  BY DEF Init, Idle
<1>1. TypeOK
  <2>1. NoSub \in SubRow
    BY WalletDeskAssumption DEF NoSub, SubRow
  <2>2. invoice \in [Invoices -> InvoiceRow] /\ sub \in [Subs -> SubRow]
    BY <1>0, <2>1, IdleRow
  <2>3. wallet \in WalletRow
    BY <1>0 DEF WalletRow
  <2>4. books \in BookRow /\ moved \in MovedRow /\ skew \subseteq Skews
    BY DEF Init, BookRow, MovedRow
  <2>5. started \in 0 .. MaxRequests /\ overlapped \in BOOLEAN /\ workload \in Workloads
    <3>1. 0 \in 0 .. MaxRequests
      BY WalletDeskAssumption
    <3>2. started = 0 /\ overlapped = FALSE /\ workload \in Workloads
      BY DEF Init
    <3> QED BY <3>1, <3>2
  <2> QED BY <2>2, <2>3, <2>4, <2>5 DEF TypeOK, WalletRow, InvoiceRow, SubRow, BookRow, MovedRow, Skews
<1>2. SessionsOK
  BY <1>0, IdleRow DEF SessionsOK
<1>3. ChainOK
  <2>1. \A k \in Subs : sub[k].status = "ABSENT" /\ sub[k].parent = 0
    BY <1>0 DEF NoSub
  <2> QED BY <2>1, RowsFinite DEF ChainOK
<1>4. InvoicesOK
  BY <1>0 DEF InvoicesOK, InvoiceOK, NoInvoice, Settled
<1> QED BY <1>1, <1>2, <1>3, <1>4 DEF DInv

\* Every step keeps it.
LEMMA StepDInv == DInv /\ [AuditNext]_vars => DInv'
<1> SUFFICES ASSUME DInv, [AuditNext]_vars PROVE DInv'
  OBVIOUS
<1>1. CASE AuditNext
  <2>0. workload' = workload
    BY <1>1 DEF AuditNext
  <2>1. CASE \E i \in Invoices, kind \in Kinds : Issue(i, kind)
    BY <2>0, <2>1, IssueKeeps
  <2>2. CASE Day
    BY <2>0, <2>2, DayKeeps
  <2>3. ASSUME NEW s \in Sessions,
               \/ Rollback(s) \/ (\E k \in Subs : CommitActivate(s, k)) \/ CommitCancel(s)
               \/ CommitExtend(s) \/ CommitPay(s) \/ CommitEdit(s) \/ CommitVoid(s)
        PROVE  DInv'
    BY <2>0, <2>3, RollbackKeeps, ActivateKeeps, CancelKeeps, ExtendKeeps, PayKeeps, EditKeeps, VoidKeeps
  <2> QED BY <1>1, <2>0, <2>1, <2>2, <2>3, BeginsKeep DEF AuditNext, Step, AuditStep
<1>2. CASE UNCHANGED vars
  <2>1. /\ wallet' = wallet /\ invoice' = invoice /\ sub' = sub /\ books' = books /\ moved' = moved /\ skew' = skew
        /\ session' = session /\ started' = started /\ overlapped' = overlapped /\ workload' = workload
    BY <1>2 DEF vars, rows
  <2> QED BY <2>1 DEF DInv, TypeOK, SessionsOK, ChainOK, InvoicesOK, InvoiceOK
<1> QED BY <1>1, <1>2

\* The rows of the desk keep their types, in every order of requests: neither the
\* balance nor the debt of a wallet becomes negative, no matter how requests
\* overlap (customer-ledger.service.ts and invoice-audit.service.ts compute from
\* the row they read before the lock).
THEOREM WalletTyped == AuditSpec => []TypeOK
<1>1. Init => DInv
  BY InitDInv
<1>2. DInv /\ [AuditNext]_vars => DInv'
  BY StepDInv
<1>3. DInv => TypeOK
  BY DEF DInv
<1> QED BY <1>1, <1>2, <1>3, PTL DEF AuditSpec

-----------------------------------------------------------------------------
(* One request at a time *)

\* The request that ends was the only one.
LEMMA EndAlone ==
    ASSUME DInv, Alone, NEW s \in Sessions, Active(s), End(s)
    PROVE  Alone'
<1>1. session' = [session EXCEPT ![s] = Idle] /\ session \in [Sessions -> SessionRow]
  BY DEF End, DInv, SessionsOK
<1>2. \A r \in Sessions : session'[r].op = "idle"
  BY <1>1, IdleRow DEF Alone, Active
<1> QED BY <1>2 DEF Alone, Active

\* The request that starts is the only one, and what it has read is so.
LEMMA BeginAlone ==
    ASSUME DInv, NEW s \in Sessions, NEW op, NEW request \in SessionRow, Begin(s, op, request), ~overlapped',
           op = "cancel" => sub[request.sub].status = "ACTIVE",
           op \in {"edit", "void"} => request.row = invoice[request.order] /\ ~request.row.canceled
    PROVE  Alone' /\ ~overlapped
<1>1. /\ ~overlapped /\ \A r \in Sessions : session[r].op = "idle"
      /\ wallet' = wallet /\ invoice' = invoice /\ sub' = sub
  BY DEF Begin, rows, Active
<1> DEFINE new == [request EXCEPT !.op = op, !.seen = wallet]
<1>2. session' = [session EXCEPT ![s] = new]
  BY DEF Begin
<1>3. new.op = op /\ new.sub = request.sub /\ new.order = request.order /\ new.row = request.row /\ new.seen = wallet
  BY DEF SessionRow
<1> HIDE DEF new
<1>4. session'[s] = new /\ \A r \in Sessions \ {s} : session'[r].op = "idle"
  BY <1>1, <1>2 DEF DInv, SessionsOK
<1>5. \A q, r \in Sessions : Active(q)' /\ Active(r)' => q = r
  BY <1>4 DEF Active
<1>6. \A r \in Sessions : Active(r)' => session'[r].seen.balance = wallet'.balance /\ session'[r].seen.debt = wallet'.debt
  BY <1>1, <1>3, <1>4 DEF Active
<1>7. \A r \in Sessions : session'[r].op = "cancel" => sub'[session'[r].sub].status = "ACTIVE"
  BY <1>1, <1>3, <1>4
<1>8. ASSUME NEW r \in Sessions, session'[r].op \in {"edit", "void"}
      PROVE  LET old == invoice'[session'[r].order]
             IN  session'[r].row.kind = old.kind /\ session'[r].row.total = old.total /\ ~old.canceled
  <2>1. r = s
    BY <1>4, <1>8
  <2> QED BY <1>1, <1>3, <1>4, <1>8, <2>1
<1> QED BY <1>1, <1>5, <1>6, <1>7, <1>8 DEF Alone

\* A request that is alone has read what is there.
LEMMA AloneSeen ==
    ASSUME DInv, Alone, NEW s \in Sessions, Active(s)
    PROVE  /\ session[s].seen.balance = wallet.balance /\ session[s].seen.debt = wallet.debt
           /\ session[s].op = "cancel" => sub[session[s].sub].status = "ACTIVE"
           /\ session[s].op \in {"edit", "void"} =>
                 /\ session[s].row.kind = invoice[session[s].order].kind
                 /\ session[s].row.total = invoice[session[s].order].total
                 /\ ~invoice[session[s].order].canceled
BY DEF Alone

\* One invoice changes.
LEMMA NetChange ==
    ASSUME TypeOK, TypeOK', NEW i \in Invoices, \A j \in Invoices \ {i} : invoice'[j] = invoice[j]
    PROVE  NetReceivable' = NetReceivable + (invoice'[i].ar - invoice[i].ar) + (Loose' - Loose)
<1> DEFINE f == [j \in Invoices |-> invoice[j].ar]
           g == [j \in Invoices |-> invoice'[j].ar]
<1>1. invoice \in [Invoices -> InvoiceRow] /\ invoice' \in [Invoices -> InvoiceRow]
  BY DEF TypeOK, InvoiceRow
<1>2. (\A j \in Invoices : f[j] \in Int /\ g[j] \in Int) /\ \A j \in Invoices \ {i} : g[j] = f[j]
  BY <1>1 DEF InvoiceRow
<1>3. NetReceivable = SumFunctionOnSet(f, Invoices) + Loose /\ NetReceivable' = SumFunctionOnSet(g, Invoices) + Loose'
  BY DEF NetReceivable
<1>4. f[i] = invoice[i].ar /\ g[i] = invoice'[i].ar
  OBVIOUS
<1>5. Loose \in Int /\ Loose' \in Int
  BY DEF Loose, TypeOK
<1> HIDE DEF f, g
<1>6. SumFunctionOnSet(g, Invoices) = SumFunctionOnSet(f, Invoices) + (g[i] - f[i]) /\ SumFunctionOnSet(f, Invoices) \in Int
  <2>1. \A x \in Invoices : f[x] \in Int /\ g[x] \in Int
    BY <1>2
  <2>2. \A x \in Invoices \ {i} : g[x] = f[x]
    BY <1>2
  <2>3. IsFiniteSet(Invoices)
    BY RowsFinite
  <2>4. SumFunctionOnSet(g, Invoices) = SumFunctionOnSet(f, Invoices) + (g[i] - f[i])
    BY <2>1, <2>2, <2>3, SumChange
  <2>5. SumFunctionOnSet(f, Invoices) \in Int
    BY <2>1, <2>3, SumInt
  <2> QED BY <2>4, <2>5
<1> QED BY <1>2, <1>3, <1>4, <1>5, <1>6

\* No invoice changes its receivable.
LEMMA NetSame ==
    ASSUME TypeOK, TypeOK', \A j \in Invoices : invoice'[j].ar = invoice[j].ar
    PROVE  NetReceivable' = NetReceivable + (Loose' - Loose)
<1>1. [j \in Invoices |-> invoice'[j].ar] = [j \in Invoices |-> invoice[j].ar]
  OBVIOUS
<1>2. NetReceivable' = SumFunctionOnSet([j \in Invoices |-> invoice[j].ar], Invoices) + Loose'
  BY <1>1 DEF NetReceivable
<1>3. Loose \in Int /\ Loose' \in Int
  BY DEF Loose, TypeOK
<1> QED BY <1>2, <1>3, NetInt DEF NetReceivable

\* What an invoice drew is an amount.
LEMMA DrawnNat ==
    ASSUME NEW row \in InvoiceRow
    PROVE  Drawn(row) \in Nat /\ OnAccount(row) \in Nat
BY DEF Drawn, OnAccount, InvoiceRow

\* What the invoices drew, when one changes.
LEMMA DrawingsChange ==
    ASSUME TypeOK, TypeOK', NEW i \in Invoices, \A j \in Invoices \ {i} : invoice'[j] = invoice[j]
    PROVE  /\ Drawings' = Drawings + (Drawn(invoice'[i]) - Drawn(invoice[i]))
           /\ Drawings \in Int
<1> DEFINE f == [j \in Invoices |-> Drawn(invoice[j])]
           g == [j \in Invoices |-> Drawn(invoice'[j])]
<1>1. invoice \in [Invoices -> InvoiceRow] /\ invoice' \in [Invoices -> InvoiceRow]
  BY DEF TypeOK, InvoiceRow
<1>2. (\A j \in Invoices : f[j] \in Int /\ g[j] \in Int) /\ \A j \in Invoices \ {i} : g[j] = f[j]
  BY <1>1, DrawnNat
<1>3. Drawings = SumFunctionOnSet(f, Invoices) /\ Drawings' = SumFunctionOnSet(g, Invoices)
  BY DEF Drawings, Drawn
<1>4. f[i] = Drawn(invoice[i]) /\ g[i] = Drawn(invoice'[i])
  OBVIOUS
<1> HIDE DEF f, g
<1>6. SumFunctionOnSet(g, Invoices) = SumFunctionOnSet(f, Invoices) + (g[i] - f[i]) /\ SumFunctionOnSet(f, Invoices) \in Int
  <2>1. \A x \in Invoices : f[x] \in Int /\ g[x] \in Int
    BY <1>2
  <2>2. \A x \in Invoices \ {i} : g[x] = f[x]
    BY <1>2
  <2>3. IsFiniteSet(Invoices)
    BY RowsFinite
  <2>4. SumFunctionOnSet(g, Invoices) = SumFunctionOnSet(f, Invoices) + (g[i] - f[i])
    BY <2>1, <2>2, <2>3, SumChange
  <2>5. SumFunctionOnSet(f, Invoices) \in Int
    BY <2>1, <2>3, SumInt
  <2> QED BY <2>4, <2>5
<1> QED BY <1>3, <1>4, <1>6

\* The number of subscriptions, and what they have drawn, are numbers.
LEMMA HoldingsTypes ==
    ASSUME TypeOK
    PROVE  Cardinality(Activated) \in Nat /\ IsFiniteSet(Activated) /\ Drawings \in Int
<1>1. IsFiniteSet(Activated)
  BY RowsFinite, FS_Subset DEF Activated
<1> DEFINE f == [j \in Invoices |-> Drawn(invoice[j])]
<1>2. \A j \in Invoices : f[j] \in Int
  BY Types, DrawnNat
<1>3. Drawings = SumFunctionOnSet(f, Invoices)
  BY DEF Drawings
<1> HIDE DEF f
<1> QED BY <1>1, <1>2, <1>3, RowsFinite, SumInt, FS_CardinalityType

-----------------------------------------------------------------------------
(* The books, step by step *)

\* A step that moves no money.
LEMMA UnmovedBooks ==
    ASSUME TypeOK, TypeOK', BooksOK,
           wallet'.balance = wallet.balance, wallet'.debt = wallet.debt,
           books' = books, moved' = moved, skew' = skew,
           \A k \in Subs : sub'[k].status = sub[k].status,
           \A i \in Invoices :
              /\ invoice'[i].kind = invoice[i].kind /\ invoice'[i].total = invoice[i].total
              /\ invoice'[i].ar = invoice[i].ar /\ invoice'[i].sales = invoice[i].sales
              /\ invoice'[i].canceled = invoice[i].canceled
    PROVE  BooksOK'
<1>0. NoLink' = NoLink
  BY DEF NoLink
<1>1. \A i \in Invoices : Drawn(invoice'[i]) = Drawn(invoice[i]) /\ OnAccount(invoice'[i]) = OnAccount(invoice[i])
  BY DEF Drawn, OnAccount
<1>2. ReceivableOK'
  <2>1. \A i \in Invoices : OnAccount(invoice[i])' = OnAccount(invoice'[i])
    BY DEF OnAccount
  <2> QED BY <1>1, <2>1 DEF BooksOK, ReceivableOK
<1>3. RefundsOK'
  BY DEF BooksOK, RefundsOK
<1>4. LiabilityOK' /\ CashOK'
  BY DEF BooksOK, LiabilityOK, CashOK
<1>5. DebtOK'
  <2>1. Loose' = Loose /\ Loose \in Int
    BY Types DEF Loose, BookRow
  <2>2. NetReceivable' = NetReceivable
    BY <2>1, NetSame, NetInt
  <2> QED BY <1>0, <2>2 DEF BooksOK, DebtOK
<1>6. SalesOK'
  BY DEF BooksOK, SalesOK
<1>7. HoldingsOK'
  <2>1. Drawings' = Drawings
    <3>1. [i \in Invoices |-> Drawn(invoice'[i])] = [i \in Invoices |-> Drawn(invoice[i])]
      BY <1>1
    <3> QED BY <3>1 DEF Drawings, Drawn
  <2>2. Activated' = Activated
    BY DEF Activated
  <2> QED BY <1>0, <2>1, <2>2 DEF BooksOK, HoldingsOK
<1> QED BY <1>2, <1>3, <1>4, <1>5, <1>6, <1>7 DEF BooksOK

\* Payment links do not count.
LEMMA LinkOnlyBooks ==
    ASSUME TypeOK, BooksOK, LinkOnly(invoice'), skew \subseteq skew'
    PROVE  ReceivableOK' /\ SalesOK' /\ (NoLink' => NoLink)
<1>1. ASSUME NEW i \in Invoices, invoice'[i].kind # "LINK" PROVE invoice'[i] = invoice[i]
  BY <1>1 DEF LinkOnly
<1>2. ReceivableOK'
  <2>1. \A i \in Invoices : OnAccount(invoice[i])' = OnAccount(invoice'[i])
    BY DEF OnAccount
  <2>2. skew' \cap {"refReused", "reversedTwice"} = {} => skew \cap {"refReused", "reversedTwice"} = {}
    OBVIOUS
  <2> QED BY <1>1, <2>1, <2>2 DEF BooksOK, ReceivableOK
<1>3. SalesOK'
  BY <1>1 DEF BooksOK, SalesOK
<1>4. NoLink' => NoLink
  BY DEF NoLink, LinkOnly
<1> QED BY <1>2, <1>3, <1>4

\* A payment.
LEMMA PayBooks ==
    ASSUME DInv, DInv', Alone, BooksOK, NEW s \in Sessions, CommitPay(s)
    PROVE  BooksOK'
<1>0. TypeOK /\ TypeOK' /\ session[s] \in SessionRow
  BY DEF DInv, SessionsOK
<1> DEFINE r == session[s]
           total == r.amount + r.discount
<1>1. PICK spread \in Nat :
         /\ r.op = "pay" /\ r.amount \in Nat /\ r.discount \in Nat
         /\ total <= OpenDebt /\ spread <= total
         /\ (\A i \in Invoices : invoice[i].kind # "LINK") => spread = 0 /\ invoice' = invoice
         /\ wallet' = [wallet EXCEPT !.debt = r.seen.debt - Lesser(total, r.seen.debt)]
         /\ LinkOnly(invoice')
         /\ books' = [books EXCEPT !.cash = @ + (IF r.amount > 0 THEN spread ELSE 0) + Floor(r.amount - spread),
                                   !.credits = @ + Floor(r.amount - spread) + r.discount]
         /\ moved' = [moved EXCEPT !.received = @ + r.amount]
         /\ skew' = skew \cup (IF r.discount > 0 /\ spread > 0 THEN {"discountSpread"} ELSE {})
         /\ sub' = sub
  BY PayEffect, Zenon
<1> HIDE DEF r
<1>2. r.seen.debt = wallet.debt
  BY <1>1, AloneSeen DEF r, Active
<1>3. /\ wallet \in WalletRow /\ books \in BookRow /\ moved \in MovedRow
      /\ wallet.debt \in Nat /\ wallet.balance \in Nat
      /\ books.cash \in Int /\ books.liability \in Int /\ books.debits \in Nat /\ books.credits \in Nat
      /\ moved.received \in Int
  BY <1>0, Types DEF WalletRow, BookRow, MovedRow
<1>4. skew \subseteq skew'
  BY <1>1
<1> DEFINE rest == Floor(r.amount - spread)
<1>5. rest \in Nat /\ (spread <= r.amount => rest = r.amount - spread) /\ (spread > r.amount => rest = 0)
  BY <1>1 DEF Floor
<1>6. /\ wallet'.balance = wallet.balance /\ wallet'.debt = wallet.debt - Lesser(total, wallet.debt)
      /\ books'.liability = books.liability /\ books'.debits = books.debits
      /\ books'.cash = books.cash + (IF r.amount > 0 THEN spread ELSE 0) + rest
      /\ books'.credits = books.credits + rest + r.discount
      /\ moved'.received = moved.received + r.amount /\ moved'.refunds = moved.refunds
  <2> DEFINE x == books.cash + (IF r.amount > 0 THEN spread ELSE 0) + rest
             y == books.credits + rest + r.discount
             z == moved.received + r.amount
             d == wallet.debt - Lesser(total, wallet.debt)
  <2>1. /\ books' = [books EXCEPT !.cash = x, !.credits = y] /\ moved' = [moved EXCEPT !.received = z]
        /\ wallet' = [wallet EXCEPT !.debt = d]
    BY <1>1, <1>2
  <2> HIDE DEF x, y, z, d
  <2>2. /\ books'.cash = x /\ books'.credits = y /\ books'.liability = books.liability /\ books'.debits = books.debits
        /\ moved'.received = z /\ moved'.refunds = moved.refunds
        /\ wallet'.balance = wallet.balance /\ wallet'.debt = d
    BY <1>3, <2>1 DEF WalletRow, BookRow, MovedRow
  <2> QED BY <2>2 DEF x, y, z, d
<1> HIDE DEF rest
<1>7. ReceivableOK' /\ SalesOK' /\ (NoLink' => NoLink)
  BY <1>0, <1>1, <1>4, LinkOnlyBooks
<1>8. RefundsOK'
  BY <1>1, <1>6 DEF BooksOK, RefundsOK
<1>9. LiabilityOK'
  BY <1>4, <1>6 DEF BooksOK, LiabilityOK
<1>10. CashOK'
  <2> SUFFICES ASSUME skew' \cap {"debtSettled", "discountSpread"} = {} PROVE books'.cash = moved'.received
    BY DEF CashOK
  <2>1. books.cash = moved.received
    BY <1>4 DEF BooksOK, CashOK
  <2>2. r.discount = 0 \/ spread = 0
    BY <1>1
  <2> QED BY <1>1, <1>3, <1>5, <1>6, <2>1, <2>2
<1>11. DebtOK'
  <2> SUFFICES ASSUME NoLink', skew' \cap {"settledOnAccount", "refReused", "reversedTwice", "paidReversed"} = {}
               PROVE  wallet'.debt = NetReceivable'
    BY DEF DebtOK
  <2>1. wallet.debt = NetReceivable
    BY <1>4, <1>7 DEF BooksOK, DebtOK
  <2>2. spread = 0 /\ invoice' = invoice
    BY <1>1, <1>7 DEF NoLink
  <2>3. OpenDebt = wallet.debt
    BY <1>0, <1>3, <2>1, OpenDebtIs
  <2>4. NetReceivable' = NetReceivable + (Loose' - Loose)
    BY <1>0, <2>2, NetSame
  <2>5. Loose' - Loose = -total
    BY <1>1, <1>3, <1>5, <1>6, <2>2 DEF Loose
  <2> QED BY <1>1, <1>3, <1>6, <2>1, <2>3, <2>4, <2>5 DEF Lesser
<1>12. HoldingsOK'
  <2> SUFFICES ASSUME NoLink', skew' \cap {"drawnShort", "debtSettled"} = {}, \A k \in Subs : sub'[k].status # "CANCELLED"
               PROVE  wallet'.balance = Credit * Cardinality(Activated') - Drawings'
    BY DEF HoldingsOK
  <2>1. invoice' = invoice /\ Drawings' = Drawings /\ Activated' = Activated
    BY <1>1, <1>7 DEF NoLink, Drawings, Activated, Drawn
  <2>2. wallet.balance = Credit * Cardinality(Activated) - Drawings
    BY <1>1, <1>4, <1>7 DEF BooksOK, HoldingsOK
  <2> QED BY <1>6, <2>1, <2>2
<1> QED BY <1>7, <1>8, <1>9, <1>10, <1>11, <1>12 DEF BooksOK

\* An activation adds one to the subscriptions, and closes none.
LEMMA ActivatedOne ==
    ASSUME DInv, NEW k \in Subs, sub[k].status = "ABSENT", sub' = Rolled(k)
    PROVE  /\ Cardinality(Activated') = Cardinality(Activated) + 1
           /\ \A j \in Subs : sub'[j].status = "CANCELLED" <=> sub[j].status = "CANCELLED"
<1> DEFINE new == sub'
<1>0. TypeOK /\ ChainOK /\ new = Rolled(k)
  BY DEF DInv
<1> HIDE DEF new
<1>1. /\ new[k].status = "ACTIVE"
      /\ \A j \in Subs \ {k} : new[j].status = IF j = Parent THEN "ROLLED_OVER" ELSE sub[j].status
  BY <1>0, RolledRows
<1>2. \A j \in Subs : sub[j].status = "ACTIVE" <=> j = Parent
  BY <1>0, ParentIs
<1>3. \A j \in Subs : new[j].status # "ABSENT" <=> (sub[j].status # "ABSENT" \/ j = k)
  BY <1>1, <1>2
<1>4. Activated' = Activated \cup {k} /\ k \notin Activated
  BY <1>3 DEF Activated, new
<1>5. IsFiniteSet(Activated)
  BY <1>0, HoldingsTypes
<1>6. \A j \in Subs : new[j].status = "CANCELLED" <=> sub[j].status = "CANCELLED"
  BY <1>1, <1>2
<1> DEFINE B == Activated'
<1>7. B = Activated \cup {k}
  BY <1>4
<1> HIDE DEF B
<1>8. Cardinality(B) = Cardinality(Activated) + 1
  BY <1>4, <1>5, <1>7, FS_AddElement
<1> QED BY <1>6, <1>8 DEF new, B

\* An activation.
LEMMA ActivateBooks ==
    ASSUME DInv, DInv', Alone, BooksOK, NEW s \in Sessions, NEW k \in Subs, CommitActivate(s, k)
    PROVE  BooksOK'
<1>0. TypeOK /\ TypeOK' /\ session[s] \in SessionRow
  BY DEF DInv, SessionsOK
<1> DEFINE r == session[s]
           onAccount == r.method = "DEBT_ON_ACCOUNT"
           paid == Lesser(OpenDebt, Credit)
<1>1. PICK covered \in Nat, spent \in Nat :
         /\ r.op = "activate"
         /\ covered <= paid /\ spent <= r.seen.balance + Credit - paid
         /\ (\A i \in Invoices : invoice[i].kind # "LINK") => covered = 0 /\ spent = 0 /\ invoice' = invoice
         /\ sub[k].status = "ABSENT"
         /\ wallet' = [balance |-> (r.seen.balance + (Credit - paid)) - spent,
                       debt |-> r.seen.debt - Lesser(paid, r.seen.debt) + (IF onAccount THEN Price ELSE 0),
                       plan |-> TRUE, until |-> Term]
         /\ sub' = Rolled(k)
         /\ LinkOnly(invoice')
         /\ books' = [cash |-> books.cash + (IF onAccount THEN 0 ELSE Price + paid),
                      liability |-> books.liability + Credit - spent,
                      debits |-> books.debits + (IF onAccount THEN Price ELSE 0),
                      credits |-> books.credits + (IF onAccount THEN 0 ELSE paid - covered)]
         /\ moved' = [moved EXCEPT !.received = @ + (IF onAccount THEN 0 ELSE Price)]
         /\ skew \subseteq skew'
         /\ paid > 0 => "debtSettled" \in skew' /\ (onAccount => "settledOnAccount" \in skew')
  BY ActivateEffect, Zenon
<1> HIDE DEF r, onAccount
<1>2. r.seen.debt = wallet.debt /\ r.seen.balance = wallet.balance
  BY <1>1, AloneSeen DEF r, Active
<1>3. /\ wallet \in WalletRow /\ books \in BookRow /\ moved \in MovedRow
      /\ wallet.debt \in Nat /\ wallet.balance \in Nat
      /\ books.cash \in Int /\ books.liability \in Int /\ books.debits \in Nat /\ books.credits \in Nat
      /\ moved.received \in Int
      /\ Credit \in Nat /\ Price \in Nat
  BY <1>0, Types, WalletDeskAssumption DEF WalletRow, BookRow, MovedRow
<1>4. paid \in Nat /\ paid <= Credit
  BY <1>0, <1>3, OpenDebtIs DEF Lesser
<1> HIDE DEF paid
<1>6. /\ wallet'.balance = (wallet.balance + (Credit - paid)) - spent
      /\ wallet'.debt = wallet.debt - Lesser(paid, wallet.debt) + (IF onAccount THEN Price ELSE 0)
      /\ books'.cash = books.cash + (IF onAccount THEN 0 ELSE Price + paid)
      /\ books'.liability = books.liability + Credit - spent
      /\ books'.debits = books.debits + (IF onAccount THEN Price ELSE 0)
      /\ books'.credits = books.credits + (IF onAccount THEN 0 ELSE paid - covered)
      /\ moved'.received = moved.received + (IF onAccount THEN 0 ELSE Price) /\ moved'.refunds = moved.refunds
  <2>1. /\ wallet'.balance = (wallet.balance + (Credit - paid)) - spent
        /\ wallet'.debt = wallet.debt - Lesser(paid, wallet.debt) + (IF onAccount THEN Price ELSE 0)
    BY <1>1, <1>2
  <2>2. /\ books'.cash = books.cash + (IF onAccount THEN 0 ELSE Price + paid)
        /\ books'.liability = books.liability + Credit - spent
        /\ books'.debits = books.debits + (IF onAccount THEN Price ELSE 0)
        /\ books'.credits = books.credits + (IF onAccount THEN 0 ELSE paid - covered)
    BY <1>1
  <2> DEFINE z == moved.received + (IF onAccount THEN 0 ELSE Price)
  <2>3. moved' = [moved EXCEPT !.received = z]
    BY <1>1
  <2> HIDE DEF z
  <2>4. moved'.received = z /\ moved'.refunds = moved.refunds
    BY <1>3, <2>3 DEF MovedRow
  <2> QED BY <2>1, <2>2, <2>4 DEF z
<1>5. /\ Cardinality(Activated') = Cardinality(Activated) + 1
      /\ \A j \in Subs : sub'[j].status = "CANCELLED" <=> sub[j].status = "CANCELLED"
  BY <1>1, ActivatedOne
<1>7. ReceivableOK' /\ SalesOK' /\ (NoLink' => NoLink)
  BY <1>0, <1>1, LinkOnlyBooks
<1>8. RefundsOK'
  BY <1>5, <1>6 DEF BooksOK, RefundsOK
<1>9. LiabilityOK'
  <2> SUFFICES ASSUME skew' \cap {"debtSettled", "refReused"} = {} PROVE books'.liability = wallet'.balance
    BY DEF LiabilityOK
  <2>1. books.liability = wallet.balance
    BY <1>1 DEF BooksOK, LiabilityOK
  <2>2. paid = 0
    BY <1>1, <1>4
  <2> QED BY <1>3, <1>6, <2>1, <2>2
<1>10. CashOK'
  <2> SUFFICES ASSUME skew' \cap {"debtSettled", "discountSpread"} = {} PROVE books'.cash = moved'.received
    BY DEF CashOK
  <2>1. books.cash = moved.received
    BY <1>1 DEF BooksOK, CashOK
  <2>2. paid = 0
    BY <1>1, <1>4
  <2> QED BY <1>3, <1>6, <2>1, <2>2
<1>11. DebtOK'
  <2> SUFFICES ASSUME NoLink', skew' \cap {"settledOnAccount", "refReused", "reversedTwice", "paidReversed"} = {}
               PROVE  wallet'.debt = NetReceivable'
    BY DEF DebtOK
  <2>1. wallet.debt = NetReceivable
    BY <1>1, <1>7 DEF BooksOK, DebtOK
  <2>2. covered = 0 /\ invoice' = invoice
    BY <1>1, <1>7 DEF NoLink
  <2>3. OpenDebt = wallet.debt
    BY <1>0, <1>3, <2>1, OpenDebtIs
  <2>4. NetReceivable' = NetReceivable + (Loose' - Loose)
    BY <1>0, <2>2, NetSame
  <2>5. paid = Lesser(wallet.debt, Credit) /\ Lesser(paid, wallet.debt) = paid
    BY <1>3, <2>3 DEF paid, Lesser
  <2>6. CASE onAccount
    <3>1. paid = 0
      BY <1>1, <1>4, <2>6
    <3>2. Loose' - Loose = Price
      BY <1>3, <1>6, <2>6 DEF Loose
    <3> QED BY <1>3, <1>6, <2>1, <2>4, <2>5, <2>6, <3>1, <3>2
  <2>7. CASE ~onAccount
    <3>1. Loose' - Loose = -paid
      BY <1>3, <1>4, <1>6, <2>2, <2>7 DEF Loose
    <3> QED BY <1>3, <1>4, <1>6, <2>1, <2>4, <2>5, <2>7, <3>1
  <2> QED BY <2>6, <2>7
<1>12. HoldingsOK'
  <2> SUFFICES ASSUME NoLink', skew' \cap {"drawnShort", "debtSettled"} = {}, \A j \in Subs : sub'[j].status # "CANCELLED"
               PROVE  wallet'.balance = Credit * Cardinality(Activated') - Drawings'
    BY DEF HoldingsOK
  <2>1. spent = 0 /\ invoice' = invoice /\ Drawings' = Drawings
    BY <1>1, <1>7 DEF NoLink, Drawings, Drawn
  <2>2. wallet.balance = Credit * Cardinality(Activated) - Drawings
    BY <1>1, <1>5, <1>7 DEF BooksOK, HoldingsOK
  <2>3. paid = 0
    BY <1>1, <1>4
  <2>4. Cardinality(Activated) \in Nat /\ Drawings \in Int
    BY <1>0, HoldingsTypes
  <2> DEFINE n == Cardinality(Activated)
  <2> HIDE DEF n
  <2>5. Credit * (n + 1) = Credit * n + Credit /\ Credit * n \in Int
    BY <1>3, <2>4 DEF n
  <2> QED BY <1>3, <1>5, <1>6, <2>1, <2>2, <2>3, <2>4, <2>5 DEF n
<1> QED BY <1>7, <1>8, <1>9, <1>10, <1>11, <1>12 DEF BooksOK

\* A cancellation.
LEMMA CancelBooks ==
    ASSUME DInv, DInv', Alone, BooksOK, NEW s \in Sessions, CommitCancel(s)
    PROVE  BooksOK'
<1>0. TypeOK /\ TypeOK' /\ ChainOK /\ InvoicesOK
  BY DEF DInv
<1> DEFINE r == session[s]
           k == r.sub
           fresh == sub[k].status # "CANCELLED"
<1>1. PICK gift \in Nat, cash \in Nat :
         /\ r.op = "cancel" /\ k \in Subs /\ sub[k].status # "ABSENT" /\ cash <= Price
         /\ wallet' = [wallet EXCEPT !.balance = r.seen.balance - gift - cash, !.plan = FALSE, !.until = 0]
         /\ sub' = [sub EXCEPT ![k].status = "CANCELLED"]
         /\ books' = [books EXCEPT !.liability = @ - (IF fresh THEN gift + cash ELSE 0),
                                   !.cash = @ - (IF fresh THEN cash ELSE 0)]
         /\ moved' = [moved EXCEPT !.received = @ - cash, !.refunds[k] = @ + cash]
         /\ invoice' = invoice /\ skew' = skew
  BY CancelEffect, Zenon
<1>2. r.seen.balance = wallet.balance /\ fresh
  BY <1>1, AloneSeen DEF Active
<1>3. /\ wallet \in WalletRow /\ books \in BookRow /\ moved \in MovedRow
      /\ wallet.balance \in Nat /\ books.cash \in Int /\ books.liability \in Int
      /\ moved.received \in Int /\ moved.refunds \in [Subs -> Nat] /\ Price \in Nat
  BY <1>0, Types, WalletDeskAssumption DEF WalletRow, BookRow, MovedRow
<1>4. /\ wallet'.balance = wallet.balance - gift - cash /\ wallet'.debt = wallet.debt
      /\ books'.liability = books.liability - (gift + cash) /\ books'.cash = books.cash - cash
      /\ books'.debits = books.debits /\ books'.credits = books.credits
      /\ moved'.received = moved.received - cash
      /\ moved'.refunds = [moved.refunds EXCEPT ![k] = @ + cash]
  <2> DEFINE a == wallet.balance - gift - cash
             b == books.liability - (gift + cash)
             c == books.cash - cash
             d == moved.received - cash
             f == [moved.refunds EXCEPT ![k] = @ + cash]
  <2>1. /\ wallet' = [wallet EXCEPT !.balance = a, !.plan = FALSE, !.until = 0]
        /\ books' = [books EXCEPT !.liability = b, !.cash = c]
        /\ moved' = [moved EXCEPT !.received = d, !.refunds = f]
    BY <1>1, <1>2
  <2> HIDE DEF a, b, c, d, f
  <2>2. wallet'.balance = a /\ wallet'.debt = wallet.debt
    BY <1>3, <2>1 DEF WalletRow
  <2>3. books'.liability = b /\ books'.cash = c /\ books'.debits = books.debits /\ books'.credits = books.credits
    BY <1>3, <2>1 DEF BookRow
  <2>4. moved'.received = d /\ moved'.refunds = f
    BY <1>3, <2>1 DEF MovedRow
  <2> QED BY <2>2, <2>3, <2>4 DEF a, b, c, d, f
<1>5. \A j \in Subs : sub'[j].status = IF j = k THEN "CANCELLED" ELSE sub[j].status
  BY <1>0, <1>1, CancelledChain
<1> HIDE DEF r, k, fresh
<1>6. LinkOnly(invoice') /\ skew \subseteq skew'
  BY <1>0, <1>1, SameLinkOnly
<1>7. ReceivableOK' /\ SalesOK' /\ (NoLink' => NoLink)
  BY <1>0, <1>6, LinkOnlyBooks
<1>8. RefundsOK'
  <2>1. moved.refunds[k] = 0
    BY <1>1, <1>2, <1>3 DEF BooksOK, RefundsOK, fresh
  <2>2. \A j \in Subs : moved'.refunds[j] = IF j = k THEN cash ELSE moved.refunds[j]
    BY <1>1, <1>3, <1>4, <2>1
  <2> QED BY <1>1, <1>5, <2>2 DEF BooksOK, RefundsOK
<1>9. LiabilityOK' /\ CashOK'
  BY <1>1, <1>3, <1>4 DEF BooksOK, LiabilityOK, CashOK
<1>10. DebtOK'
  <2>1. NetReceivable' = NetReceivable
    BY <1>1, <1>4 DEF NetReceivable, Loose
  <2> QED BY <1>1, <1>4, <1>7, <2>1 DEF BooksOK, DebtOK
<1>11. HoldingsOK'
  BY <1>1, <1>5 DEF HoldingsOK
<1> QED BY <1>7, <1>8, <1>9, <1>10, <1>11 DEF BooksOK

\* An invoice that is issued.
LEMMA IssueBooks ==
    ASSUME DInv, DInv', BooksOK, NEW i \in Invoices, NEW kind \in Kinds, Issue(i, kind)
    PROVE  BooksOK'
<1>0. TypeOK /\ TypeOK' /\ InvoicesOK
  BY DEF DInv
<1> DEFINE owe == IF kind = "DEBT" THEN Total ELSE 0
           draw == IF kind = "WALLET" THEN Total ELSE 0
           cash == IF kind = "CASH" THEN Total ELSE 0
           new == Issued(kind)
<1>1. /\ invoice[i].kind = "ABSENT"
      /\ invoice' = [invoice EXCEPT ![i] = new]
      /\ wallet' = [wallet EXCEPT !.debt = @ + owe, !.balance = @ - draw]
      /\ books' = [books EXCEPT !.cash = @ + cash, !.liability = @ - draw]
      /\ moved' = [moved EXCEPT !.received = @ + cash]
      /\ sub' = sub /\ skew' = skew
  BY IssueEffect
<1>2. owe \in Nat /\ draw \in Nat /\ cash \in Nat
  BY WalletDeskAssumption
<1>3. /\ wallet \in WalletRow /\ books \in BookRow /\ moved \in MovedRow /\ invoice \in [Invoices -> InvoiceRow]
      /\ wallet.balance \in Nat /\ wallet.debt \in Nat /\ books.cash \in Int /\ books.liability \in Int
      /\ moved.received \in Int
  BY <1>0, Types DEF WalletRow, BookRow, MovedRow
<1>4. /\ new.kind = kind /\ new.total = Total /\ new.canceled = FALSE
      /\ kind # "LINK" => new.ar = owe /\ new.sales = Total /\ OnAccount(new) = owe /\ Drawn(new) = draw
  BY IssuedRow DEF OnAccount, Drawn
<1>5. invoice[i].ar = 0 /\ Drawn(invoice[i]) = 0
  BY <1>0, <1>1 DEF InvoicesOK, InvoiceOK, NoInvoice, Drawn
<1> HIDE DEF owe, draw, cash, new
<1>6. /\ wallet'.balance = wallet.balance - draw /\ wallet'.debt = wallet.debt + owe
      /\ books'.liability = books.liability - draw /\ books'.cash = books.cash + cash
      /\ books'.debits = books.debits /\ books'.credits = books.credits
      /\ moved'.received = moved.received + cash /\ moved'.refunds = moved.refunds
  <2> DEFINE a == wallet.balance - draw
             b == wallet.debt + owe
             c == books.liability - draw
             d == books.cash + cash
             e == moved.received + cash
  <2>1. /\ wallet' = [wallet EXCEPT !.debt = b, !.balance = a]
        /\ books' = [books EXCEPT !.cash = d, !.liability = c]
        /\ moved' = [moved EXCEPT !.received = e]
    BY <1>1
  <2> HIDE DEF a, b, c, d, e
  <2>2. /\ wallet'.balance = a /\ wallet'.debt = b /\ books'.liability = c /\ books'.cash = d
        /\ books'.debits = books.debits /\ books'.credits = books.credits
        /\ moved'.received = e /\ moved'.refunds = moved.refunds
    BY <1>3, <2>1 DEF WalletRow, BookRow, MovedRow
  <2> QED BY <2>2 DEF a, b, c, d, e
<1>7. invoice'[i] = new /\ \A j \in Invoices \ {i} : invoice'[j] = invoice[j]
  BY <1>1, <1>3
<1>8. NoLink' => NoLink /\ kind # "LINK"
  BY <1>1, <1>4, <1>7 DEF NoLink
<1>9. ReceivableOK'
  <2>1. \A j \in Invoices : OnAccount(invoice[j])' = OnAccount(invoice'[j])
    BY DEF OnAccount
  <2> QED BY <1>1, <1>4, <1>7, <2>1 DEF BooksOK, ReceivableOK
<1>10. SalesOK'
  BY <1>4, <1>7 DEF BooksOK, SalesOK
<1>11. RefundsOK'
  BY <1>1, <1>6 DEF BooksOK, RefundsOK
<1>12. LiabilityOK' /\ CashOK'
  BY <1>1, <1>2, <1>3, <1>6 DEF BooksOK, LiabilityOK, CashOK
<1>13. DebtOK'
  <2> SUFFICES ASSUME NoLink', skew \cap {"settledOnAccount", "refReused", "reversedTwice", "paidReversed"} = {}
               PROVE  wallet'.debt = NetReceivable'
    BY <1>1 DEF DebtOK
  <2>1. wallet.debt = NetReceivable
    BY <1>8 DEF BooksOK, DebtOK
  <2>2. NetReceivable' = NetReceivable + (invoice'[i].ar - invoice[i].ar) + (Loose' - Loose)
    BY <1>0, <1>7, NetChange
  <2>3. Loose' = Loose /\ Loose \in Int
    BY <1>3, <1>6 DEF Loose, BookRow
  <2>4. invoice'[i].ar = owe
    BY <1>4, <1>7, <1>8
  <2> QED BY <1>2, <1>3, <1>5, <1>6, <2>1, <2>2, <2>3, <2>4
<1>14. HoldingsOK'
  <2> SUFFICES ASSUME NoLink', skew \cap {"drawnShort", "debtSettled"} = {}, \A j \in Subs : sub[j].status # "CANCELLED"
               PROVE  wallet'.balance = Credit * Cardinality(Activated') - Drawings'
    BY <1>1 DEF HoldingsOK
  <2>1. Drawings' = Drawings + (Drawn(invoice'[i]) - Drawn(invoice[i])) /\ Drawings \in Int
    BY <1>0, <1>7, DrawingsChange
  <2>2. wallet.balance = Credit * Cardinality(Activated) - Drawings
    BY <1>8 DEF BooksOK, HoldingsOK
  <2>3. Activated' = Activated
    BY <1>1 DEF Activated
  <2>4. Drawn(invoice'[i]) = draw
    BY <1>4, <1>7, <1>8
  <2>5. Credit * Cardinality(Activated) \in Int
    BY <1>0, HoldingsTypes, WalletDeskAssumption
  <2> QED BY <1>2, <1>3, <1>5, <1>6, <2>1, <2>2, <2>3, <2>4, <2>5
<1> QED BY <1>9, <1>10, <1>11, <1>12, <1>13, <1>14 DEF BooksOK

\* A wallet and books after an audit step, from what changed.
LEMMA AuditBooks ==
    ASSUME DInv, DInv', BooksOK, NEW i \in Invoices, invoice[i].kind \in Settled,
           \A j \in Invoices \ {i} : invoice'[j] = invoice[j],
           invoice'[i].kind \in Settled, skew \subseteq skew', sub' = sub, moved' = moved,
           books'.cash = books.cash, books'.debits = books.debits, books'.credits = books.credits,
           invoice'[i].sales = IF invoice'[i].canceled THEN 0 ELSE invoice'[i].total,
           skew' \cap {"refReused", "reversedTwice"} = {} => invoice'[i].ar = OnAccount(invoice'[i]),
           skew' \cap {"debtSettled", "refReused"} = {} =>
              books'.liability - books.liability = wallet'.balance - wallet.balance,
           skew' \cap {"refReused", "reversedTwice", "paidReversed"} = {} =>
              wallet'.debt - wallet.debt = OnAccount(invoice'[i]) - OnAccount(invoice[i]),
           "drawnShort" \notin skew' =>
              wallet'.balance - wallet.balance = Drawn(invoice[i]) - Drawn(invoice'[i])
    PROVE  BooksOK'
<1>0. TypeOK /\ TypeOK'
  BY DEF DInv
<1>1. /\ wallet.balance \in Int /\ wallet.debt \in Int /\ wallet'.balance \in Int /\ wallet'.debt \in Int
      /\ books.liability \in Int /\ books'.liability \in Int
      /\ books.debits \in Int /\ books.credits \in Int
  BY <1>0 DEF TypeOK
<1>2. invoice[i] \in InvoiceRow /\ invoice'[i] \in InvoiceRow
  BY <1>0 DEF TypeOK, InvoiceRow
<1>3. /\ OnAccount(invoice[i]) \in Nat /\ OnAccount(invoice'[i]) \in Nat
      /\ Drawn(invoice[i]) \in Nat /\ Drawn(invoice'[i]) \in Nat
  BY <1>2, DrawnNat
<1>4. NoLink' => NoLink
  BY DEF NoLink, Settled
<1>5. ReceivableOK'
  <2>1. \A j \in Invoices : OnAccount(invoice[j])' = OnAccount(invoice'[j])
    BY DEF OnAccount
  <2>2. skew' \cap {"refReused", "reversedTwice"} = {} => skew \cap {"refReused", "reversedTwice"} = {}
    OBVIOUS
  <2> QED BY <2>1, <2>2 DEF BooksOK, ReceivableOK
<1>6. SalesOK'
  BY DEF BooksOK, SalesOK
<1>7. RefundsOK'
  BY DEF BooksOK, RefundsOK
<1>8. CashOK'
  BY DEF BooksOK, CashOK
<1>9. LiabilityOK'
  BY <1>1 DEF BooksOK, LiabilityOK
<1>10. DebtOK'
  <2> SUFFICES ASSUME NoLink', skew' \cap {"settledOnAccount", "refReused", "reversedTwice", "paidReversed"} = {}
               PROVE  wallet'.debt = NetReceivable'
    BY DEF DebtOK
  <2>1. wallet.debt = NetReceivable
    BY <1>4 DEF BooksOK, DebtOK
  <2>2. NetReceivable' = NetReceivable + (invoice'[i].ar - invoice[i].ar) + (Loose' - Loose)
    BY <1>0, NetChange
  <2>3. Loose' = Loose /\ Loose \in Int
    BY <1>1 DEF Loose
  <2>4. invoice'[i].ar = OnAccount(invoice'[i])
    OBVIOUS
  <2>5. invoice[i].ar = OnAccount(invoice[i])
    BY DEF BooksOK, ReceivableOK, Settled
  <2>6. wallet'.debt - wallet.debt = OnAccount(invoice'[i]) - OnAccount(invoice[i])
    OBVIOUS
  <2> QED BY <1>1, <1>3, <2>1, <2>2, <2>3, <2>4, <2>5, <2>6
<1>11. HoldingsOK'
  <2> SUFFICES ASSUME NoLink', skew' \cap {"drawnShort", "debtSettled"} = {}, \A j \in Subs : sub'[j].status # "CANCELLED"
               PROVE  wallet'.balance = Credit * Cardinality(Activated') - Drawings'
    BY DEF HoldingsOK
  <2>1. Drawings' = Drawings + (Drawn(invoice'[i]) - Drawn(invoice[i])) /\ Drawings \in Int
    BY <1>0, DrawingsChange
  <2>2. wallet.balance = Credit * Cardinality(Activated) - Drawings
    BY <1>4 DEF BooksOK, HoldingsOK
  <2>3. Activated' = Activated
    BY DEF Activated
  <2>5. Credit * Cardinality(Activated) \in Int
    BY <1>0, HoldingsTypes, WalletDeskAssumption
  <2>6. wallet'.balance - wallet.balance = Drawn(invoice[i]) - Drawn(invoice'[i])
    OBVIOUS
  <2> QED BY <1>1, <1>3, <2>1, <2>2, <2>3, <2>5, <2>6
<1> QED BY <1>5, <1>6, <1>7, <1>8, <1>9, <1>10, <1>11 DEF BooksOK

\* The rows of an audit that is alone.
LEMMA AuditAlone ==
    ASSUME DInv, Alone, BooksOK, NEW s \in Sessions, session[s].op \in {"edit", "void"},
           NEW r, r = session[s], NEW old, old = invoice[r.order]
    PROVE  /\ r.order \in Invoices /\ old \in InvoiceRow /\ old.kind \in Settled /\ ~old.canceled
           /\ OnAccount(r.row) = OnAccount(old) /\ Drawn(r.row) = Drawn(old)
           /\ r.row.total = old.total /\ old.sales = old.total
           /\ ReversedBalance(r) = wallet.balance + Drawn(old)
           /\ ReversedDebt(r) = Floor(wallet.debt - OnAccount(old))
           /\ PaidReversed(r) = {} => OnAccount(old) <= wallet.debt
           /\ skew \cap {"refReused", "reversedTwice"} = {} => old.ar = OnAccount(old)
           /\ "cancellation" \notin old.refs
<1>1. /\ r.order \in Invoices /\ old \in InvoiceRow /\ old.kind \in Settled /\ InvoiceOK(old)
      /\ ~r.row.canceled
  BY AuditSession
<1>2. /\ r.row.kind = old.kind /\ r.row.total = old.total /\ ~old.canceled
      /\ r.seen.balance = wallet.balance /\ r.seen.debt = wallet.debt
  BY AloneSeen DEF Active
<1>3. wallet.balance \in Nat /\ wallet.debt \in Nat /\ old.total \in Nat
  BY <1>1, Types DEF DInv, WalletRow, InvoiceRow
<1>4. /\ OnAccount(r.row) = (IF old.kind = "DEBT" THEN old.total ELSE 0) /\ OnAccount(old) = OnAccount(r.row)
      /\ Drawn(r.row) = (IF old.kind = "WALLET" THEN old.total ELSE 0) /\ Drawn(old) = Drawn(r.row)
  BY <1>1, <1>2 DEF OnAccount, Drawn
<1>5. old.kind # "LINK"
  BY <1>1 DEF Settled
<1>6. old.sales = old.total
  BY <1>1, <1>2, <1>5 DEF BooksOK, SalesOK
<1>7. ReversedBalance(r) = wallet.balance + Drawn(old)
  BY <1>2, <1>3, <1>4 DEF ReversedBalance
<1>8. ReversedDebt(r) = Floor(wallet.debt - OnAccount(old))
  BY <1>2, <1>3, <1>4 DEF ReversedDebt, Floor
<1>9. PaidReversed(r) = {} => OnAccount(old) <= wallet.debt
  BY <1>2, <1>3, <1>4 DEF PaidReversed
<1>10. skew \cap {"refReused", "reversedTwice"} = {} => old.ar = OnAccount(old)
  BY <1>1, <1>5 DEF BooksOK, ReceivableOK
<1>11. "cancellation" \notin old.refs
  BY <1>1, <1>2 DEF InvoiceOK
<1> QED BY <1>1, <1>2, <1>4, <1>6, <1>7, <1>8, <1>9, <1>10, <1>11

\* An edit.
LEMMA EditBooks ==
    ASSUME DInv, DInv', Alone, BooksOK, NEW s \in Sessions, CommitEdit(s)
    PROVE  BooksOK'
<1> DEFINE r == session[s]
           i == r.order
           old == invoice[i]
           new == Edited(r, old)
           x == Fresh(old, "drawReversal", Drawn(r.row))
           y == Fresh(old, "drawReapply", EditDraw(r))
           u == Fresh(old, "reversal", OnAccount(r.row))
           v == Fresh(old, "reapply", EditOwe(r))
<1>0. TypeOK /\ TypeOK' /\ r.op = "edit"
  BY EditEffect DEF DInv
<1>1. /\ i \in Invoices /\ old \in InvoiceRow /\ old.kind \in Settled /\ ~old.canceled
      /\ OnAccount(r.row) = OnAccount(old) /\ Drawn(r.row) = Drawn(old)
      /\ r.row.total = old.total /\ old.sales = old.total
      /\ ReversedBalance(r) = wallet.balance + Drawn(old)
      /\ ReversedDebt(r) = Floor(wallet.debt - OnAccount(old))
      /\ PaidReversed(r) = {} => OnAccount(old) <= wallet.debt
      /\ skew \cap {"refReused", "reversedTwice"} = {} => old.ar = OnAccount(old)
  BY <1>0, AuditAlone
<1>2. /\ OnAccount(r.row) \in Nat /\ Drawn(r.row) \in Nat /\ EditOwe(r) \in Nat
      /\ EditDraw(r) \in Nat /\ EditDraw(r) <= r.amount
  BY <1>0, AuditAmounts
<1>3. /\ wallet' = [wallet EXCEPT !.balance = ReversedBalance(r) - EditDraw(r), !.debt = ReversedDebt(r) + EditOwe(r)]
      /\ invoice' = [invoice EXCEPT ![i] = new]
      /\ books' = [books EXCEPT !.liability = @ + x - y]
      /\ skew' = skew \cup (IF \/ Reused(old, "reversal", OnAccount(r.row)) \/ Reused(old, "reapply", EditOwe(r))
                               \/ Reused(old, "drawReversal", Drawn(r.row)) \/ Reused(old, "drawReapply", EditDraw(r))
                            THEN {"refReused"} ELSE {})
                      \cup (IF r.kind = "WALLET" /\ EditDraw(r) < r.amount THEN {"drawnShort"} ELSE {})
                      \cup PaidReversed(r)
      /\ sub' = sub /\ moved' = moved
  BY DEF CommitEdit, EditDraw, EditOwe, Edited
<1>4. /\ new.kind = r.kind /\ new.kind \in Settled /\ new.total = r.amount
      /\ new.canceled = old.canceled /\ new.ar = old.ar - u + v
      /\ new.sales = old.sales + (r.amount - r.row.total)
  BY <1>0, EditedRow
<1>5. /\ x \in Nat /\ y \in Nat /\ u \in Nat /\ v \in Nat
      /\ "refReused" \notin skew' => x = Drawn(old) /\ y = EditDraw(r) /\ u = OnAccount(old) /\ v = EditOwe(r)
  <2>1. "reversal" \in Refs /\ "reapply" \in Refs /\ "drawReversal" \in Refs /\ "drawReapply" \in Refs
    BY DEF Refs
  <2>2. x \in Nat /\ y \in Nat /\ u \in Nat /\ v \in Nat
    BY <1>1, <1>2, <2>1, RefFacts
  <2>3. /\ ~Reused(old, "reversal", OnAccount(r.row)) => u = OnAccount(r.row)
        /\ ~Reused(old, "reapply", EditOwe(r)) => v = EditOwe(r)
        /\ ~Reused(old, "drawReversal", Drawn(r.row)) => x = Drawn(r.row)
        /\ ~Reused(old, "drawReapply", EditDraw(r)) => y = EditDraw(r)
    BY <1>1, <1>2, <2>1, RefFacts
  <2> HIDE DEF x, y, u, v
  <2> QED BY <1>1, <1>3, <2>2, <2>3
<1>6. r.amount \in Nat /\ old.total \in Nat /\ old.ar \in Int /\ wallet \in WalletRow /\ books \in BookRow
      /\ invoice \in [Invoices -> InvoiceRow]
  BY <1>0, <1>1, AuditSession, Types DEF InvoiceRow
<1> HIDE DEF new, x, y, u, v
<1>7. invoice'[i] = new /\ \A j \in Invoices \ {i} : invoice'[j] = invoice[j]
  BY <1>1, <1>3, <1>6
<1>8. /\ wallet'.balance = (wallet.balance + Drawn(old)) - EditDraw(r)
      /\ wallet'.debt = Floor(wallet.debt - OnAccount(old)) + EditOwe(r)
      /\ books'.liability = books.liability + (x - y)
      /\ books'.cash = books.cash /\ books'.debits = books.debits /\ books'.credits = books.credits
  <2> DEFINE a == ReversedBalance(r) - EditDraw(r)
             b == ReversedDebt(r) + EditOwe(r)
             c == books.liability + (x - y)
  <2>1. wallet' = [wallet EXCEPT !.balance = a, !.debt = b] /\ books' = [books EXCEPT !.liability = c]
    BY <1>3
  <2> HIDE DEF a, b, c
  <2>2. /\ wallet'.balance = a /\ wallet'.debt = b /\ books'.liability = c
        /\ books'.cash = books.cash /\ books'.debits = books.debits /\ books'.credits = books.credits
    BY <1>6, <2>1 DEF WalletRow, BookRow
  <2> QED BY <1>1, <2>2 DEF a, b, c
<1>9. ~new.canceled
  BY <1>1, <1>4
<1>10. /\ OnAccount(new) = EditOwe(r)
       /\ Drawn(new) = IF r.kind = "WALLET" THEN r.amount ELSE 0
  BY <1>4, <1>9 DEF OnAccount, Drawn, EditOwe
<1>11. wallet.balance \in Nat /\ wallet.debt \in Nat /\ books.liability \in Int
       /\ OnAccount(old) \in Nat /\ Drawn(old) \in Nat
  BY <1>1, <1>2, <1>6 DEF WalletRow, BookRow
<1>12. skew \subseteq skew' /\ ("paidReversed" \notin skew' => PaidReversed(r) = {})
  BY <1>3 DEF PaidReversed
<1>13. new.sales = IF new.canceled THEN 0 ELSE new.total
  BY <1>1, <1>4, <1>6, <1>9
<1>14. skew' \cap {"refReused", "reversedTwice"} = {} => new.ar = OnAccount(new)
  BY <1>1, <1>4, <1>5, <1>6, <1>10, <1>11, <1>12
<1>15. skew' \cap {"debtSettled", "refReused"} = {} =>
         books'.liability - books.liability = wallet'.balance - wallet.balance
  <2> SUFFICES ASSUME skew' \cap {"debtSettled", "refReused"} = {}
               PROVE  books'.liability - books.liability = wallet'.balance - wallet.balance
    OBVIOUS
  <2>1. x = Drawn(old) /\ y = EditDraw(r)
    BY <1>5
  <2> DEFINE d == Drawn(old)
             e == EditDraw(r)
  <2>2. d \in Nat /\ e \in Nat /\ wallet'.balance = (wallet.balance + d) - e /\ books'.liability = books.liability + (d - e)
    BY <1>2, <1>8, <1>11, <2>1
  <2> HIDE DEF d, e
  <2> QED BY <1>11, <2>2
<1>16. skew' \cap {"refReused", "reversedTwice", "paidReversed"} = {} =>
         wallet'.debt - wallet.debt = OnAccount(new) - OnAccount(old)
  BY <1>1, <1>2, <1>8, <1>10, <1>11, <1>12 DEF Floor
<1>17. "drawnShort" \notin skew' => wallet'.balance - wallet.balance = Drawn(old) - Drawn(new)
  <2> SUFFICES ASSUME "drawnShort" \notin skew' PROVE wallet'.balance - wallet.balance = Drawn(old) - Drawn(new)
    OBVIOUS
  <2>1. r.kind = "WALLET" => EditDraw(r) = r.amount
    BY <1>2, <1>3, <1>6
  <2>2. r.kind # "WALLET" => EditDraw(r) = 0
    BY DEF EditDraw
  <2> QED BY <1>2, <1>6, <1>8, <1>10, <1>11, <2>1, <2>2
<1> HIDE DEF r, i, old
<1> QED BY <1>1, <1>3, <1>4, <1>7, <1>8, <1>12, <1>13, <1>14, <1>15, <1>16, <1>17, AuditBooks DEF old

\* A void.
LEMMA VoidBooks ==
    ASSUME DInv, DInv', Alone, BooksOK, NEW s \in Sessions, CommitVoid(s)
    PROVE  BooksOK'
<1> DEFINE r == session[s]
           i == r.order
           old == invoice[i]
           new == Voided(r, old)
           x == Fresh(old, "drawReversal", Drawn(r.row))
           u == Fresh(old, "reversal", OnAccount(r.row))
<1>0. TypeOK /\ TypeOK' /\ r.op = "void"
  BY VoidEffect DEF DInv
<1>1. /\ i \in Invoices /\ old \in InvoiceRow /\ old.kind \in Settled /\ ~old.canceled
      /\ OnAccount(r.row) = OnAccount(old) /\ Drawn(r.row) = Drawn(old)
      /\ r.row.total = old.total /\ old.sales = old.total
      /\ ReversedBalance(r) = wallet.balance + Drawn(old)
      /\ ReversedDebt(r) = Floor(wallet.debt - OnAccount(old))
      /\ PaidReversed(r) = {} => OnAccount(old) <= wallet.debt
      /\ skew \cap {"refReused", "reversedTwice"} = {} => old.ar = OnAccount(old)
      /\ "cancellation" \notin old.refs
  BY <1>0, AuditAlone
<1>2. OnAccount(r.row) \in Nat /\ Drawn(r.row) \in Nat
  BY <1>0, AuditAmounts
<1>3. /\ wallet' = [wallet EXCEPT !.balance = ReversedBalance(r), !.debt = ReversedDebt(r)]
      /\ invoice' = [invoice EXCEPT ![i] = new]
      /\ books' = [books EXCEPT !.liability = @ + x]
      /\ skew' = skew \cup (IF u > 0 THEN {"reversedTwice"} ELSE {})
                      \cup (IF Reused(old, "drawReversal", Drawn(r.row)) THEN {"refReused"} ELSE {})
                      \cup PaidReversed(r)
      /\ sub' = sub /\ moved' = moved
  BY DEF CommitVoid, Voided
<1>4. /\ new.kind \in Settled /\ new.canceled
      /\ new.ar = (old.ar - u) - Cleared(old) /\ new.sales = old.sales - r.row.total
  BY <1>0, VoidedRow
<1>5. /\ x \in Nat /\ u \in Nat
      /\ "refReused" \notin skew' => x = Drawn(old)
      /\ "reversedTwice" \notin skew' => u = 0
  <2>1. "reversal" \in Refs /\ "drawReversal" \in Refs
    BY DEF Refs
  <2>2. x \in Nat /\ u \in Nat /\ (~Reused(old, "drawReversal", Drawn(r.row)) => x = Drawn(r.row))
    BY <1>1, <1>2, <2>1, RefFacts
  <2> HIDE DEF x, u
  <2> QED BY <1>1, <1>3, <2>2
<1>6. old.total \in Nat /\ old.ar \in Int /\ wallet \in WalletRow /\ books \in BookRow
      /\ invoice \in [Invoices -> InvoiceRow]
  BY <1>0, <1>1, Types DEF InvoiceRow
<1> HIDE DEF new, x, u
<1>7. invoice'[i] = new /\ \A j \in Invoices \ {i} : invoice'[j] = invoice[j]
  BY <1>1, <1>3, <1>6
<1>8. /\ wallet'.balance = wallet.balance + Drawn(old)
      /\ wallet'.debt = Floor(wallet.debt - OnAccount(old))
      /\ books'.liability = books.liability + x
      /\ books'.cash = books.cash /\ books'.debits = books.debits /\ books'.credits = books.credits
  <2> DEFINE a == ReversedBalance(r)
             b == ReversedDebt(r)
             c == books.liability + x
  <2>1. wallet' = [wallet EXCEPT !.balance = a, !.debt = b] /\ books' = [books EXCEPT !.liability = c]
    BY <1>3
  <2> HIDE DEF a, b, c
  <2>2. /\ wallet'.balance = a /\ wallet'.debt = b /\ books'.liability = c
        /\ books'.cash = books.cash /\ books'.debits = books.debits /\ books'.credits = books.credits
    BY <1>6, <2>1 DEF WalletRow, BookRow
  <2> QED BY <1>1, <2>2 DEF a, b, c
<1>9. OnAccount(new) = 0 /\ Drawn(new) = 0
  BY <1>4 DEF OnAccount, Drawn
<1>11. wallet.balance \in Nat /\ wallet.debt \in Nat /\ books.liability \in Int
       /\ OnAccount(old) \in Nat /\ Drawn(old) \in Nat
  BY <1>1, <1>2, <1>6 DEF WalletRow, BookRow
<1>12. skew \subseteq skew' /\ ("paidReversed" \notin skew' => PaidReversed(r) = {})
  BY <1>3 DEF PaidReversed
<1>13. new.sales = IF new.canceled THEN 0 ELSE new.total
  BY <1>1, <1>4, <1>6
<1>14. skew' \cap {"refReused", "reversedTwice"} = {} => new.ar = OnAccount(new)
  <2> SUFFICES ASSUME skew' \cap {"refReused", "reversedTwice"} = {} PROVE new.ar = 0
    BY <1>9
  <2>1. old.ar = OnAccount(old) /\ u = 0
    BY <1>1, <1>5, <1>12
  <2>2. Cleared(old) = old.ar
    BY <1>1, <1>6, <1>11, <2>1 DEF Cleared, Fresh, Floor
  <2> QED BY <1>4, <1>6, <2>1, <2>2
<1>15. skew' \cap {"debtSettled", "refReused"} = {} =>
         books'.liability - books.liability = wallet'.balance - wallet.balance
  BY <1>2, <1>5, <1>8, <1>11
<1>16. skew' \cap {"refReused", "reversedTwice", "paidReversed"} = {} =>
         wallet'.debt - wallet.debt = OnAccount(new) - OnAccount(old)
  BY <1>1, <1>2, <1>8, <1>9, <1>11, <1>12 DEF Floor
<1>17. "drawnShort" \notin skew' => wallet'.balance - wallet.balance = Drawn(old) - Drawn(new)
  BY <1>8, <1>9, <1>11
<1> HIDE DEF r, i, old
<1> QED BY <1>1, <1>3, <1>4, <1>7, <1>8, <1>12, <1>13, <1>14, <1>15, <1>16, <1>17, AuditBooks DEF old

-----------------------------------------------------------------------------
(* The invariant while requests do not overlap *)

\* It holds at first.
LEMMA InitApart == Init => ApartInv
<1> SUFFICES ASSUME Init PROVE ApartInv
  OBVIOUS
<1>0. /\ wallet = [balance |-> 0, debt |-> 0, plan |-> FALSE, until |-> 0]
      /\ invoice = [i \in Invoices |-> NoInvoice]
      /\ sub = [k \in Subs |-> NoSub]
      /\ books = [cash |-> 0, liability |-> 0, debits |-> 0, credits |-> 0]
      /\ moved = [received |-> 0, refunds |-> [k \in Subs |-> 0]]
      /\ session = [s \in Sessions |-> Idle]
  BY DEF Init, Idle
<1>1. Alone
  BY <1>0, IdleRow DEF Alone, Active
<1>2. \A i \in Invoices : /\ invoice[i].ar = 0 /\ invoice[i].sales = 0 /\ invoice[i].total = 0 /\ ~invoice[i].canceled
                          /\ OnAccount(invoice[i]) = 0 /\ Drawn(invoice[i]) = 0
  BY <1>0 DEF NoInvoice, OnAccount, Drawn
<1>3. ReceivableOK /\ SalesOK
  BY <1>2 DEF ReceivableOK, SalesOK
<1>4. RefundsOK /\ LiabilityOK /\ CashOK
  BY <1>0, WalletDeskAssumption DEF RefundsOK, LiabilityOK, CashOK
<1>5. DebtOK
  <2> DEFINE f == [i \in Invoices |-> invoice[i].ar]
  <2>1. NetReceivable = SumFunctionOnSet(f, Invoices) + Loose /\ Loose = 0
    BY <1>0 DEF NetReceivable, Loose
  <2>2. \A i \in Invoices : f[i] = 0
    BY <1>2
  <2> HIDE DEF f
  <2>3. SumFunctionOnSet(f, Invoices) = 0
    BY <2>2, RowsFinite, SumZero
  <2> QED BY <1>0, <2>1, <2>3 DEF DebtOK
<1>6. HoldingsOK
  <2> DEFINE f == [i \in Invoices |-> Drawn(invoice[i])]
  <2>1. Drawings = SumFunctionOnSet(f, Invoices)
    BY DEF Drawings
  <2>2. \A i \in Invoices : f[i] = 0
    BY <1>2
  <2> HIDE DEF f
  <2>3. Drawings = 0
    BY <2>1, <2>2, RowsFinite, SumZero
  <2>4. Activated = {}
    BY <1>0 DEF Activated, NoSub
  <2>5. Cardinality(Activated) = 0
    BY <2>4, FS_EmptySet
  <2> QED BY <1>0, <2>3, <2>5, WalletDeskAssumption DEF HoldingsOK
<1> QED BY <1>1, <1>3, <1>4, <1>5, <1>6 DEF ApartInv, BooksOK

\* A request that ends, alone and with the books in order.
LEMMA EndApart ==
    ASSUME DInv, ApartInv, NEW s \in Sessions, Active(s), End(s), ~overlapped => BooksOK'
    PROVE  ApartInv'
<1>1. overlapped' = overlapped
  BY DEF End
<1>2. ~overlapped => Alone'
  BY EndAlone DEF ApartInv
<1> QED BY <1>1, <1>2 DEF ApartInv

\* A request that is rolled back or that extends a plan.
LEMMA QuietApart ==
    ASSUME DInv, DInv', ApartInv, NEW s \in Sessions, Rollback(s) \/ CommitExtend(s)
    PROVE  ApartInv'
<1>1. Active(s) /\ End(s) /\ invoice' = invoice /\ sub' = sub /\ books' = books /\ moved' = moved /\ skew' = skew
  BY DEF Rollback, CommitExtend, Active, rows
<1>2. wallet'.balance = wallet.balance /\ wallet'.debt = wallet.debt
  BY Types DEF Rollback, CommitExtend, rows, DInv, WalletRow
<1>3. TypeOK /\ TypeOK'
  BY DEF DInv
<1>4. ~overlapped => BooksOK'
  BY <1>1, <1>2, <1>3, UnmovedBooks DEF ApartInv
<1> QED BY <1>1, <1>4, EndApart

\* The requests that move money.
LEMMA CommitApart ==
    ASSUME DInv, DInv', ApartInv, NEW s \in Sessions,
           \/ \E k \in Subs : CommitActivate(s, k)
           \/ CommitCancel(s) \/ CommitPay(s) \/ CommitEdit(s) \/ CommitVoid(s)
    PROVE  ApartInv'
<1>1. Active(s) /\ End(s)
  BY DEF CommitActivate, CommitCancel, CommitPay, CommitEdit, CommitVoid, Active
<1>2. ~overlapped => BooksOK'
  BY ActivateBooks, CancelBooks, PayBooks, EditBooks, VoidBooks DEF ApartInv
<1> QED BY <1>1, <1>2, EndApart

\* A request that starts.
LEMMA BeginApart ==
    ASSUME DInv, DInv', ApartInv, NEW s \in Sessions, NEW op, NEW request \in SessionRow, Begin(s, op, request),
           op = "cancel" => sub[request.sub].status = "ACTIVE",
           op \in {"edit", "void"} => request.row = invoice[request.order] /\ ~request.row.canceled
    PROVE  ApartInv'
<1>1. ~overlapped' => Alone' /\ ~overlapped
  BY BeginAlone
<1>2. wallet' = wallet /\ invoice' = invoice /\ sub' = sub /\ books' = books /\ moved' = moved /\ skew' = skew
  BY DEF Begin, rows
<1>3. ~overlapped => BooksOK'
  BY <1>2, UnmovedBooks DEF DInv, ApartInv
<1> QED BY <1>1, <1>3 DEF ApartInv

\* The requests that start.
LEMMA BeginsApart ==
    ASSUME DInv, DInv', ApartInv, NEW s \in Sessions,
           \/ \E method \in Methods, close \in BOOLEAN : BeginActivate(s, method, close)
           \/ \E k \in Subs : BeginCancel(s, k)
           \/ BeginExtend(s)
           \/ \E amount, discount \in Payments \cup {0} : BeginPay(s, amount, discount)
           \/ \E i \in Invoices, total \in NewTotals, kind \in {"DEBT", "WALLET", "CASH"} : BeginEdit(s, i, total, kind)
           \/ \E i \in Invoices : BeginVoid(s, i)
    PROVE  ApartInv'
<1>0. TypeOK
  BY DEF DInv
<1>1. ASSUME NEW method \in Methods, NEW close \in BOOLEAN, BeginActivate(s, method, close) PROVE ApartInv'
  <2> DEFINE q == [Idle EXCEPT !.method = method, !.close = close]
  <2>1. q \in SessionRow /\ Begin(s, "activate", q)
    BY <1>1, IdleRow DEF SessionRow, BeginActivate
  <2> HIDE DEF q
  <2> QED BY <2>1, BeginApart
<1>2. ASSUME NEW k \in Subs, BeginCancel(s, k) PROVE ApartInv'
  <2> DEFINE q == [Idle EXCEPT !.sub = k]
  <2>1. q \in SessionRow /\ q.sub = k
    BY IdleRow DEF SessionRow
  <2>2. Begin(s, "cancel", q) /\ sub[k].status = "ACTIVE"
    BY <1>2 DEF BeginCancel
  <2> HIDE DEF q
  <2> QED BY <2>1, <2>2, BeginApart
<1>3. ASSUME BeginExtend(s) PROVE ApartInv'
  <2>1. Idle \in SessionRow /\ Begin(s, "extend", Idle)
    BY <1>3, IdleRow DEF BeginExtend
  <2> QED BY <2>1, BeginApart
<1>4. ASSUME NEW amount \in Payments \cup {0}, NEW discount \in Payments \cup {0}, BeginPay(s, amount, discount) PROVE ApartInv'
  <2> DEFINE q == [Idle EXCEPT !.amount = amount, !.discount = discount]
  <2>0. amount \in Nat /\ discount \in Nat
    BY WalletDeskAssumption
  <2>1. q \in SessionRow
    BY <2>0, IdleRow DEF SessionRow
  <2>2. Begin(s, "pay", q)
    BY <1>4 DEF BeginPay
  <2> HIDE DEF q
  <2> QED BY <2>1, <2>2, BeginApart
<1>5. ASSUME NEW i \in Invoices, NEW total \in NewTotals, NEW kind \in {"DEBT", "WALLET", "CASH"}, BeginEdit(s, i, total, kind)
      PROVE  ApartInv'
  <2> DEFINE q == [Idle EXCEPT !.order = i, !.amount = total, !.kind = kind, !.row = invoice[i]]
  <2>0. total \in Nat /\ invoice[i] \in InvoiceRow /\ kind \in Settled
    BY <1>0, Types, AuditAssumption DEF Settled
  <2>1. q \in SessionRow /\ q.order = i /\ q.row = invoice[i]
    BY <2>0, IdleRow DEF SessionRow
  <2>2. Begin(s, "edit", q) /\ ~invoice[i].canceled
    BY <1>5 DEF BeginEdit
  <2> HIDE DEF q
  <2> QED BY <2>1, <2>2, BeginApart
<1>6. ASSUME NEW i \in Invoices, BeginVoid(s, i) PROVE ApartInv'
  <2> DEFINE q == [Idle EXCEPT !.order = i, !.row = invoice[i]]
  <2>0. invoice[i] \in InvoiceRow
    BY <1>0, Types
  <2>1. q \in SessionRow /\ q.order = i /\ q.row = invoice[i]
    BY <2>0, IdleRow DEF SessionRow
  <2>2. Begin(s, "void", q) /\ ~invoice[i].canceled
    BY <1>6 DEF BeginVoid
  <2> HIDE DEF q
  <2> QED BY <2>1, <2>2, BeginApart
<1> QED BY <1>1, <1>2, <1>3, <1>4, <1>5, <1>6

\* An invoice that is issued while no request runs.
LEMMA IssueApart ==
    ASSUME DInv, DInv', ApartInv, NEW i \in Invoices, NEW kind \in Kinds, Issue(i, kind)
    PROVE  ApartInv'
<1>1. session' = session /\ (~overlapped' => ~overlapped /\ \A s \in Sessions : session[s].op = "idle")
  BY DEF Issue, Active
<1>2. ~overlapped' => Alone'
  BY <1>1 DEF Alone, Active
<1>3. ~overlapped => BooksOK'
  BY IssueBooks DEF ApartInv
<1> QED BY <1>1, <1>2, <1>3 DEF ApartInv

\* A day that passes.
LEMMA DayApart ==
    ASSUME DInv, DInv', ApartInv, Day
    PROVE  ApartInv'
<1>1. /\ \A i \in Invoices :
            /\ invoice'[i].kind = invoice[i].kind /\ invoice'[i].total = invoice[i].total
            /\ invoice'[i].ar = invoice[i].ar /\ invoice'[i].sales = invoice[i].sales
            /\ invoice'[i].canceled = invoice[i].canceled
      /\ books' = books /\ moved' = moved /\ skew' = skew /\ session' = session /\ overlapped' = overlapped
      /\ wallet' = [wallet EXCEPT !.until = Floor(@ - 1)]
      /\ sub' = [k \in Subs |-> [sub[k] EXCEPT !.left = Floor(@ - 1)]]
  BY DayEffect
<1>2. TypeOK /\ TypeOK' /\ SessionsOK
  BY DEF DInv
<1>3. wallet'.balance = wallet.balance /\ wallet'.debt = wallet.debt
  BY <1>1, <1>2, Types DEF WalletRow
<1>4. ASSUME NEW k \in Subs PROVE sub'[k].status = sub[k].status
  BY <1>1, <1>2, Types DEF SubRow
<1>5. ~overlapped => BooksOK'
  BY <1>1, <1>2, <1>3, <1>4, UnmovedBooks DEF ApartInv
<1>6. ASSUME ~overlapped PROVE Alone'
  <2>0. Alone
    BY <1>6 DEF ApartInv
  <2>1. \A r, s \in Sessions : Active(r)' /\ Active(s)' => r = s
    BY <1>1, <2>0 DEF Alone, Active
  <2>2. \A s \in Sessions : Active(s)' => session'[s].seen.balance = wallet'.balance /\ session'[s].seen.debt = wallet'.debt
    BY <1>1, <1>3, <2>0 DEF Alone, Active
  <2>3. \A s \in Sessions : session'[s].op = "cancel" => sub'[session'[s].sub].status = "ACTIVE"
    BY <1>1, <1>2, <1>4, <2>0 DEF Alone, SessionsOK
  <2>4. ASSUME NEW s \in Sessions, session'[s].op \in {"edit", "void"}
        PROVE  LET old == invoice'[session'[s].order]
               IN  session'[s].row.kind = old.kind /\ session'[s].row.total = old.total /\ ~old.canceled
    <3>1. session'[s] = session[s] /\ session[s].order \in Invoices
      BY <1>1, <1>2, <2>4 DEF SessionsOK
    <3>2. /\ session[s].row.kind = invoice[session[s].order].kind
          /\ session[s].row.total = invoice[session[s].order].total
          /\ ~invoice[session[s].order].canceled
      BY <2>0, <2>4, <3>1 DEF Alone
    <3> QED BY <1>1, <3>1, <3>2
  <2> QED BY <2>1, <2>2, <2>3, <2>4 DEF Alone
<1> QED BY <1>1, <1>5, <1>6 DEF ApartInv

\* Every step keeps it.
LEMMA StepApart == DInv /\ DInv' /\ ApartInv /\ [AuditNext]_vars => ApartInv'
<1> SUFFICES ASSUME DInv, DInv', ApartInv, [AuditNext]_vars PROVE ApartInv'
  OBVIOUS
<1>1. CASE AuditNext
  <2>1. CASE \E i \in Invoices, kind \in Kinds : Issue(i, kind)
    BY <2>1, IssueApart
  <2>2. CASE Day
    BY <2>2, DayApart
  <2>3. ASSUME NEW s \in Sessions,
               \/ Rollback(s) \/ (\E k \in Subs : CommitActivate(s, k)) \/ CommitCancel(s)
               \/ CommitExtend(s) \/ CommitPay(s) \/ CommitEdit(s) \/ CommitVoid(s)
        PROVE  ApartInv'
    BY <2>3, QuietApart, CommitApart
  <2> QED BY <1>1, <2>1, <2>2, <2>3, BeginsApart DEF AuditNext, Step, AuditStep
<1>2. CASE UNCHANGED vars
  <2>1. /\ wallet' = wallet /\ invoice' = invoice /\ sub' = sub /\ books' = books /\ moved' = moved /\ skew' = skew
        /\ session' = session /\ overlapped' = overlapped
    BY <1>2 DEF vars, rows
  <2>2. Alone' <=> Alone
    BY <2>1 DEF Alone, Active
  <2>3. TypeOK /\ TypeOK'
    BY DEF DInv
  <2>4. ~overlapped => BooksOK'
    BY <2>1, <2>3, UnmovedBooks DEF ApartInv
  <2> QED BY <2>1, <2>2, <2>4 DEF ApartInv
<1> QED BY <1>1, <1>2

\* Both hold in every state.
LEMMA AuditInvariant == AuditSpec => [](DInv /\ ApartInv)
<1>1. Init => DInv /\ ApartInv
  BY InitDInv, InitApart
<1>2. DInv /\ ApartInv /\ [AuditNext]_vars => DInv' /\ ApartInv'
  BY StepDInv, StepApart
<1> QED BY <1>1, <1>2, PTL DEF AuditSpec

-----------------------------------------------------------------------------
(* What the runs check *)

\* Activations, cancellations and rollovers, in every order, leave one active
\* subscription at most and one unforked chain (activateSubscriptionPlan reads the
\* ACTIVE row behind the wallet's lock); requests that do not overlap refund a
\* subscription once, and never more than its price.
THEOREM SubscriptionsAreSound == AuditSpec => []SubscriptionsSound
<1>1. ASSUME DInv, ApartInv PROVE SubscriptionsSound
  <2>0. TypeOK /\ ChainOK
    BY <1>1 DEF DInv
  <2>1. ActiveSub \subseteq {Parent}
    BY <2>0, ParentIs DEF ActiveSub
  <2>2. Cardinality(ActiveSub) <= 1
    <3>1. IsFiniteSet({Parent}) /\ Cardinality({Parent}) = 1
      BY FS_Singleton
    <3> QED BY <2>1, <3>1, FS_Subset
  <2>3. OneChain
    BY <2>0, <2>2 DEF OneChain, ChainOK
  <2>4. RefundWithinPrice
    BY <1>1 DEF RefundWithinPrice, ApartInv, BooksOK, RefundsOK
  <2> QED BY <2>3, <2>4 DEF SubscriptionsSound
<1>2. DInv /\ ApartInv => SubscriptionsSound
  BY <1>1
<1> QED BY <1>2, AuditInvariant, PTL

\* Requests that do not overlap keep the books where the reconciliation engine
\* looks for them: account 2100 is the wallet's balance, account 1300 its debt,
\* cash and banks hold the money that changed hands; each as long as none of the
\* steps has run that the code posts differently (the marks in `skew`).
THEOREM BooksAlwaysAgree == AuditSpec => []BooksAgree
<1>1. ASSUME ApartInv PROVE BooksAgree
  <2>1. LiabilityMatchesWalletApart
    BY <1>1 DEF LiabilityMatchesWalletApart, LiabilityMatchesWallet, ApartInv, BooksOK, LiabilityOK
  <2>2. DebtMatchesReceivable
    BY <1>1 DEF DebtMatchesReceivable, ApartInv, BooksOK, DebtOK, NoLink
  <2>3. CashIsReceived
    BY <1>1 DEF CashIsReceived, ApartInv, BooksOK, CashOK
  <2> QED BY <2>1, <2>2, <2>3 DEF BooksAgree
<1>2. ApartInv => BooksAgree
  BY <1>1
<1> QED BY <1>2, AuditInvariant, PTL

\* Edits and voids of invoices, one request at a time: the sales ledger carries
\* each invoice at its present total, the wallet is what the activations put in
\* less what the invoices draw, and a voided invoice has nothing left on account
\* 1300 (each unless a mark in `skew` says which step of the code departs from it).
THEOREM InvoicesAreExplained == AuditSpec => []InvoicesExplained
<1>1. ASSUME DInv, ApartInv PROVE InvoicesExplained
  <2>1. SalesFollowInvoices
    BY <1>1 DEF SalesFollowInvoices, ApartInv, BooksOK, SalesOK
  <2>2. WalletFollowsInvoices
    <3> SUFFICES ASSUME ~overlapped, skew \cap {"drawnShort", "debtSettled"} = {},
                        \A k \in Subs : sub[k].status # "CANCELLED", NoLink
                 PROVE  wallet.balance = Credit * Cardinality(Activated) - Drawings
      BY DEF WalletFollowsInvoices, NoLink, Activated, Drawings
    <3> QED BY <1>1 DEF ApartInv, BooksOK, HoldingsOK
  <2>3. VoidClearsReceivableApart
    <3> SUFFICES ASSUME ~overlapped, skew \cap {"reversedTwice", "refReused"} = {},
                        NEW i \in Invoices, invoice[i].canceled
                 PROVE  invoice[i].ar = 0
      BY DEF VoidClearsReceivableApart, VoidClearsReceivable
    <3>1. invoice[i].kind # "LINK"
      BY <1>1 DEF DInv, InvoicesOK, InvoiceOK
    <3>2. invoice[i].ar = OnAccount(invoice[i])
      BY <1>1, <3>1 DEF ApartInv, BooksOK, ReceivableOK
    <3> QED BY <3>2 DEF OnAccount
  <2> QED BY <2>1, <2>2, <2>3 DEF InvoicesExplained
<1>2. DInv /\ ApartInv => InvoicesExplained
  BY <1>1
<1> QED BY <1>2, AuditInvariant, PTL

-----------------------------------------------------------------------------
(* A payment settles what it says *)

\* The invoices after a payment: account 1300 has lost what was spread of the
\* amount, and nothing when there is only a discount.
LEMMA PaidReceivable ==
    ASSUME DInv, DInv', NEW s \in Sessions, CommitPay(s), NEW total, total = session[s].amount + session[s].discount
    PROVE  NetReceivable' = NetReceivable + (Loose' - Loose)
                            - (IF session[s].amount > 0 THEN SpreadTotal(total) ELSE 0)
<1> DEFINE f == [j \in Invoices |-> invoice[j].ar]
           g == [j \in Invoices |-> invoice'[j].ar]
           h == [j \in Invoices |-> Allotted(j, total)]
           amount == session[s].amount
<1>0. TypeOK /\ TypeOK' /\ session[s] \in SessionRow
  BY DEF DInv, SessionsOK
<1>1. amount \in Nat /\ session[s].discount \in Nat /\ total \in Nat
  BY <1>0 DEF SessionRow
<1>2. NetReceivable = SumFunctionOnSet(f, Invoices) + Loose /\ NetReceivable' = SumFunctionOnSet(g, Invoices) + Loose'
      /\ SpreadTotal(total) = SumFunctionOnSet(h, Invoices)
  BY DEF NetReceivable, SpreadTotal
<1>3. Loose \in Int /\ Loose' \in Int
  BY <1>0, Types DEF Loose, TypeOK
<1>4. ASSUME NEW i \in Invoices
      PROVE  /\ f[i] \in Int /\ g[i] \in Int /\ h[i] \in Int
             /\ amount > 0 => g[i] = f[i] - h[i]
             /\ ~(amount > 0) => g[i] = f[i]
  <2> DEFINE row == invoice[i]
             new == Spread(total)[i]
             x == IF amount > 0 THEN new.ar ELSE row.ar
  <2>1. row \in InvoiceRow
    BY <1>0, Types
  <2>2. new \in InvoiceRow /\ new.ar = row.ar - h[i]
    BY <1>0, <1>1, SpreadRow
  <2>3. invoice'[i] = [new EXCEPT !.ar = x]
    BY DEF CommitPay
  <2>4. h[i] \in Int
    BY <1>0, <1>1, AllottedWithin
  <2> HIDE DEF row, new, h, amount, x
  <2>5. invoice'[i].ar = x
    BY <2>2, <2>3 DEF InvoiceRow
  <2>6. row.ar \in Int
    BY <2>1 DEF InvoiceRow
  <2> QED BY <2>2, <2>4, <2>5, <2>6 DEF row, x
<1> HIDE DEF f, g, h, amount
<1>5. SumFunctionOnSet(f, Invoices) \in Int /\ SumFunctionOnSet(h, Invoices) \in Int
  BY <1>4, RowsFinite, SumInt
<1>6. CASE amount > 0
  <2>1. SumFunctionOnSet(g, Invoices) = SumFunctionOnSet(f, Invoices) - SumFunctionOnSet(h, Invoices)
    BY <1>4, <1>6, RowsFinite, SumMinus
  <2> QED BY <1>2, <1>3, <1>5, <1>6, <2>1 DEF amount
<1>7. CASE ~(amount > 0)
  <2>1. SumFunctionOnSet(g, Invoices) = SumFunctionOnSet(f, Invoices)
    BY <1>4, <1>7, RowsFinite, SumEqual
  <2> QED BY <1>2, <1>3, <1>5, <1>7, <2>1 DEF amount
<1> QED BY <1>6, <1>7

\* What a payment settles when no discount reaches an invoice.
LEMMA PaymentSettles ==
    ASSUME DInv, DInv', NEW s \in Sessions, CommitPay(s), session[s].discount = 0 \/ Unpaid = {}
    PROVE  NetReceivable' = NetReceivable - session[s].amount - session[s].discount
<1> DEFINE r == session[s]
           total == r.amount + r.discount
           spread == SpreadTotal(total)
           rest == Floor(r.amount - spread)
<1>0. TypeOK /\ TypeOK' /\ r \in SessionRow
  BY DEF DInv, SessionsOK
<1>1. r.amount \in Nat /\ r.discount \in Nat /\ total \in Nat
  BY <1>0 DEF SessionRow
<1>2. spread \in 0 .. total /\ (Unpaid = {} => spread = 0)
  BY <1>0, <1>1, SpreadWithin, NothingSpread
<1>3. NetReceivable' = NetReceivable + (Loose' - Loose) - (IF r.amount > 0 THEN spread ELSE 0)
  BY PaidReceivable
<1>4. books'.debits = books.debits /\ books'.credits = books.credits + rest + r.discount
      /\ books.debits \in Nat /\ books.credits \in Nat
  <2> DEFINE x == books.cash + (IF r.amount > 0 THEN spread ELSE 0) + rest
             y == books.credits + rest + r.discount
  <2>1. books' = [books EXCEPT !.cash = x, !.credits = y]
    BY DEF CommitPay
  <2>2. books \in BookRow
    BY <1>0, Types
  <2> HIDE DEF x, y
  <2>3. books'.debits = books.debits /\ books'.credits = y /\ books.debits \in Nat /\ books.credits \in Nat
    BY <2>1, <2>2 DEF BookRow
  <2> QED BY <2>3 DEF y
<1>5. NetReceivable \in Int
  BY <1>0, NetInt
<1> HIDE DEF r, spread
<1>6. spread <= r.amount /\ rest = r.amount - spread /\ rest \in Nat /\ (r.amount = 0 => spread = 0)
  BY <1>1, <1>2 DEF Floor, r
<1> HIDE DEF rest
<1>7. Loose' - Loose = -(rest + r.discount)
  BY <1>1, <1>4, <1>6 DEF Loose
<1>8. NetReceivable' = NetReceivable - r.amount - r.discount
  BY <1>1, <1>2, <1>3, <1>5, <1>6, <1>7
<1> QED BY <1>8 DEF r

\* Only a payment ends a payment's session and moves rows at the same time.
LEMMA OnlyPaySettles ==
    ASSUME DInv, [AuditNext]_vars, NEW s \in Sessions, session[s].op = "pay", rows' # rows, session'[s].op = "idle"
    PROVE  CommitPay(s)
<1>0. session \in [Sessions -> SessionRow]
  BY DEF DInv, SessionsOK
<1>1. session'[s] # session[s]
  OBVIOUS
<1>2. AuditNext /\ session' # session
  BY <1>1 DEF vars
<1>3. \E q \in Sessions : /\ session'[q] # session[q]
                          /\ \A p \in Sessions \ {q} : session'[p] = session[p]
                          /\ \/ Rollback(q) \/ (\E k \in Subs : CommitActivate(q, k)) \/ CommitCancel(q)
                             \/ CommitExtend(q) \/ CommitPay(q) \/ CommitEdit(q) \/ CommitVoid(q)
  <2>1. ASSUME NEW q \in Sessions, NEW op, NEW request, Begin(q, op, request) PROVE FALSE
    BY <2>1 DEF Begin
  <2>2. ~ \E q \in Sessions :
            \/ \E method \in Methods, close \in BOOLEAN : BeginActivate(q, method, close)
            \/ \E k \in Subs : BeginCancel(q, k)
            \/ BeginExtend(q)
            \/ \E amount, discount \in Payments \cup {0} : BeginPay(q, amount, discount)
            \/ \E i \in Invoices, total \in NewTotals, kind \in {"DEBT", "WALLET", "CASH"} : BeginEdit(q, i, total, kind)
            \/ \E i \in Invoices : BeginVoid(q, i)
    BY <2>1 DEF BeginActivate, BeginCancel, BeginExtend, BeginPay, BeginEdit, BeginVoid
  <2>3. ~ (\E i \in Invoices, kind \in Kinds : Issue(i, kind)) /\ ~Day
    BY <1>2 DEF Issue, Day
  <2>4. PICK q \in Sessions : \/ Rollback(q) \/ (\E k \in Subs : CommitActivate(q, k)) \/ CommitCancel(q)
                              \/ CommitExtend(q) \/ CommitPay(q) \/ CommitEdit(q) \/ CommitVoid(q)
    BY <1>2, <2>2, <2>3 DEF AuditNext, Step, AuditStep
  <2>5. End(q)
    BY <2>4 DEF Rollback, CommitActivate, CommitCancel, CommitExtend, CommitPay, CommitEdit, CommitVoid
  <2>6. session' = [session EXCEPT ![q] = Idle]
    BY <2>5 DEF End
  <2>7. q = s
    BY <1>0, <1>1, <2>6
  <2> QED BY <1>0, <1>1, <2>4, <2>6, <2>7
<1>4. PICK q \in Sessions : /\ \A p \in Sessions \ {q} : session'[p] = session[p]
                            /\ \/ Rollback(q) \/ (\E k \in Subs : CommitActivate(q, k)) \/ CommitCancel(q)
                               \/ CommitExtend(q) \/ CommitPay(q) \/ CommitEdit(q) \/ CommitVoid(q)
  BY <1>3
<1>5. q = s
  BY <1>1, <1>4
<1> QED BY <1>4, <1>5 DEF Rollback, CommitActivate, CommitCancel, CommitExtend, CommitEdit, CommitVoid

\* A payment (recordPartialDebtPayment) settles exactly what it says, in every
\* order of requests: account 1300 falls by its amount and discount, unless a
\* discount is spread over invoices.
THEOREM PaymentSettlesIt == AuditSpec => PaymentSettlesItsTotal
<1> DEFINE Settles == \A s \in Sessions :
             session[s].op = "pay" /\ rows' # rows /\ session'[s].op = "idle"
             /\ (session[s].discount = 0 \/ Unpaid = {})
             => NetReceivable' = NetReceivable - session[s].amount - session[s].discount
<1>1. DInv /\ DInv' /\ [AuditNext]_vars => [Settles]_vars
  <2> SUFFICES ASSUME DInv, DInv', [AuditNext]_vars PROVE Settles
    OBVIOUS
  <2> QED BY OnlyPaySettles, PaymentSettles
<1>2. AuditSpec => []DInv
  BY AuditInvariant, PTL
<1>3. AuditSpec => [][Settles]_vars
  BY <1>1, <1>2, PTL DEF AuditSpec
<1> QED BY <1>3 DEF PaymentSettlesItsTotal
=============================================================================
