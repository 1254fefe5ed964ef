------------------------------ MODULE Payroll ------------------------------
(***************************************************************************)
(* The payroll of one employee and the three ledgers it draws on:          *)
(*   payroll/payroll.service.ts       create, recalcLoanDeduction, markPaid*)
(*   loans/loans.service.ts           loans and their monthly instalments  *)
(*   commissions/commission-payouts.service.ts   commission ready to pay   *)
(*   debt-holds/debt-holds.service.ts salary held back against the open    *)
(*                                    debt of the employee's customers     *)
(* Employees share no row, so one is enough.  Rows are read without locks; *)
(* an UPDATE locks its row until its transaction ends.  A handler is cut   *)
(* after its reads, and payroll create also after it has updated the loans *)
(* (whose locks it keeps).  Amounts are in minor units (0.0001 KWD).       *)
(* Basic salary, allowances and the typed-in deduction never meet another  *)
(* row and are left out.                                                   *)
(***************************************************************************)
EXTENDS Integers, FiniteSets, Functions

CONSTANTS
    Loans,         \* loan requests
    Amount,        \* the amount of each loan
    Monthly,       \* amount / installmentCount, rounded to a minor unit
    PayDowns,      \* amounts the owner deducts by hand
    Payouts,       \* commission payouts
    Commission,    \* the amount of each
    Months,        \* the months payrolls are cut for
    MaxSlips,      \* payroll rows ever created (bound)
    MaxHolds,      \* holds ever created (bound)
    HoldAmounts,   \* amounts of manual holds
    HoldRank,      \* the order of the holds' ids (uuids: not the order of creation)
    Debts,         \* what the employee's customers may owe
    Ceiling,       \* fixedAmount of the hold policy; NoCeiling: the whole debt
    NoCeiling,
    Sessions,
    Workloads      \* sets of operations that are exercised together

Slips == 1 .. MaxSlips
Holds == 1 .. MaxHolds
NoMonth == 0
AllOperations == {"payroll", "recalc", "deduct", "loan", "hold", "release", "disburse",
                  "markPaid", "payout", "debt"}

ASSUME PayrollAssumption ==
    /\ IsFiniteSet(Loans) /\ IsFiniteSet(Payouts)
    /\ Amount \in [Loans -> Nat \ {0}] /\ Monthly \in [Loans -> Nat]
    /\ PayDowns \subseteq Nat \ {0}
    /\ Commission \in [Payouts -> Nat]
    /\ Months \subseteq Nat \ {0}
    /\ MaxSlips \in Nat /\ MaxHolds \in Nat
    /\ HoldAmounts \subseteq Nat \ {0}
    /\ HoldRank \in [Holds -> Nat]
    /\ \A h, k \in Holds : HoldRank[h] = HoldRank[k] => h = k    \* ids are unique
    /\ Debts \subseteq Nat /\ 0 \in Debts
    /\ NoCeiling \notin Nat /\ Ceiling \in Nat \cup {NoCeiling}
    /\ Workloads \subseteq SUBSET AllOperations

VARIABLES
    loan,      \* EmployeeLoan rows; trail is what `reason` says was deducted by hand
    payout,    \* CommissionPayout rows: NONE until released (module Commissions)
    debt,      \* open debt on the employee's orders (account 1300)
    slip,      \* Payroll rows
    hold,      \* DebtHold rows
    session,   \* what each request has read
    overlapped, \* history: two requests have run at the same time
    workload   \* the operations of this behaviour

rows == <<loan, payout, debt, slip, hold>>
vars == <<rows, session, overlapped, workload>>

NoLoan == [status |-> "ABSENT", remaining |-> 0, last |-> NoMonth, trail |-> 0]
NoSlip == [status |-> "ABSENT", month |-> NoMonth, loan |-> 0, commission |-> 0, hold |-> 0]
NoHold == [status |-> "ABSENT", amount |-> 0, released |-> 0, slip |-> 0, disbursed |-> FALSE]
Idle == [op |-> "idle", pc |-> "idle", id |-> 0, month |-> NoMonth, amount |-> 0,
         loans |-> [l \in Loans |-> NoLoan], cut |-> {},
         holds |-> [h \in Holds |-> NoHold], debt |-> 0, slip |-> NoSlip]

Init ==
    /\ loan = [l \in Loans |-> NoLoan]
    /\ payout = [p \in Payouts |-> [status |-> "NONE", slip |-> 0]]
    /\ debt = 0
    /\ slip = [i \in Slips |-> NoSlip]
    /\ hold = [h \in Holds |-> NoHold]
    /\ session = [s \in Sessions |-> Idle]
    /\ overlapped = FALSE
    /\ workload \in Workloads

-----------------------------------------------------------------------------
(* Requests *)

Active(s) == session[s].op # "idle"
At(s, op, pc) == session[s].op = op /\ session[s].pc = pc

Begin(s, op, request) ==
    /\ op \in workload
    /\ ~Active(s)
    /\ session' = [session EXCEPT ![s] = [request EXCEPT !.op = op, !.pc = "read"]]
    /\ overlapped' = (overlapped \/ \E r \in Sessions : Active(r))
    /\ UNCHANGED rows

End(s) ==
    /\ session' = [session EXCEPT ![s] = Idle]
    /\ UNCHANGED overlapped

\* An exception, a timeout or a crash: the transaction leaves nothing.
Rollback(s) ==
    /\ Active(s)
    /\ End(s)
    /\ UNCHANGED rows

IsNext(x, X, present) == ~present[x] /\ \A y \in X : y < x => present[y]
NextSlip(i) == IsNext(i, Slips, [j \in Slips |-> slip[j].status # "ABSENT"])
NextHold(h) == IsNext(h, Holds, [k \in Holds |-> hold[k].status # "ABSENT"])

-----------------------------------------------------------------------------
(* Loans *)

RequestLoan(l) ==
    /\ "loan" \in workload
    /\ loan[l].status = "ABSENT"
    /\ loan' = [loan EXCEPT ![l] = [NoLoan EXCEPT !.status = "PENDING", !.remaining = Amount[l]]]
    /\ UNCHANGED <<payout, debt, slip, hold, session, overlapped>>

\* approve and reject look at the status, then update by id.
BeginDecide(s, l, verdict) ==
    /\ loan[l].status = "PENDING"
    /\ Begin(s, "loan", [Idle EXCEPT !.loans = [k \in Loans |->
                  IF k = l THEN [loan[l] EXCEPT !.status = verdict] ELSE NoLoan]])

CommitDecide(s) ==
    /\ At(s, "loan", "read")
    /\ loan' = [l \in Loans |-> IF session[s].loans[l] = NoLoan THEN loan[l]
                                ELSE [loan[l] EXCEPT !.status = session[s].loans[l].status]]
    /\ End(s)
    /\ UNCHANGED <<payout, debt, slip, hold>>

\* The row after `amount`, at most what remains, was deducted from it.
PaidDown(row, amount) ==
    LET left == IF amount < row.remaining THEN row.remaining - amount ELSE 0
    IN  [row EXCEPT !.remaining = left,
                    !.status = IF left <= 0 THEN "SETTLED" ELSE row.status]

Deducted(row, amount) == row.remaining - PaidDown(row, amount).remaining

BeginDeduct(s, l, amount) ==
    /\ loan[l].status = "ACTIVE" /\ loan[l].remaining > 0
    /\ Begin(s, "deduct", [Idle EXCEPT !.amount = amount, !.loans = [k \in Loans |->
                  IF k = l THEN loan[l] ELSE NoLoan]])

\* Loan rows an open payroll transaction has updated.
LoanFree(s, l) ==
    \A r \in Sessions \ {s} : session[r].pc = "locked" => session[r].loans[l] = NoLoan

\* Absolute values, from the row as it was read; month and payroll keep theirs.
CommitDeduct(s) ==
    LET mine == {l \in Loans : session[s].loans[l] # NoLoan}
        seen(l) == session[s].loans[l]
    IN  /\ At(s, "deduct", "read")
        /\ \A l \in mine : LoanFree(s, l)
        /\ loan' = [l \in Loans |-> IF l \notin mine THEN loan[l] ELSE
                [PaidDown(seen(l), session[s].amount) EXCEPT
                    !.last = loan[l].last,
                    !.trail = seen(l).trail + Deducted(seen(l), session[s].amount)]]
        /\ End(s)
        /\ UNCHANGED <<payout, debt, slip, hold>>

-----------------------------------------------------------------------------
(* Instalments *)

\* Mutant: the month of the last instalment is not compared.
Due_Always(row, month) == row.status = "ACTIVE" /\ row.remaining > 0

\* ACTIVE, not repaid, and this month has not taken its instalment yet.
Due(row, month) ==
    row.status = "ACTIVE" /\ row.remaining > 0 /\ row.last # month

\* recalcUnbookedInstalmentsFor: only loans no payroll has touched.
Unbooked(row, month) ==
    row.status = "ACTIVE" /\ row.remaining > 0 /\ row.last = NoMonth

\* The loans of `open` that give an instalment, as they were read.
Instalments(open) ==
    [l \in Loans |-> IF l \in open /\ Monthly[l] > 0 THEN loan[l] ELSE NoLoan]

Booked(row, l, month) == [PaidDown(row, Monthly[l]) EXCEPT !.last = month]

\* Mutant: the payslip shows whole instalments, also the last one.
Total_Whole(s) ==
    SumFunctionOnSet([l \in Loans |-> IF session[s].loans[l] = NoLoan THEN 0 ELSE Monthly[l]], Loans)

\* What the instalments of a session add up to.
Total(s) ==
    SumFunctionOnSet([l \in Loans |-> IF session[s].loans[l] = NoLoan THEN 0
                                      ELSE Deducted(session[s].loans[l], Monthly[l])], Loans)

\* UPDATE of remaining, status and last; the trail is another column.
WriteInstalments(s, month) ==
    loan' = [l \in Loans |-> IF session[s].loans[l] = NoLoan THEN loan[l] ELSE
                [Booked(session[s].loans[l], l, month) EXCEPT !.trail = loan[l].trail]]

-----------------------------------------------------------------------------
(* Holds *)

Remaining(h) == h.amount - h.released
Held(holds) == {h \in Holds : holds[h].status = "HELD"}

\* What is left of the debt when the loop reaches hold h.
LeftToCover(holds, d, h) ==
    LET before == SumFunctionOnSet([k \in Holds |-> Remaining(holds[k])],
                                   {k \in Held(holds) : HoldRank[k] < HoldRank[h]})
    IN  IF d > before THEN d - before ELSE 0

\* Mutant: a partly covered hold is released as a whole.
Settled_Whole(holds, d, h) ==
    IF holds[h].status # "HELD" \/ LeftToCover(holds, d, h) >= Remaining(holds[h])
    THEN holds[h]
    ELSE [holds[h] EXCEPT !.released = holds[h].amount, !.status = "RELEASED"]

\* releaseSettledHolds: the row of h after the loop.
Settled(holds, d, h) ==
    LET left == LeftToCover(holds, d, h)
    IN  IF holds[h].status # "HELD" \/ left >= Remaining(holds[h]) THEN holds[h]
        ELSE [holds[h] EXCEPT !.released = holds[h].amount - left,
                              !.status = IF left = 0 THEN "RELEASED" ELSE "HELD"]

\* buildHoldSnapshotForPayroll: 0 is no hold.
AutoHold(d) ==
    IF Ceiling # NoCeiling /\ Ceiling < d THEN Ceiling ELSE d

\* createManualHold without a payroll.
CreateHold(h, amount) ==
    /\ "hold" \in workload
    /\ NextHold(h)
    /\ hold' = [hold EXCEPT ![h] = [NoHold EXCEPT !.status = "HELD", !.amount = amount]]
    /\ UNCHANGED <<loan, payout, debt, slip, session, overlapped>>

\* createManualHold on a payroll: read its debtHoldAmount, write the sum.
BeginHold(s, i, amount) ==
    /\ slip[i].status # "ABSENT"
    /\ Begin(s, "hold", [Idle EXCEPT !.id = i, !.amount = amount, !.slip = slip[i]])

CommitHold(s, h) ==
    LET i == session[s].id
    IN  /\ At(s, "hold", "read")
        /\ NextHold(h)
        /\ hold' = [hold EXCEPT ![h] = [NoHold EXCEPT !.status = "HELD",
                                           !.amount = session[s].amount, !.slip = i]]
        /\ slip' = [slip EXCEPT ![i].hold = session[s].slip.hold + session[s].amount]
        /\ End(s)
        /\ UNCHANGED <<loan, payout, debt>>

BeginRelease(s, h) ==
    /\ hold[h].status = "HELD"
    /\ Begin(s, "release", [Idle EXCEPT !.id = h])

CommitRelease(s) ==
    /\ At(s, "release", "read")
    /\ hold' = [hold EXCEPT ![session[s].id].status = "RELEASED",
                            ![session[s].id].released = hold[session[s].id].amount]
    /\ End(s)
    /\ UNCHANGED <<loan, payout, debt, slip>>

BeginDisburse(s, h) ==
    /\ hold[h].status = "RELEASED" /\ ~hold[h].disbursed
    /\ Begin(s, "disburse", [Idle EXCEPT !.id = h])

CommitDisburse(s) ==
    /\ At(s, "disburse", "read")
    /\ hold' = [hold EXCEPT ![session[s].id].disbursed = TRUE]
    /\ End(s)
    /\ UNCHANGED <<loan, payout, debt, slip>>

-----------------------------------------------------------------------------
(* Payroll *)

ReleasedPayouts == {p \in Payouts : payout[p].status = "RELEASED"}

BeginPayroll(s, month) ==
    Begin(s, "payroll", [Idle EXCEPT !.month = month,
                            !.loans = Instalments({l \in Loans : Due(loan[l], month)})])

\* The loans are updated (and stay locked); then commission, holds and debt are
\* read.  Which released payouts lie before the payment date is an input.
LockLoans(s, cut) ==
    /\ At(s, "payroll", "read")
    /\ \A l \in Loans : session[s].loans[l] # NoLoan => LoanFree(s, l)
    /\ cut \subseteq ReleasedPayouts
    /\ session' = [session EXCEPT ![s] = [@ EXCEPT !.pc = "locked", !.cut = cut,
                                            !.holds = hold, !.debt = debt]]
    /\ UNCHANGED <<rows, overlapped>>

\* HELD holds on no payslip, after the release of the settled ones.
Untied(s) ==
    {h \in Holds : session[s].holds[h].slip = 0
                   /\ Settled(session[s].holds, session[s].debt, h).status = "HELD"}

\* Mutant: the payouts stay RELEASED.
PaidOn_Unmarked(s, i) == payout

\* markPaidForPayroll: the payouts that are still RELEASED.
PaidOn(s, i) ==
    [p \in Payouts |-> IF p \in session[s].cut /\ payout[p].status = "RELEASED"
                       THEN [status |-> "PAID", slip |-> i] ELSE payout[p]]

\* The hold rows after create: settled ones released, the fresh one inserted, the
\* untied ones on this payslip.
HoldsOf(s, i, new) ==
    LET auto == AutoHold(session[s].debt)
        settled(h) == Settled(session[s].holds, session[s].debt, h)
        written(h) == IF settled(h) = session[s].holds[h] THEN hold[h]
                      ELSE [hold[h] EXCEPT !.released = settled(h).released,
                                           !.status = settled(h).status]
    IN  [h \in Holds |->
           IF h = new THEN [NoHold EXCEPT !.status = "HELD", !.amount = auto, !.slip = i]
           ELSE IF h \in Untied(s) THEN [written(h) EXCEPT !.slip = i]
           ELSE written(h)]

\* The payslip row; `new` is the id of the fresh hold, 0 when there is none.
CommitPayroll(s, i, new) ==
    /\ At(s, "payroll", "locked")
    /\ NextSlip(i)
    /\ IF AutoHold(session[s].debt) = 0 THEN new = 0 ELSE new # 0 /\ NextHold(new)
    /\ slip' = [slip EXCEPT ![i] =
            [status |-> "PENDING", month |-> session[s].month, loan |-> Total(s),
             commission |-> SumFunctionOnSet(Commission, session[s].cut),
             hold |-> AutoHold(session[s].debt)
                      + SumFunctionOnSet([h \in Holds |-> session[s].holds[h].amount], Untied(s))]]
    /\ WriteInstalments(s, session[s].month)
    /\ payout' = PaidOn(s, i)
    /\ hold' = HoldsOf(s, i, new)
    /\ End(s)
    /\ UNCHANGED debt

\* recalcLoanDeduction: PENDING payslips only; nothing to book leaves it alone.
BeginRecalc(s, i) ==
    /\ slip[i].status = "PENDING"
    /\ \E l \in Loans : Unbooked(loan[l], slip[i].month) /\ Monthly[l] > 0
    /\ Begin(s, "recalc", [Idle EXCEPT !.id = i, !.slip = slip[i],
                              !.loans = Instalments({l \in Loans : Unbooked(loan[l], slip[i].month)})])

CommitRecalc(s) ==
    /\ At(s, "recalc", "read")
    /\ \A l \in Loans : session[s].loans[l] # NoLoan => LoanFree(s, l)
    /\ WriteInstalments(s, session[s].slip.month)
    /\ slip' = [slip EXCEPT ![session[s].id].loan = session[s].slip.loan + Total(s)]
    /\ End(s)
    /\ UNCHANGED <<payout, debt, hold>>

MarkPaid(i) ==
    /\ "markPaid" \in workload
    /\ slip[i].status = "PENDING"
    /\ slip' = [slip EXCEPT ![i].status = "PAID"]
    /\ UNCHANGED <<loan, payout, debt, hold, session, overlapped>>

\* The world outside: commission is released, customers owe and pay.
PayoutReleased(p) ==
    /\ "payout" \in workload
    /\ payout[p].status = "NONE"
    /\ payout' = [payout EXCEPT ![p].status = "RELEASED"]
    /\ UNCHANGED <<loan, debt, slip, hold, session, overlapped>>

DebtChanges(d) ==
    /\ "debt" \in workload
    /\ debt' = d
    /\ UNCHANGED <<loan, payout, slip, hold, session, overlapped>>

Step ==
    \/ \E s \in Sessions :
        \/ Rollback(s)
        \/ \E l \in Loans : \/ \E verdict \in {"ACTIVE", "REJECTED"} : BeginDecide(s, l, verdict)
                            \/ \E amount \in PayDowns : BeginDeduct(s, l, amount)
        \/ CommitDecide(s) \/ CommitDeduct(s)
        \/ \E month \in Months : BeginPayroll(s, month)
        \/ \E cut \in SUBSET Payouts : LockLoans(s, cut)
        \/ \E i \in Slips : \/ \E new \in Holds \cup {0} : CommitPayroll(s, i, new)
                            \/ BeginRecalc(s, i)
                            \/ \E amount \in HoldAmounts : BeginHold(s, i, amount)
        \/ CommitRecalc(s)
        \/ \E h \in Holds : CommitHold(s, h) \/ BeginRelease(s, h) \/ BeginDisburse(s, h)
        \/ CommitRelease(s) \/ CommitDisburse(s)
    \/ \E l \in Loans : RequestLoan(l)
    \/ \E h \in Holds, amount \in HoldAmounts : CreateHold(h, amount)
    \/ \E i \in Slips : MarkPaid(i)
    \/ \E p \in Payouts : PayoutReleased(p)
    \/ \E d \in Debts : DebtChanges(d)

Next == Step /\ UNCHANGED workload

Spec == Init /\ [][Next]_vars

-----------------------------------------------------------------------------
(* Properties *)

LoanRow == [status : {"ABSENT", "PENDING", "ACTIVE", "REJECTED", "SETTLED"},
            remaining : Nat, last : Months \cup {NoMonth}, trail : Nat]
SlipRow == [status : {"ABSENT", "PENDING", "PAID"}, month : Months \cup {NoMonth},
            loan : Nat, commission : Nat, hold : Nat]
HoldRow == [status : {"ABSENT", "HELD", "RELEASED"}, amount : Nat, released : Nat,
            slip : Slips \cup {0}, disbursed : BOOLEAN]
PayoutRow == [status : {"NONE", "RELEASED", "PAID"}, slip : Slips \cup {0}]

\* Every row keeps its type and no amount is negative (schema.prisma).
TypeOK ==
    /\ loan \in [Loans -> LoanRow]
    /\ payout \in [Payouts -> PayoutRow]
    /\ debt \in Debts
    /\ slip \in [Slips -> SlipRow]
    /\ hold \in [Holds -> HoldRow]
    /\ overlapped \in BOOLEAN /\ workload \in Workloads

\* What was lent is still owed, was deducted by hand, or is on a payslip: no
\* instalment is taken without being shown and none is shown without being taken.
\* As long as requests do not overlap (remaining is written as an absolute value).
LoanConserved ==
    ~overlapped =>
        SumFunctionOnSet([l \in Loans |-> IF loan[l].status = "ABSENT" THEN 0
                              ELSE Amount[l] - loan[l].remaining - loan[l].trail], Loans)
        = SumFunctionOnSet([i \in Slips |-> slip[i].loan], Slips)

\* Payrolls cut in the order of their months take one instalment per month, also
\* when a month is run again.
InOrder == \A i, j \in Slips : i < j /\ slip[j].status # "ABSENT" => slip[i].month <= slip[j].month
OneInstalmentPerMonth ==
    ~overlapped /\ InOrder =>
        \A m \in Months :
            SumFunctionOnSet([i \in Slips |-> IF slip[i].month = m THEN slip[i].loan ELSE 0], Slips)
            <= SumFunctionOnSet(Monthly, Loans)

PaidWith(i) == {p \in Payouts : payout[p].slip = i}

\* A payslip pays at least the payouts that are marked as paid by it, and, as long
\* as requests do not overlap, no other: none is paid twice.
CommissionOnPayslip ==
    \A i \in Slips :
        LET marked == SumFunctionOnSet(Commission, PaidWith(i))
        IN  slip[i].commission >= marked /\ (~overlapped => slip[i].commission = marked)

\* debtHoldAmount of a payslip is the sum of the holds that point to it.  As long
\* as requests do not overlap.
HoldsOnPayslip ==
    ~overlapped =>
        \A i \in Slips : slip[i].hold
            = SumFunctionOnSet([h \in Holds |-> hold[h].amount], {h \in Holds : hold[h].slip = i})

\* A payslip shows exactly the commission and the holds that are tied to it.
PayslipExact == CommissionOnPayslip /\ HoldsOnPayslip

HeldTotal == SumFunctionOnSet([h \in Holds |-> Remaining(hold[h])], Held(hold))

\* Cutting a payroll frees exactly what is held beyond the open debt, and then
\* holds the policy's share of the debt again: after it at most twice the debt is
\* held.  As long as requests do not overlap.
HoldsFollowDebt ==
    [][\A i \in Slips, s \in Sessions :
          slip[i].status = "ABSENT" /\ slip'[i].status # "ABSENT" /\ ~overlapped'
          /\ At(s, "payroll", "locked") /\ session[s].debt = debt /\ session[s].holds = hold
          => HeldTotal' = AutoHold(debt) + (IF HeldTotal < debt THEN HeldTotal ELSE debt)]_vars
=============================================================================
