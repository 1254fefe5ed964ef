--------------------------- MODULE PayrollProofs ---------------------------
(***************************************************************************)
(* For any number of loans, payouts, holds, payslips and sessions and for  *)
(* all amounts: no amount is negative, a payslip shows at least the        *)
(* commission that is marked as paid by it, and while requests do not      *)
(* overlap it shows exactly the commission, the instalments and the holds  *)
(* that were taken, one instalment of each loan per month, and every unit  *)
(* lent is still owed or was taken.  Cutting a payroll frees exactly what  *)
(* is held beyond the open debt.                                           *)
(*                                                                         *)
(* TInv is what holds however requests overlap: the types, what an absent  *)
(* row looks like, which rows payouts and holds point to, and that the     *)
(* rows a request has read still exist.  Known adds what a request that    *)
(* runs alone may still rely on when it writes.  OneInstalmentPerMonth     *)
(* needs Ahead: what the payslips of the latest month took is covered by   *)
(* the loans whose last instalment is of that month.  HoldsFollowDebt      *)
(* needs ReleasedOK (no hold has given back more than its amount) and what *)
(* the loop over the holds leaves to cover (LoopLeaves).                   *)
(***************************************************************************)
EXTENDS Payroll, SumTheorems

SessionRow ==
    [op : AllOperations \cup {"idle"}, pc : {"idle", "read", "locked"}, id : Nat,
     month : Months \cup {NoMonth}, amount : Nat, loans : [Loans -> LoanRow],
     cut : SUBSET Payouts, holds : [Holds -> HoldRow], debt : Debts, slip : SlipRow]

\* A row that was not inserted yet holds nothing; one that was has a month.
AbsentOK ==
    /\ \A l \in Loans : loan[l].status = "ABSENT" => loan[l] = NoLoan
    /\ \A i \in Slips : slip[i].status = "ABSENT" => slip[i] = NoSlip
    /\ \A i \in Slips : slip[i].status # "ABSENT" => slip[i].month \in Months
    /\ \A h \in Holds : hold[h].status = "ABSENT" => hold[h] = NoHold

\* Payslips are numbered without a gap.
SlipsInARow ==
    \A i, j \in Slips : i < j /\ slip[j].status # "ABSENT" => slip[i].status # "ABSENT"

\* Payouts and holds point to payslips that exist, payouts only when they are paid.
PointersOK ==
    /\ \A p \in Payouts : payout[p].slip # 0 =>
            payout[p].status = "PAID" /\ slip[payout[p].slip].status # "ABSENT"
    /\ \A h \in Holds : hold[h].slip # 0 => slip[hold[h].slip].status # "ABSENT"

\* The rows a session works on were inserted.
RefsOK(s) ==
    /\ \A l \in Loans : session[s].loans[l] # NoLoan =>
            session[s].loans[l].status # "ABSENT" /\ loan[l].status # "ABSENT"
    /\ \A h \in Holds : session[s].holds[h].status # "ABSENT" => hold[h].status # "ABSENT"
    /\ session[s].op = "payroll" => session[s].month \in Months
    /\ session[s].op \in {"hold", "recalc"} =>
            session[s].id \in Slips /\ slip[session[s].id].status # "ABSENT"
    /\ session[s].op \in {"release", "disburse"} =>
            session[s].id \in Holds /\ hold[session[s].id].status # "ABSENT"

TInv ==
    /\ TypeOK
    /\ session \in [Sessions -> SessionRow]
    /\ AbsentOK /\ SlipsInARow /\ PointersOK
    /\ \A s \in Sessions : RefsOK(s)

\* What a session that runs alone has read is still so.
Known(s) ==
    /\ session[s].op \in {"deduct", "payroll", "recalc"} => \A l \in Loans :
            session[s].loans[l] # NoLoan => session[s].loans[l] = loan[l]
    /\ session[s].op = "payroll" => \A l \in Loans :
            session[s].loans[l] # NoLoan => session[s].loans[l].last # session[s].month
    /\ session[s].op = "recalc" => \A l \in Loans :
            session[s].loans[l] # NoLoan => session[s].loans[l].last = NoMonth
    /\ session[s].op \in {"hold", "recalc"} =>
            /\ session[s].slip.month = slip[session[s].id].month
            /\ session[s].slip.loan = slip[session[s].id].loan
            /\ session[s].slip.hold = slip[session[s].id].hold
    /\ session[s].op = "payroll" =>
            /\ session[s].cut \subseteq ReleasedPayouts
            /\ \A h \in Holds : session[s].holds[h].status # "ABSENT" =>
                    /\ session[s].holds[h].slip = hold[h].slip
                    /\ session[s].holds[h].amount = hold[h].amount

Alone == \A s, r \in Sessions : Active(s) /\ Active(r) => s = r

\* What the payslips of a month took, and the instalments of the loans that were
\* last touched in that month, or in any.
TakenIn(m) == [i \in Slips |-> IF slip[i].month = m THEN slip[i].loan ELSE 0]
LastIn(m) == [l \in Loans |-> IF loan[l].last = m THEN Monthly[l] ELSE 0]
Touched == [l \in Loans |-> IF loan[l].last # NoMonth THEN Monthly[l] ELSE 0]

Latest(m) == \A i \in Slips : slip[i].status # "ABSENT" => slip[i].month <= m

Ahead ==
    InOrder => \A m \in Months :
        /\ SumFunctionOnSet(TakenIn(m), Slips) <= SumFunctionOnSet(Touched, Loans)
        /\ Latest(m) => SumFunctionOnSet(TakenIn(m), Slips) <= SumFunctionOnSet(LastIn(m), Loans)

AloneInv == ~overlapped => Alone /\ \A s \in Sessions : Known(s)

-----------------------------------------------------------------------------
(* Rows *)

RowsOK == TypeOK /\ AbsentOK /\ SlipsInARow /\ PointersOK

\* No row is deleted.
RowsGrow ==
    /\ \A l \in Loans : loan[l].status # "ABSENT" => loan'[l].status # "ABSENT"
    /\ \A i \in Slips : slip[i].status # "ABSENT" => slip'[i].status # "ABSENT"
    /\ \A h \in Holds : hold[h].status # "ABSENT" => hold'[h].status # "ABSENT"

\* The empty rows have their types.
LEMMA EmptyRows ==
    /\ NoLoan \in LoanRow /\ NoSlip \in SlipRow /\ NoHold \in HoldRow
    /\ Idle \in SessionRow
<1>1. NoLoan \in LoanRow /\ NoSlip \in SlipRow /\ NoHold \in HoldRow
  BY DEF NoLoan, NoSlip, NoHold, LoanRow, SlipRow, HoldRow
<1>2. [l \in Loans |-> NoLoan] \in [Loans -> LoanRow] /\ [h \in Holds |-> NoHold] \in [Holds -> HoldRow]
  BY <1>1
<1>3. 0 \in Debts
  BY PayrollAssumption
<1> QED BY <1>1, <1>2, <1>3 DEF Idle, SessionRow

\* An idle session works on no row.
LEMMA IdleRefs ==
    ASSUME NEW s \in Sessions, session'[s] = Idle
    PROVE  RefsOK(s)'
<1>1. \A l \in Loans : session'[s].loans[l] = NoLoan
  BY DEF Idle
<1>2. \A h \in Holds : session'[s].holds[h].status = "ABSENT"
  BY DEF Idle, NoHold
<1>3. session'[s].op = "idle"
  BY DEF Idle
<1> QED BY <1>1, <1>2, <1>3 DEF RefsOK

\* Rows that were read go on existing.
LEMMA RefsKept ==
    ASSUME NEW s \in Sessions, RefsOK(s), RowsGrow, session'[s] = session[s]
    PROVE  RefsOK(s)'
BY DEF RefsOK, RowsGrow

\* A request that ends leaves the invariant to its rows.
LEMMA EndStep ==
    ASSUME TInv, NEW s \in Sessions, End(s), RowsOK', RowsGrow
    PROVE  TInv'
<1>1. session' \in [Sessions -> SessionRow]
  BY EmptyRows DEF TInv, End
<1>2. ASSUME NEW r \in Sessions PROVE RefsOK(r)'
  <2>1. CASE r = s
    <3>1. session'[r] = Idle
      BY <2>1 DEF TInv, End
    <3> QED BY <3>1, IdleRefs
  <2>2. CASE r # s
    <3>1. session'[r] = session[r]
      BY <2>2 DEF TInv, End
    <3> QED BY <3>1, RefsKept DEF TInv
  <2> QED BY <2>1, <2>2
<1> QED BY <1>1, <1>2 DEF TInv, RowsOK

\* Steps outside of the requests.
LEMMA OutsideStep ==
    ASSUME TInv, UNCHANGED session, RowsOK', RowsGrow
    PROVE  TInv'
<1>1. \A r \in Sessions : RefsOK(r)'
  BY RefsKept DEF TInv
<1> QED BY <1>1 DEF TInv, RowsOK

\* Unchanged rows.
LEMMA SameRows ==
    ASSUME TInv, UNCHANGED <<rows, workload>>, overlapped' \in BOOLEAN
    PROVE  RowsOK' /\ RowsGrow
BY DEF TInv, RowsOK, RowsGrow, rows, TypeOK, AbsentOK, SlipsInARow, PointersOK

\* A request begins: its rows exist.
LEMMA BeginStep ==
    ASSUME TInv, UNCHANGED workload, NEW s \in Sessions, NEW op, NEW request \in SessionRow,
           op \in AllOperations, Begin(s, op, request), RefsOK(s)'
    PROVE  TInv'
<1>1. session' \in [Sessions -> SessionRow]
  <2>1. [request EXCEPT !.op = op, !.pc = "read"] \in SessionRow
    BY DEF SessionRow
  <2> QED BY <2>1 DEF TInv, Begin
<1>2. RowsOK' /\ RowsGrow
  <2>1. overlapped' \in BOOLEAN
    BY DEF Begin, TInv, TypeOK
  <2> QED BY <2>1, SameRows DEF Begin
<1>3. ASSUME NEW r \in Sessions PROVE RefsOK(r)'
  <2>1. CASE r # s
    <3>1. session'[r] = session[r]
      BY <2>1 DEF TInv, Begin
    <3> QED BY <1>2, <3>1, RefsKept DEF TInv
  <2> QED BY <2>1
<1> QED BY <1>1, <1>2, <1>3 DEF TInv, RowsOK

\* Only loans are written.
LEMMA LoansWritten ==
    ASSUME TInv, UNCHANGED <<payout, debt, slip, hold, overlapped, workload>>,
           loan' \in [Loans -> LoanRow],
           \A l \in Loans : loan'[l].status = "ABSENT" => loan[l].status = "ABSENT" /\ loan'[l] = loan[l]
    PROVE  RowsOK' /\ RowsGrow
BY DEF TInv, RowsOK, RowsGrow, TypeOK, AbsentOK, SlipsInARow, PointersOK

\* Only holds are written, and they stay on their payslip or go to one that exists.
LEMMA HoldsWritten ==
    ASSUME TInv, UNCHANGED <<loan, payout, debt, slip, overlapped, workload>>,
           hold' \in [Holds -> HoldRow],
           \A h \in Holds : /\ hold'[h].status = "ABSENT" => hold[h].status = "ABSENT" /\ hold'[h] = hold[h]
                            /\ hold'[h].slip = hold[h].slip \/ hold'[h].slip = 0
    PROVE  RowsOK' /\ RowsGrow
BY DEF TInv, RowsOK, RowsGrow, TypeOK, AbsentOK, SlipsInARow, PointersOK

\* Columns of payslips that exist are written.
LEMMA SlipsWritten ==
    ASSUME TInv, slip' \in [Slips -> SlipRow],
           \A i \in Slips : /\ slip'[i].status = "ABSENT" <=> slip[i].status = "ABSENT"
                            /\ slip'[i].month = slip[i].month
                            /\ slip[i].status = "ABSENT" => slip'[i] = slip[i]
    PROVE  /\ \A i \in Slips : slip'[i].status = "ABSENT" => slip'[i] = NoSlip
           /\ \A i \in Slips : slip'[i].status # "ABSENT" => slip'[i].month \in Months
           /\ SlipsInARow'
           /\ \A i \in Slips : slip[i].status # "ABSENT" => slip'[i].status # "ABSENT"
BY DEF TInv, AbsentOK, SlipsInARow

-----------------------------------------------------------------------------
(* Loans *)

\* PaidDown takes at most what remains and at most the amount.
LEMMA PaidDownRow ==
    ASSUME NEW row \in LoanRow, NEW amount \in Nat
    PROVE  /\ PaidDown(row, amount) \in LoanRow
           /\ PaidDown(row, amount).last = row.last /\ PaidDown(row, amount).trail = row.trail
           /\ PaidDown(row, amount).status \in {row.status, "SETTLED"}
           /\ Deducted(row, amount) \in Nat /\ Deducted(row, amount) <= amount
           /\ PaidDown(row, amount).remaining = row.remaining - Deducted(row, amount)
           /\ Deducted(row, amount) <= row.remaining
<1> DEFINE left == IF amount < row.remaining THEN row.remaining - amount ELSE 0
           status == IF left <= 0 THEN "SETTLED" ELSE row.status
<1>1. row.remaining \in Nat /\ row.status \in {"ABSENT", "PENDING", "ACTIVE", "REJECTED", "SETTLED"}
  BY DEF LoanRow
<1>2. left \in Nat /\ left <= row.remaining /\ row.remaining - left <= amount
  BY <1>1
<1>3. status \in {row.status, "SETTLED"}
  OBVIOUS
<1>4. PaidDown(row, amount) = [row EXCEPT !.remaining = left, !.status = status]
  BY DEF PaidDown
<1> HIDE DEF left, status
<1>5. /\ PaidDown(row, amount) \in LoanRow
      /\ PaidDown(row, amount).last = row.last /\ PaidDown(row, amount).trail = row.trail
      /\ PaidDown(row, amount).status = status /\ PaidDown(row, amount).remaining = left
  BY <1>1, <1>2, <1>3, <1>4 DEF LoanRow
<1>6. Deducted(row, amount) = row.remaining - left
  BY <1>5 DEF Deducted
<1> QED BY <1>1, <1>2, <1>3, <1>5, <1>6

\* The rows a booking writes, column by column.
LEMMA BookedRow ==
    ASSUME TInv, NEW s \in Sessions, NEW month \in Months \cup {NoMonth}, WriteInstalments(s, month)
    PROVE  /\ loan' \in [Loans -> LoanRow]
           /\ \A l \in Loans : session[s].loans[l] = NoLoan => loan'[l] = loan[l]
           /\ \A l \in Loans : session[s].loans[l] # NoLoan =>
                /\ loan'[l].status # "ABSENT" /\ loan'[l].last = month /\ loan'[l].trail = loan[l].trail
                /\ loan'[l].remaining = session[s].loans[l].remaining
                                        - Deducted(session[s].loans[l], Monthly[l])
           /\ \A l \in Loans : Monthly[l] \in Nat /\ session[s].loans[l] \in LoanRow
<1>1. \A l \in Loans : Monthly[l] \in Nat /\ session[s].loans[l] \in LoanRow /\ loan[l] \in LoanRow
  BY PayrollAssumption DEF TInv, TypeOK, SessionRow
<1>2. ASSUME NEW l \in Loans, session[s].loans[l] # NoLoan
      PROVE  /\ loan'[l] \in LoanRow
             /\ loan'[l].status # "ABSENT" /\ loan'[l].last = month /\ loan'[l].trail = loan[l].trail
             /\ loan'[l].remaining = session[s].loans[l].remaining
                                     - Deducted(session[s].loans[l], Monthly[l])
  <2> DEFINE p == PaidDown(session[s].loans[l], Monthly[l])
  <2>1. p \in LoanRow /\ p.status \in {session[s].loans[l].status, "SETTLED"}
        /\ p.remaining = session[s].loans[l].remaining - Deducted(session[s].loans[l], Monthly[l])
    BY <1>1, PaidDownRow
  <2>2. session[s].loans[l].status # "ABSENT"
    BY <1>2 DEF TInv, RefsOK
  <2>3. loan'[l] = [[p EXCEPT !.last = month] EXCEPT !.trail = loan[l].trail]
    BY <1>2 DEF WriteInstalments, Booked
  <2> HIDE DEF p
  <2>4. loan[l].trail \in Nat
    BY <1>1 DEF LoanRow
  <2> QED BY <2>1, <2>2, <2>3, <2>4 DEF LoanRow
<1>3. \A l \in Loans : session[s].loans[l] = NoLoan => loan'[l] = loan[l]
  BY DEF WriteInstalments
<1>4. loan' \in [Loans -> LoanRow]
  BY <1>1, <1>2, <1>3 DEF WriteInstalments
<1> QED BY <1>1, <1>2, <1>3, <1>4

\* A decision changes the status of a loan that was requested, and nothing else.
LEMMA DecideRow ==
    ASSUME TInv, NEW s \in Sessions, CommitDecide(s)
    PROVE  /\ loan' \in [Loans -> LoanRow]
           /\ \A l \in Loans : /\ loan'[l].status = "ABSENT" <=> loan[l].status = "ABSENT"
                               /\ loan'[l].status = "ABSENT" => loan'[l] = loan[l]
                               /\ loan'[l].remaining = loan[l].remaining
                               /\ loan'[l].last = loan[l].last /\ loan'[l].trail = loan[l].trail
<1>1. \A l \in Loans : session[s].loans[l] \in LoanRow /\ loan[l] \in LoanRow
  BY DEF TInv, TypeOK, SessionRow
<1>2. \A l \in Loans : session[s].loans[l] # NoLoan =>
          session[s].loans[l].status # "ABSENT" /\ loan[l].status # "ABSENT"
  BY DEF TInv, RefsOK
<1>3. \A l \in Loans : loan'[l] = IF session[s].loans[l] = NoLoan THEN loan[l]
                                  ELSE [loan[l] EXCEPT !.status = session[s].loans[l].status]
  BY DEF CommitDecide
<1>4. loan' \in [Loans -> LoanRow]
  BY <1>1, <1>3 DEF CommitDecide, LoanRow
<1> QED BY <1>1, <1>2, <1>3, <1>4 DEF LoanRow

\* A manual deduction moves what it takes from `remaining` to the trail.
LEMMA DeductRow ==
    ASSUME TInv, NEW s \in Sessions, CommitDeduct(s)
    PROVE  /\ loan' \in [Loans -> LoanRow]
           /\ \A l \in Loans : session[s].loans[l] = NoLoan => loan'[l] = loan[l]
           /\ \A l \in Loans : session[s].loans[l] # NoLoan =>
                /\ loan'[l].status # "ABSENT" /\ loan'[l].last = loan[l].last
                /\ loan'[l].remaining + loan'[l].trail
                   = session[s].loans[l].remaining + session[s].loans[l].trail
<1>1. \A l \in Loans : session[s].loans[l] \in LoanRow /\ loan[l] \in LoanRow
  BY DEF TInv, TypeOK, SessionRow
<1>2. session[s].amount \in Nat
  BY DEF TInv, SessionRow
<1>3. ASSUME NEW l \in Loans, session[s].loans[l] # NoLoan
      PROVE  /\ loan'[l] \in LoanRow
             /\ loan'[l].status # "ABSENT" /\ loan'[l].last = loan[l].last
             /\ loan'[l].remaining + loan'[l].trail
                = session[s].loans[l].remaining + session[s].loans[l].trail
  <2> DEFINE row == session[s].loans[l]
             d == Deducted(row, session[s].amount)
             p == PaidDown(row, session[s].amount)
  <2>1. p \in LoanRow /\ p.status \in {row.status, "SETTLED"} /\ d \in Nat /\ p.remaining = row.remaining - d
    BY <1>1, <1>2, PaidDownRow
  <2>2. row.status # "ABSENT" /\ row \in LoanRow
    BY <1>1, <1>3 DEF TInv, RefsOK
  <2>3. loan'[l] = [p EXCEPT !.last = loan[l].last, !.trail = row.trail + d]
    BY <1>3 DEF CommitDeduct
  <2>4. loan[l].last \in Months \cup {NoMonth}
    BY <1>1 DEF LoanRow
  <2> HIDE DEF p, d, row
  <2>5. row.trail + d \in Nat /\ row.remaining \in Nat /\ row.trail \in Nat
    BY <2>1, <2>2 DEF LoanRow
  <2>6. /\ loan'[l] \in LoanRow
        /\ loan'[l].status = p.status /\ loan'[l].last = loan[l].last
        /\ loan'[l].remaining = p.remaining /\ loan'[l].trail = row.trail + d
    BY <2>1, <2>3, <2>4, <2>5 DEF LoanRow
  <2>7. loan'[l].remaining + loan'[l].trail = row.remaining + row.trail /\ loan'[l].status # "ABSENT"
    BY <2>1, <2>2, <2>5, <2>6
  <2> QED BY <2>6, <2>7 DEF row
<1>4. \A l \in Loans : session[s].loans[l] = NoLoan => loan'[l] = loan[l]
  BY DEF CommitDeduct
<1>5. loan' \in [Loans -> LoanRow]
  BY <1>1, <1>3, <1>4 DEF CommitDeduct
<1> QED BY <1>3, <1>4, <1>5

-----------------------------------------------------------------------------
(* Holds and payslips *)

\* A new row takes the first free id.
LEMMA NextFree ==
    /\ \A i \in Slips : NextSlip(i) =>
            slip[i].status = "ABSENT" /\ \A j \in Slips : j < i => slip[j].status # "ABSENT"
    /\ \A h \in Holds : NextHold(h) => hold[h].status = "ABSENT"
BY DEF NextSlip, NextHold, IsNext

\* Ids are natural numbers other than 0, and there are finitely many.
LEMMA Ids ==
    /\ IsFiniteSet(Slips) /\ IsFiniteSet(Holds) /\ Slips \subseteq Nat /\ Holds \subseteq Nat
    /\ 0 \notin Slips /\ 0 \notin Holds
<1>1. MaxSlips \in Nat /\ MaxHolds \in Nat
  BY PayrollAssumption
<1> QED BY <1>1, FS_Interval DEF Slips, Holds

\* The policy's share of a debt is an amount.
LEMMA AutoHoldNat == ASSUME NEW d \in Nat PROVE AutoHold(d) \in Nat
BY PayrollAssumption DEF AutoHold

\* releaseSettledHolds touches HELD rows only, and of them what was released.
LEMMA SettledRow ==
    ASSUME NEW holds \in [Holds -> HoldRow], NEW d \in Nat, NEW h \in Holds
    PROVE  /\ Settled(holds, d, h) \in HoldRow
           /\ Settled(holds, d, h).slip = holds[h].slip
           /\ Settled(holds, d, h).amount = holds[h].amount
           /\ holds[h].status # "HELD" => Settled(holds, d, h) = holds[h]
           /\ holds[h].status = "HELD" => Settled(holds, d, h).status \in {"HELD", "RELEASED"}
<1> DEFINE row == holds[h]
           left == LeftToCover(holds, d, h)
           rest == [k \in Holds |-> Remaining(holds[k])]
           T == {k \in Held(holds) : HoldRank[k] < HoldRank[h]}
<1>1. row \in HoldRow /\ row.amount \in Nat /\ row.released \in Nat /\ Remaining(row) = row.amount - row.released
  BY DEF HoldRow, Remaining
<1>2. SumFunctionOnSet(rest, T) \in Int
  <2>1. IsFiniteSet(T) /\ T \subseteq Holds
    BY Ids, FS_Subset DEF Held
  <2>2. \A k \in T : rest[k] \in Int
    BY <2>1 DEF Remaining, HoldRow
  <2> QED BY <2>1, <2>2, SumInt
<1>3. left \in Nat
  <2> DEFINE before == SumFunctionOnSet(rest, T)
  <2>1. left = IF d > before THEN d - before ELSE 0
    BY DEF LeftToCover
  <2>2. before \in Int
    BY <1>2
  <2> HIDE DEF before, left
  <2> QED BY <2>1, <2>2
<1>4. Settled(holds, d, h) = IF row.status # "HELD" \/ left >= Remaining(row) THEN row
        ELSE [row EXCEPT !.released = row.amount - left,
                         !.status = IF left = 0 THEN "RELEASED" ELSE "HELD"]
  BY DEF Settled
<1> HIDE DEF row, left
<1>5. CASE row.status # "HELD" \/ left >= Remaining(row)
  BY <1>1, <1>4, <1>5 DEF row, HoldRow
<1>6. CASE ~(row.status # "HELD" \/ left >= Remaining(row))
  <2> DEFINE status == IF left = 0 THEN "RELEASED" ELSE "HELD"
             released == row.amount - left
  <2>1. status \in {"HELD", "RELEASED"} /\ released \in Nat
    BY <1>1, <1>3, <1>6
  <2>2. Settled(holds, d, h) = [row EXCEPT !.released = released, !.status = status]
    BY <1>4, <1>6
  <2> HIDE DEF status, released
  <2>3. /\ Settled(holds, d, h) \in HoldRow /\ Settled(holds, d, h).slip = row.slip
        /\ Settled(holds, d, h).amount = row.amount /\ Settled(holds, d, h).status = status
    BY <1>1, <2>1, <2>2 DEF HoldRow
  <2> QED BY <1>6, <2>1, <2>3 DEF row
<1> QED BY <1>5, <1>6

\* A hold that payroll create ties to its payslip was HELD and free when it was read.
LEMMA UntiedRow ==
    ASSUME TInv, NEW s \in Sessions, NEW h \in Untied(s)
    PROVE  h \in Holds /\ session[s].holds[h].slip = 0 /\ session[s].holds[h].status = "HELD"
           /\ hold[h].status # "ABSENT"
<1>1. session[s].holds \in [Holds -> HoldRow] /\ session[s].debt \in Nat
  BY PayrollAssumption DEF TInv, SessionRow
<1>2. h \in Holds /\ session[s].holds[h].slip = 0
      /\ Settled(session[s].holds, session[s].debt, h).status = "HELD"
  BY DEF Untied
<1>3. session[s].holds[h].status = "HELD"
  BY <1>1, <1>2, SettledRow
<1> QED BY <1>2, <1>3 DEF TInv, RefsOK

\* The hold rows after payroll create, column by column.
LEMMA HoldsOfRow ==
    ASSUME TInv, NEW s \in Sessions, NEW i \in Slips, NEW new \in Holds \cup {0},
           new # 0 => hold[new].status = "ABSENT", NEW h \in Holds
    PROVE  /\ HoldsOf(s, i, new)[h] \in HoldRow
           /\ HoldsOf(s, i, new)[h].status = "ABSENT" =>
                    hold[h].status = "ABSENT" /\ HoldsOf(s, i, new)[h] = hold[h]
           /\ HoldsOf(s, i, new)[h].slip = (IF h = new \/ h \in Untied(s) THEN i ELSE hold[h].slip)
           /\ HoldsOf(s, i, new)[h].amount = (IF h = new THEN AutoHold(session[s].debt) ELSE hold[h].amount)
<1> DEFINE seen == session[s].holds[h]
           row == Settled(session[s].holds, session[s].debt, h)
           written == IF row = seen THEN hold[h]
                      ELSE [hold[h] EXCEPT !.released = row.released, !.status = row.status]
           result == HoldsOf(s, i, new)[h]
<1>1. session[s].holds \in [Holds -> HoldRow] /\ session[s].debt \in Nat /\ hold[h] \in HoldRow
  BY PayrollAssumption DEF TInv, TypeOK, SessionRow
<1>2. /\ row \in HoldRow
      /\ seen.status # "HELD" => row = seen
      /\ seen.status = "HELD" => row.status \in {"HELD", "RELEASED"}
  BY <1>1, SettledRow
<1>3. row # seen => hold[h].status # "ABSENT" /\ row.status # "ABSENT"
  <2>1. seen.status # "ABSENT" => hold[h].status # "ABSENT"
    BY DEF TInv, RefsOK
  <2> HIDE DEF row, seen
  <2> QED BY <1>2, <2>1
<1>4. result = IF h = new THEN [NoHold EXCEPT !.status = "HELD", !.amount = AutoHold(session[s].debt), !.slip = i]
               ELSE IF h \in Untied(s) THEN [written EXCEPT !.slip = i] ELSE written
  BY DEF HoldsOf
<1> HIDE DEF row, seen, result
<1>5. /\ written \in HoldRow /\ written.slip = hold[h].slip /\ written.amount = hold[h].amount
      /\ written.status = "ABSENT" => hold[h].status = "ABSENT" /\ written = hold[h]
  <2>1. CASE row = seen
    BY <1>1, <2>1 DEF HoldRow
  <2>2. CASE row # seen
    <3>1. written = [hold[h] EXCEPT !.released = row.released, !.status = row.status]
      BY <2>2
    <3>2. row.released \in Nat /\ row.status \in {"ABSENT", "HELD", "RELEASED"}
      BY <1>2 DEF HoldRow
    <3> QED BY <1>1, <1>3, <2>2, <3>1, <3>2 DEF HoldRow
  <2> QED BY <2>1, <2>2
<1> HIDE DEF written
<1>6. CASE h = new
  <2>1. AutoHold(session[s].debt) \in Nat
    BY <1>1, AutoHoldNat
  <2>2. /\ result \in HoldRow /\ result.slip = i /\ result.status = "HELD"
        /\ result.amount = AutoHold(session[s].debt)
    BY <1>4, <1>6, <2>1 DEF NoHold, HoldRow
  <2> QED BY <1>6, <2>2 DEF result
<1>7. CASE h # new /\ h \in Untied(s)
  <2>1. hold[h].status # "ABSENT"
    BY <1>7, UntiedRow
  <2>2. /\ result \in HoldRow /\ result.slip = i /\ result.status = written.status
        /\ result.amount = hold[h].amount
    BY <1>4, <1>5, <1>7 DEF HoldRow
  <2> QED BY <1>5, <1>7, <2>1, <2>2 DEF result
<1>8. CASE h # new /\ h \notin Untied(s)
  BY <1>4, <1>5, <1>8 DEF result
<1> QED BY <1>6, <1>7, <1>8

\* What the instalments of a session add up to is an amount.
LEMMA TotalNat ==
    ASSUME TInv, NEW s \in Sessions
    PROVE  Total(s) \in Nat
<1> DEFINE f == [l \in Loans |-> IF session[s].loans[l] = NoLoan THEN 0
                                 ELSE Deducted(session[s].loans[l], Monthly[l])]
<1>1. \A l \in Loans : f[l] \in Nat
  <2>1. \A l \in Loans : Monthly[l] \in Nat /\ session[s].loans[l] \in LoanRow
    BY PayrollAssumption DEF TInv, SessionRow
  <2> QED BY <2>1, PaidDownRow
<1>2. IsFiniteSet(Loans)
  BY PayrollAssumption
<1> QED BY <1>1, <1>2, SumNat DEF Total

\* The payslip that payroll create inserts.
LEMMA NewSlip ==
    ASSUME TInv, NEW s \in Sessions, NEW i \in Slips, NEW new \in Holds \cup {0}, CommitPayroll(s, i, new)
    PROVE  /\ slip' \in [Slips -> SlipRow]
           /\ slip[i].status = "ABSENT" /\ slip'[i].status = "PENDING"
           /\ \A j \in Slips : j < i => slip[j].status # "ABSENT"
           /\ slip'[i].month = session[s].month /\ session[s].month \in Months
           /\ slip'[i].loan = Total(s)
           /\ slip'[i].commission = SumFunctionOnSet(Commission, session[s].cut)
           /\ slip'[i].hold = AutoHold(session[s].debt)
                + SumFunctionOnSet([h \in Holds |-> session[s].holds[h].amount], Untied(s))
           /\ \A j \in Slips : j # i => slip'[j] = slip[j]
           /\ new # 0 => hold[new].status = "ABSENT"
<1> DEFINE c == SumFunctionOnSet(Commission, session[s].cut)
           a == AutoHold(session[s].debt)
           g == [h \in Holds |-> session[s].holds[h].amount]
           u == SumFunctionOnSet(g, Untied(s))
<1>1. c \in Nat
  <2>1. IsFiniteSet(session[s].cut) /\ \A p \in session[s].cut : Commission[p] \in Nat
    BY PayrollAssumption, FS_Subset DEF TInv, SessionRow
  <2> QED BY <2>1, SumNat
<1>2. a \in Nat
  <2>1. session[s].debt \in Nat
    BY PayrollAssumption DEF TInv, SessionRow
  <2> QED BY <2>1, AutoHoldNat
<1>3. u \in Nat
  <2>1. IsFiniteSet(Untied(s)) /\ Untied(s) \subseteq Holds
    BY Ids, FS_Subset DEF Untied
  <2>2. \A h \in Untied(s) : g[h] \in Nat
    BY <2>1 DEF TInv, SessionRow, HoldRow
  <2> QED BY <2>1, <2>2, SumNat
<1>4. Total(s) \in Nat
  BY TotalNat
<1>5. session[s].month \in Months
  BY DEF CommitPayroll, At, TInv, RefsOK
<1>6. slip' = [slip EXCEPT ![i] = [status |-> "PENDING", month |-> session[s].month, loan |-> Total(s),
                                   commission |-> c, hold |-> a + u]]
      /\ NextSlip(i) /\ (new # 0 => NextHold(new))
  BY DEF CommitPayroll
<1>7. slip \in [Slips -> SlipRow]
  BY DEF TInv, TypeOK
<1> HIDE DEF c, a, u
<1>8. a + u \in Nat
  BY <1>2, <1>3
<1>9. [status |-> "PENDING", month |-> session[s].month, loan |-> Total(s),
       commission |-> c, hold |-> a + u] \in SlipRow
  BY <1>1, <1>4, <1>5, <1>8 DEF SlipRow
<1>10. slip[i].status = "ABSENT" /\ (\A j \in Slips : j < i => slip[j].status # "ABSENT")
       /\ (new # 0 => hold[new].status = "ABSENT")
  BY <1>6, NextFree
<1>11. slip' \in [Slips -> SlipRow]
  BY <1>6, <1>7, <1>9
<1>12. /\ slip'[i].status = "PENDING" /\ slip'[i].month = session[s].month /\ slip'[i].loan = Total(s)
       /\ slip'[i].commission = c /\ slip'[i].hold = a + u
       /\ \A j \in Slips : j # i => slip'[j] = slip[j]
  BY <1>6, <1>7
<1> QED BY <1>5, <1>10, <1>11, <1>12 DEF c, a, u

\* markPaidForPayroll, column by column.
LEMMA PaidRow ==
    ASSUME TInv, NEW s \in Sessions, NEW i \in Slips, NEW new \in Holds \cup {0}, CommitPayroll(s, i, new)
    PROVE  /\ payout' \in [Payouts -> PayoutRow]
           /\ \A p \in Payouts : IF p \in session[s].cut /\ payout[p].status = "RELEASED"
                                 THEN payout'[p].status = "PAID" /\ payout'[p].slip = i
                                 ELSE payout'[p] = payout[p]
<1>1. payout' = PaidOn(s, i) /\ payout \in [Payouts -> PayoutRow]
  BY DEF CommitPayroll, TInv, TypeOK
<1>2. [status |-> "PAID", slip |-> i] \in PayoutRow
  BY DEF PayoutRow
<1> QED BY <1>1, <1>2 DEF PaidOn

\* Payroll create, all rows together.
LEMMA PayrollRows ==
    ASSUME TInv, UNCHANGED workload, NEW s \in Sessions, NEW i \in Slips, NEW new \in Holds \cup {0},
           CommitPayroll(s, i, new)
    PROVE  RowsOK' /\ RowsGrow
<1>1. /\ slip' \in [Slips -> SlipRow] /\ slip[i].status = "ABSENT" /\ slip'[i].status = "PENDING"
      /\ \A j \in Slips : j < i => slip[j].status # "ABSENT"
      /\ slip'[i].month \in Months /\ session[s].month \in Months
      /\ \A j \in Slips : j # i => slip'[j] = slip[j]
      /\ new # 0 => hold[new].status = "ABSENT"
  BY NewSlip
<1>2. /\ loan' \in [Loans -> LoanRow]
      /\ \A l \in Loans : loan'[l].status = "ABSENT" => loan[l].status = "ABSENT" /\ loan'[l] = loan[l]
  <2>1. WriteInstalments(s, session[s].month)
    BY DEF CommitPayroll
  <2> QED BY <1>1, <2>1, BookedRow
<1>3. \A h \in Holds :
        /\ hold'[h] \in HoldRow
        /\ hold'[h].status = "ABSENT" => hold[h].status = "ABSENT" /\ hold'[h] = hold[h]
        /\ hold'[h].slip \in {hold[h].slip, i}
  <2>1. hold' = HoldsOf(s, i, new)
    BY DEF CommitPayroll
  <2> QED BY <1>1, <2>1, HoldsOfRow
<1>4. hold' \in [Holds -> HoldRow]
  BY <1>3 DEF CommitPayroll, HoldsOf
<1>5. /\ payout' \in [Payouts -> PayoutRow]
      /\ \A p \in Payouts : payout'[p] = payout[p] \/ (payout'[p].status = "PAID" /\ payout'[p].slip = i)
  BY PaidRow
<1>6. TypeOK'
  BY <1>1, <1>2, <1>4, <1>5 DEF TInv, TypeOK, CommitPayroll, End
<1>7. AbsentOK' /\ RowsGrow
  BY <1>1, <1>2, <1>3 DEF TInv, AbsentOK, RowsGrow
<1>8. SlipsInARow'
  <2> SUFFICES ASSUME NEW a \in Slips, NEW b \in Slips, a < b, slip'[b].status # "ABSENT"
               PROVE  slip'[a].status # "ABSENT"
    BY DEF SlipsInARow
  <2>1. CASE a = i
    BY <1>1, <2>1
  <2>2. CASE a # i /\ b = i
    BY <1>1, <2>2
  <2>3. CASE a # i /\ b # i
    BY <1>1, <2>3 DEF TInv, SlipsInARow
  <2> QED BY <2>1, <2>2, <2>3
<1>9. PointersOK'
  <2>1. \A j \in Slips : slip[j].status # "ABSENT" => slip'[j].status # "ABSENT"
    BY <1>1
  <2>2. ASSUME NEW p \in Payouts, payout'[p].slip # 0
        PROVE  payout'[p].status = "PAID" /\ slip'[payout'[p].slip].status # "ABSENT"
    <3>1. CASE payout'[p] = payout[p]
      <4>1. payout[p].slip \in Slips
        BY <2>2, <3>1 DEF TInv, TypeOK, PayoutRow
      <4> QED BY <2>1, <2>2, <3>1, <4>1 DEF TInv, PointersOK
    <3>2. CASE payout'[p].status = "PAID" /\ payout'[p].slip = i
      BY <1>1, <3>2
    <3> QED BY <1>5, <3>1, <3>2
  <2>3. ASSUME NEW h \in Holds, hold'[h].slip # 0
        PROVE  slip'[hold'[h].slip].status # "ABSENT"
    <3>1. CASE hold'[h].slip = hold[h].slip
      <4>1. hold[h].slip \in Slips
        BY <2>3, <3>1 DEF TInv, TypeOK, HoldRow
      <4> QED BY <2>1, <2>3, <3>1, <4>1 DEF TInv, PointersOK
    <3>2. CASE hold'[h].slip = i
      BY <1>1, <3>2
    <3> QED BY <1>3, <3>1, <3>2
  <2> QED BY <2>2, <2>3 DEF PointersOK
<1> QED BY <1>6, <1>7, <1>8, <1>9 DEF RowsOK

-----------------------------------------------------------------------------
(* Requests *)

\* What a session knows when it has begun.
LEMMA BegunRow ==
    ASSUME TInv, NEW s \in Sessions, NEW op, NEW request \in SessionRow, Begin(s, op, request)
    PROVE  /\ session'[s].op = op /\ session'[s].pc = "read" /\ session'[s].id = request.id
           /\ session'[s].month = request.month /\ session'[s].amount = request.amount
           /\ session'[s].loans = request.loans /\ session'[s].cut = request.cut
           /\ session'[s].holds = request.holds /\ session'[s].slip = request.slip
           /\ \A r \in Sessions : r # s => session'[r] = session[r]
           /\ UNCHANGED <<loan, payout, debt, slip, hold>>
<1>1. session' = [session EXCEPT ![s] = [request EXCEPT !.op = op, !.pc = "read"]]
      /\ session \in [Sessions -> SessionRow]
  BY DEF Begin, TInv
<1>2. session'[s] = [request EXCEPT !.op = op, !.pc = "read"]
      /\ \A r \in Sessions : r # s => session'[r] = session[r]
  BY <1>1
<1>3. UNCHANGED <<loan, payout, debt, slip, hold>>
  BY DEF Begin, rows
<1> QED BY <1>2, <1>3 DEF SessionRow

\* A request begins with rows that exist.
LEMMA Begun ==
    ASSUME TInv, UNCHANGED workload, NEW s \in Sessions, NEW op \in AllOperations,
           NEW request \in SessionRow, Begin(s, op, request),
           \A l \in Loans : request.loans[l] # NoLoan =>
               request.loans[l].status # "ABSENT" /\ loan[l].status # "ABSENT",
           \A h \in Holds : request.holds[h] = NoHold,
           op = "payroll" => request.month \in Months,
           op \in {"hold", "recalc"} => request.id \in Slips /\ slip[request.id].status # "ABSENT",
           op \in {"release", "disburse"} => request.id \in Holds /\ hold[request.id].status # "ABSENT"
    PROVE  TInv'
<1>1. /\ session'[s].op = op /\ session'[s].id = request.id /\ session'[s].month = request.month
      /\ session'[s].loans = request.loans /\ session'[s].holds = request.holds
      /\ UNCHANGED <<loan, payout, debt, slip, hold>>
  BY BegunRow
<1>2. \A h \in Holds : session'[s].holds[h].status = "ABSENT"
  BY <1>1 DEF NoHold
<1>3. RefsOK(s)'
  BY <1>1, <1>2 DEF RefsOK
<1> QED BY <1>3, BeginStep

\* A request starts from nothing.
LEMMA IdleFields ==
    /\ Idle \in SessionRow
    /\ Idle.loans = [l \in Loans |-> NoLoan] /\ Idle.holds = [h \in Holds |-> NoHold]
    /\ Idle.cut = {} /\ Idle.op = "idle" /\ Idle.pc = "idle" /\ Idle.slip = NoSlip
BY EmptyRows DEF Idle

\* What each request has read when it begins: `f` are the loans.
ReadLoans(f) ==
    \A l \in Loans : f[l] # NoLoan =>
        f[l].status # "ABSENT" /\ loan[l].status # "ABSENT"

\* The loans a request takes instalments of are rows as they are stored.
LEMMA ChosenLoans ==
    ASSUME TInv, NEW open \in SUBSET Loans, \A l \in open : loan[l].status # "ABSENT"
    PROVE  /\ Instalments(open) \in [Loans -> LoanRow]
           /\ ReadLoans(Instalments(open))
           /\ \A l \in Loans : Instalments(open)[l] # NoLoan => l \in open /\ Instalments(open)[l] = loan[l]
<1>1. \A l \in Loans : loan[l] \in LoanRow
  BY DEF TInv, TypeOK
<1>2. \A l \in Loans : Instalments(open)[l] = IF l \in open /\ Monthly[l] > 0 THEN loan[l] ELSE NoLoan
  BY DEF Instalments
<1>3. Instalments(open) \in [Loans -> LoanRow]
  BY <1>1, <1>2, EmptyRows DEF Instalments
<1>4. \A l \in Loans : Instalments(open)[l] # NoLoan => l \in open /\ Instalments(open)[l] = loan[l]
  BY <1>2
<1> QED BY <1>3, <1>4 DEF ReadLoans

\* approve and reject.
LEMMA BeginDecideT ==
    ASSUME TInv, UNCHANGED workload, NEW s \in Sessions, NEW l \in Loans,
           NEW verdict \in {"ACTIVE", "REJECTED"}, BeginDecide(s, l, verdict)
    PROVE  TInv' /\ session'[s].op = "loan" /\ session'[s].holds = Idle.holds /\ session'[s].cut = {}
<1> DEFINE row == [loan[l] EXCEPT !.status = verdict]
           f == [k \in Loans |-> IF k = l THEN row ELSE NoLoan]
           request == [Idle EXCEPT !.loans = f]
<1>1. row \in LoanRow /\ row.status # "ABSENT" /\ loan[l].status # "ABSENT"
  BY DEF TInv, TypeOK, LoanRow, BeginDecide
<1>2. \A k \in Loans : f[k] = IF k = l THEN row ELSE NoLoan
  OBVIOUS
<1> HIDE DEF row
<1>3. f \in [Loans -> LoanRow]
  BY <1>1, EmptyRows
<1>4. Begin(s, "loan", request)
  BY DEF BeginDecide, row
<1> HIDE DEF f
<1>5. request \in SessionRow /\ request.loans = f /\ request.holds = Idle.holds /\ request.cut = {}
  BY <1>3, IdleFields DEF SessionRow
<1>6. ReadLoans(request.loans)
  BY <1>1, <1>2, <1>5 DEF ReadLoans
<1>7. \A h \in Holds : request.holds[h] = NoHold
  BY <1>5, IdleFields
<1> HIDE DEF request
<1>8. TInv'
  BY <1>4, <1>5, <1>6, <1>7, Begun DEF ReadLoans, AllOperations
<1>9. session'[s].op = "loan" /\ session'[s].holds = request.holds /\ session'[s].cut = request.cut
  BY <1>4, <1>5, BegunRow
<1> QED BY <1>5, <1>8, <1>9

\* deductManual.
LEMMA BeginDeductT ==
    ASSUME TInv, UNCHANGED workload, NEW s \in Sessions, NEW l \in Loans,
           NEW amount \in PayDowns, BeginDeduct(s, l, amount)
    PROVE  /\ TInv' /\ session'[s].op = "deduct" /\ session'[s].holds = Idle.holds /\ session'[s].cut = {}
           /\ \A k \in Loans : session'[s].loans[k] # NoLoan => session'[s].loans[k] = loan[k]
<1> DEFINE f == [k \in Loans |-> IF k = l THEN loan[l] ELSE NoLoan]
           request == [Idle EXCEPT !.amount = amount, !.loans = f]
<1>1. loan[l] \in LoanRow /\ loan[l].status # "ABSENT" /\ amount \in Nat
  BY PayrollAssumption DEF TInv, TypeOK, BeginDeduct
<1>2. \A k \in Loans : f[k] = IF k = l THEN loan[l] ELSE NoLoan
  OBVIOUS
<1>3. f \in [Loans -> LoanRow]
  BY <1>1, EmptyRows
<1>4. Begin(s, "deduct", request)
  BY DEF BeginDeduct
<1> HIDE DEF f
<1>5. request \in SessionRow /\ request.loans = f /\ request.holds = Idle.holds /\ request.cut = {}
  BY <1>1, <1>3, IdleFields DEF SessionRow
<1>6. ReadLoans(request.loans) /\ \A k \in Loans : request.loans[k] # NoLoan => request.loans[k] = loan[k]
  BY <1>1, <1>2, <1>5 DEF ReadLoans
<1>7. \A h \in Holds : request.holds[h] = NoHold
  BY <1>5, IdleFields
<1> HIDE DEF request
<1>8. TInv'
  BY <1>4, <1>5, <1>6, <1>7, Begun DEF ReadLoans, AllOperations
<1>9. session'[s].op = "deduct" /\ session'[s].holds = request.holds /\ session'[s].cut = request.cut
      /\ session'[s].loans = request.loans
  BY <1>4, <1>5, BegunRow
<1> QED BY <1>5, <1>6, <1>8, <1>9

\* payroll create reads the loans that are due.
LEMMA BeginPayrollT ==
    ASSUME TInv, UNCHANGED workload, NEW s \in Sessions, NEW month \in Months, BeginPayroll(s, month)
    PROVE  /\ TInv' /\ session'[s].op = "payroll" /\ session'[s].holds = Idle.holds /\ session'[s].cut = {}
           /\ \A k \in Loans : session'[s].loans[k] # NoLoan =>
                session'[s].loans[k] = loan[k] /\ loan[k].last # session'[s].month
<1> DEFINE open == {l \in Loans : Due(loan[l], month)}
           f == Instalments(open)
           request == [Idle EXCEPT !.month = month, !.loans = f]
<1>1. \A l \in open : loan[l].status # "ABSENT" /\ loan[l].last # month
  BY DEF Due
<1>2. Begin(s, "payroll", request)
  BY DEF BeginPayroll
<1>3. open \in SUBSET Loans
  OBVIOUS
<1> HIDE DEF open
<1>4. f \in [Loans -> LoanRow] /\ ReadLoans(f)
      /\ \A l \in Loans : f[l] # NoLoan => l \in open /\ f[l] = loan[l]
  BY <1>1, <1>3, ChosenLoans
<1> HIDE DEF f
<1>5. request \in SessionRow /\ request.loans = f /\ request.holds = Idle.holds /\ request.cut = {}
      /\ request.month = month
  BY <1>4, IdleFields DEF SessionRow
<1>6. \A h \in Holds : request.holds[h] = NoHold
  BY <1>5, IdleFields
<1> HIDE DEF request
<1>7. TInv'
  BY <1>2, <1>4, <1>5, <1>6, Begun DEF ReadLoans, AllOperations
<1>8. session'[s].op = "payroll" /\ session'[s].holds = request.holds /\ session'[s].cut = request.cut
      /\ session'[s].loans = request.loans /\ session'[s].month = request.month
  BY <1>2, <1>5, BegunRow
<1> QED BY <1>1, <1>4, <1>5, <1>7, <1>8

\* recalcLoanDeduction reads a payslip and the loans no payroll has touched.
LEMMA BeginRecalcT ==
    ASSUME TInv, UNCHANGED workload, NEW s \in Sessions, NEW i \in Slips, BeginRecalc(s, i)
    PROVE  /\ TInv' /\ session'[s].op = "recalc" /\ session'[s].holds = Idle.holds /\ session'[s].cut = {}
           /\ \A k \in Loans : session'[s].loans[k] # NoLoan =>
                session'[s].loans[k] = loan[k] /\ loan[k].last = NoMonth
           /\ session'[s].id = i /\ session'[s].slip = slip[i]
<1> DEFINE open == {l \in Loans : Unbooked(loan[l], slip[i].month)}
           f == Instalments(open)
           request == [Idle EXCEPT !.id = i, !.slip = slip[i], !.loans = f]
<1>1. \A l \in open : loan[l].status # "ABSENT" /\ loan[l].last = NoMonth
  BY DEF Unbooked
<1>2. Begin(s, "recalc", request) /\ slip[i].status # "ABSENT"
  BY DEF BeginRecalc
<1>3. open \in SUBSET Loans /\ i \in Nat /\ slip[i] \in SlipRow
  BY Ids DEF TInv, TypeOK
<1> HIDE DEF open
<1>4. f \in [Loans -> LoanRow] /\ ReadLoans(f)
      /\ \A l \in Loans : f[l] # NoLoan => l \in open /\ f[l] = loan[l]
  BY <1>1, <1>3, ChosenLoans
<1> HIDE DEF f
<1>5. request \in SessionRow /\ request.loans = f /\ request.holds = Idle.holds /\ request.cut = {}
      /\ request.id = i /\ request.slip = slip[i]
  BY <1>3, <1>4, IdleFields DEF SessionRow
<1>6. \A h \in Holds : request.holds[h] = NoHold
  BY <1>5, IdleFields
<1> HIDE DEF request
<1>7. TInv'
  BY <1>2, <1>4, <1>5, <1>6, Begun DEF ReadLoans, AllOperations
<1>8. session'[s].op = "recalc" /\ session'[s].holds = request.holds /\ session'[s].cut = request.cut
      /\ session'[s].loans = request.loans /\ session'[s].id = request.id
      /\ session'[s].slip = request.slip
  BY <1>2, <1>5, BegunRow
<1> QED BY <1>1, <1>4, <1>5, <1>7, <1>8

\* createManualHold on a payroll reads the payslip.
LEMMA BeginHoldT ==
    ASSUME TInv, UNCHANGED workload, NEW s \in Sessions, NEW i \in Slips, NEW amount \in HoldAmounts,
           BeginHold(s, i, amount)
    PROVE  /\ TInv' /\ session'[s].op = "hold" /\ session'[s].holds = Idle.holds /\ session'[s].cut = {}
           /\ session'[s].id = i /\ session'[s].slip = slip[i]
<1> DEFINE request == [Idle EXCEPT !.id = i, !.amount = amount, !.slip = slip[i]]
<1>1. Begin(s, "hold", request) /\ slip[i].status # "ABSENT"
  BY DEF BeginHold
<1>2. i \in Nat /\ slip[i] \in SlipRow /\ amount \in Nat
  BY Ids, PayrollAssumption DEF TInv, TypeOK
<1>3. request \in SessionRow /\ request.loans = Idle.loans /\ request.holds = Idle.holds
      /\ request.cut = {} /\ request.id = i /\ request.slip = slip[i]
  BY <1>2, IdleFields DEF SessionRow
<1>4. (\A h \in Holds : request.holds[h] = NoHold) /\ \A l \in Loans : request.loans[l] = NoLoan
  BY <1>3, IdleFields
<1> HIDE DEF request
<1>5. TInv'
  BY <1>1, <1>3, <1>4, Begun DEF AllOperations
<1>6. session'[s].op = "hold" /\ session'[s].holds = request.holds /\ session'[s].cut = request.cut
      /\ session'[s].id = request.id /\ session'[s].slip = request.slip
  BY <1>1, <1>3, BegunRow
<1> QED BY <1>3, <1>5, <1>6

\* releaseManualHold and markDisbursed keep the id of the hold.
LEMMA BeginReleaseT ==
    ASSUME TInv, UNCHANGED workload, NEW s \in Sessions, NEW h \in Holds,
           BeginRelease(s, h) \/ BeginDisburse(s, h)
    PROVE  TInv' /\ session'[s].op \in {"release", "disburse"}
           /\ session'[s].holds = Idle.holds /\ session'[s].cut = {}
<1> DEFINE request == [Idle EXCEPT !.id = h]
<1>1. PICK op \in {"release", "disburse"} : Begin(s, op, request) /\ hold[h].status # "ABSENT"
  BY DEF BeginRelease, BeginDisburse
<1>2. h \in Nat
  BY Ids
<1>3. request \in SessionRow /\ request.loans = Idle.loans /\ request.holds = Idle.holds
      /\ request.cut = {} /\ request.id = h
  BY <1>2, IdleFields DEF SessionRow
<1>4. (\A k \in Holds : request.holds[k] = NoHold) /\ \A l \in Loans : request.loans[l] = NoLoan
  BY <1>3, IdleFields
<1> HIDE DEF request
<1>5. TInv'
  BY <1>1, <1>3, <1>4, Begun DEF AllOperations
<1>6. session'[s].op = op /\ session'[s].holds = request.holds /\ session'[s].cut = request.cut
  BY <1>1, <1>3, BegunRow
<1> QED BY <1>1, <1>3, <1>5, <1>6

-----------------------------------------------------------------------------
(* Commits *)

\* recalcLoanDeduction writes the loan column of its payslip.
LEMMA RecalcRow ==
    ASSUME TInv, NEW s \in Sessions, CommitRecalc(s)
    PROVE  /\ session[s].id \in Slips /\ slip[session[s].id].status # "ABSENT"
           /\ slip' \in [Slips -> SlipRow]
           /\ slip'[session[s].id].loan = session[s].slip.loan + Total(s)
           /\ \A j \in Slips : j # session[s].id => slip'[j] = slip[j]
           /\ \A j \in Slips : /\ slip'[j].status = slip[j].status /\ slip'[j].month = slip[j].month
                               /\ slip'[j].commission = slip[j].commission /\ slip'[j].hold = slip[j].hold
           /\ session[s].slip \in SlipRow
<1> DEFINE i == session[s].id
           n == session[s].slip.loan + Total(s)
<1>1. i \in Slips /\ slip[i].status # "ABSENT"
  BY DEF CommitRecalc, At, TInv, RefsOK
<1>2. Total(s) \in Nat /\ session[s].slip \in SlipRow
  BY TotalNat DEF TInv, SessionRow
<1>3. n \in Nat
  <2>1. session[s].slip.loan \in Nat
    BY <1>2 DEF SlipRow
  <2> QED BY <1>2, <2>1
<1>4. slip' = [slip EXCEPT ![i].loan = n] /\ slip \in [Slips -> SlipRow]
  BY DEF CommitRecalc, TInv, TypeOK
<1> HIDE DEF n, i
<1>5. slip'[i] = [slip[i] EXCEPT !.loan = n] /\ slip[i] \in SlipRow /\ \A j \in Slips : j # i => slip'[j] = slip[j]
  BY <1>1, <1>4
<1>6. /\ slip'[i] \in SlipRow /\ slip'[i].loan = n
      /\ slip'[i].status = slip[i].status /\ slip'[i].month = slip[i].month
      /\ slip'[i].commission = slip[i].commission /\ slip'[i].hold = slip[i].hold
  BY <1>3, <1>5 DEF SlipRow
<1>7. slip' \in [Slips -> SlipRow]
  BY <1>4, <1>5, <1>6
<1>8. \A j \in Slips : /\ slip'[j].status = slip[j].status /\ slip'[j].month = slip[j].month
                       /\ slip'[j].commission = slip[j].commission /\ slip'[j].hold = slip[j].hold
  BY <1>5, <1>6
<1> QED BY <1>1, <1>2, <1>5, <1>6, <1>7, <1>8 DEF i, n

\* createManualHold on a payroll writes the hold column of its payslip and a new hold.
LEMMA HoldCommitRow ==
    ASSUME TInv, NEW s \in Sessions, NEW h \in Holds, CommitHold(s, h)
    PROVE  /\ session[s].id \in Slips /\ slip[session[s].id].status # "ABSENT"
           /\ slip' \in [Slips -> SlipRow]
           /\ slip'[session[s].id].hold = session[s].slip.hold + session[s].amount
           /\ \A j \in Slips : j # session[s].id => slip'[j] = slip[j]
           /\ \A j \in Slips : /\ slip'[j].status = slip[j].status /\ slip'[j].month = slip[j].month
                               /\ slip'[j].commission = slip[j].commission /\ slip'[j].loan = slip[j].loan
           /\ hold' \in [Holds -> HoldRow]
           /\ hold[h].status = "ABSENT" /\ hold'[h].status = "HELD"
           /\ hold'[h].slip = session[s].id /\ hold'[h].amount = session[s].amount
           /\ \A k \in Holds : k # h => hold'[k] = hold[k]
           /\ session[s].amount \in Nat
<1> DEFINE i == session[s].id
           n == session[s].slip.hold + session[s].amount
           row == [NoHold EXCEPT !.status = "HELD", !.amount = session[s].amount, !.slip = i]
<1>1. i \in Slips /\ slip[i].status # "ABSENT"
  BY DEF CommitHold, At, TInv, RefsOK
<1>2. session[s].amount \in Nat /\ session[s].slip \in SlipRow
  BY DEF TInv, SessionRow
<1>3. n \in Nat
  <2>1. session[s].slip.hold \in Nat
    BY <1>2 DEF SlipRow
  <2> QED BY <1>2, <2>1
<1>4. /\ slip' = [slip EXCEPT ![i].hold = n] /\ slip \in [Slips -> SlipRow]
      /\ hold' = [hold EXCEPT ![h] = row] /\ hold \in [Holds -> HoldRow]
      /\ hold[h].status = "ABSENT"
  BY NextFree DEF CommitHold, TInv, TypeOK
<1>5. row \in HoldRow /\ row.status = "HELD" /\ row.amount = session[s].amount /\ row.slip = i
  BY <1>1, <1>2 DEF NoHold, HoldRow
<1> HIDE DEF n, i, row
<1>6. slip'[i] = [slip[i] EXCEPT !.hold = n] /\ slip[i] \in SlipRow /\ \A j \in Slips : j # i => slip'[j] = slip[j]
  BY <1>1, <1>4
<1>7. /\ slip'[i] \in SlipRow /\ slip'[i].hold = n
      /\ slip'[i].status = slip[i].status /\ slip'[i].month = slip[i].month
      /\ slip'[i].commission = slip[i].commission /\ slip'[i].loan = slip[i].loan
  BY <1>3, <1>6 DEF SlipRow
<1>8. slip' \in [Slips -> SlipRow]
  BY <1>4, <1>6, <1>7
<1>9. \A j \in Slips : /\ slip'[j].status = slip[j].status /\ slip'[j].month = slip[j].month
                       /\ slip'[j].commission = slip[j].commission /\ slip'[j].loan = slip[j].loan
  BY <1>6, <1>7
<1>10. hold' \in [Holds -> HoldRow] /\ hold'[h] = row /\ \A k \in Holds : k # h => hold'[k] = hold[k]
  BY <1>4, <1>5
<1> QED BY <1>1, <1>2, <1>4, <1>5, <1>6, <1>7, <1>8, <1>9, <1>10 DEF i, n

\* Releases and disbursements leave amount and payslip of a hold.
LEMMA ReleaseRow ==
    ASSUME TInv, NEW s \in Sessions, CommitRelease(s) \/ CommitDisburse(s)
    PROVE  /\ hold' \in [Holds -> HoldRow]
           /\ \A h \in Holds : /\ hold'[h].slip = hold[h].slip /\ hold'[h].amount = hold[h].amount
                               /\ hold'[h].status = "ABSENT" => hold[h].status = "ABSENT" /\ hold'[h] = hold[h]
<1> DEFINE i == session[s].id
<1>1. i \in Holds /\ hold[i].status # "ABSENT" /\ hold \in [Holds -> HoldRow] /\ hold[i] \in HoldRow
  BY DEF CommitRelease, CommitDisburse, At, TInv, TypeOK, RefsOK
<1> HIDE DEF i
<1>2. \/ hold' = [hold EXCEPT ![i].status = "RELEASED", ![i].released = hold[i].amount]
      \/ hold' = [hold EXCEPT ![i].disbursed = TRUE]
  BY DEF CommitRelease, CommitDisburse, i
<1>3. \/ hold'[i] = [hold[i] EXCEPT !.status = "RELEASED", !.released = hold[i].amount]
      \/ hold'[i] = [hold[i] EXCEPT !.disbursed = TRUE]
  BY <1>1, <1>2
<1>4. \A h \in Holds : h # i => hold'[h] = hold[h]
  BY <1>1, <1>2
<1>5. /\ hold'[i] \in HoldRow /\ hold'[i].slip = hold[i].slip /\ hold'[i].amount = hold[i].amount
      /\ hold'[i].status # "ABSENT"
  BY <1>1, <1>3 DEF HoldRow
<1>6. hold' \in [Holds -> HoldRow]
  BY <1>1, <1>2, <1>4, <1>5
<1> QED BY <1>4, <1>5, <1>6

\* Initially nothing was inserted.
LEMMA TInvInit == Init => TInv
<1> SUFFICES ASSUME Init PROVE TInv
  OBVIOUS
<1>1. TypeOK
  <2>1. [status |-> "NONE", slip |-> 0] \in PayoutRow
    BY DEF PayoutRow
  <2>2. 0 \in Debts
    BY PayrollAssumption
  <2> QED BY <2>1, <2>2, EmptyRows DEF Init, TypeOK
<1>2. session \in [Sessions -> SessionRow]
  BY EmptyRows DEF Init
<1>3. AbsentOK
  BY DEF Init, AbsentOK, NoLoan, NoSlip, NoHold
<1>4. SlipsInARow
  BY DEF Init, SlipsInARow, NoSlip
<1>5. PointersOK
  BY DEF Init, PointersOK, NoHold
<1>6. ASSUME NEW s \in Sessions PROVE RefsOK(s)
  <2>1. session[s].loans = [l \in Loans |-> NoLoan] /\ session[s].holds = [h \in Holds |-> NoHold]
        /\ session[s].op = "idle"
    BY IdleFields DEF Init
  <2>2. \A h \in Holds : session[s].holds[h].status = "ABSENT"
    BY <2>1 DEF NoHold
  <2> QED BY <2>1, <2>2 DEF RefsOK
<1> QED BY <1>1, <1>2, <1>3, <1>4, <1>5, <1>6 DEF TInv

\* The loans are locked: commission, holds and debt are read.
LEMMA LockRow ==
    ASSUME TInv, NEW s \in Sessions, NEW cut \in SUBSET Payouts, LockLoans(s, cut)
    PROVE  /\ session' \in [Sessions -> SessionRow]
           /\ session'[s].op = session[s].op /\ session'[s].loans = session[s].loans
           /\ session'[s].month = session[s].month /\ session'[s].id = session[s].id
           /\ session'[s].slip = session[s].slip /\ session'[s].cut = cut /\ session'[s].holds = hold
           /\ \A r \in Sessions : r # s => session'[r] = session[r]
<1>1. session' = [session EXCEPT ![s] = [session[s] EXCEPT !.pc = "locked", !.cut = cut,
                                                             !.holds = hold, !.debt = debt]]
      /\ session \in [Sessions -> SessionRow] /\ session[s] \in SessionRow
  BY DEF LockLoans, TInv
<1>2. hold \in [Holds -> HoldRow] /\ debt \in Debts
  BY DEF TInv, TypeOK
<1>3. /\ session'[s] \in SessionRow
      /\ session'[s].op = session[s].op /\ session'[s].loans = session[s].loans
      /\ session'[s].month = session[s].month /\ session'[s].id = session[s].id
      /\ session'[s].slip = session[s].slip /\ session'[s].cut = cut /\ session'[s].holds = hold
  <2>1. session'[s] = [session[s] EXCEPT !.pc = "locked", !.cut = cut, !.holds = hold, !.debt = debt]
    BY <1>1
  <2> QED BY <1>1, <1>2, <2>1 DEF SessionRow
<1>4. \A r \in Sessions : r # s => session'[r] = session[r]
  BY <1>1
<1> QED BY <1>1, <1>3, <1>4

\* No step breaks the types, the pointers or the rows a request has read.
LEMMA TInvNext == TInv /\ [Next]_vars => TInv'
<1> SUFFICES ASSUME TInv, [Next]_vars PROVE TInv'
  OBVIOUS
<1>1. CASE UNCHANGED vars
  <2>1. UNCHANGED <<rows, workload>> /\ overlapped' \in BOOLEAN /\ UNCHANGED session
    BY <1>1 DEF vars, TInv, TypeOK
  <2> QED BY <2>1, SameRows, OutsideStep
<1>2. ASSUME UNCHANGED workload, NEW s \in Sessions, Rollback(s) PROVE TInv'
  <2>1. UNCHANGED <<rows, workload>> /\ overlapped' \in BOOLEAN /\ End(s)
    BY <1>2 DEF Rollback, End, TInv, TypeOK
  <2> QED BY <2>1, SameRows, EndStep
<1>3. ASSUME UNCHANGED workload, NEW s \in Sessions, CommitDecide(s) PROVE TInv'
  <2>1. RowsOK' /\ RowsGrow
    <3>1. UNCHANGED <<payout, debt, slip, hold, overlapped, workload>>
      BY <1>3 DEF CommitDecide, End
    <3> QED BY <1>3, <3>1, DecideRow, LoansWritten
  <2> QED BY <1>3, <2>1, EndStep DEF CommitDecide
<1>4. ASSUME UNCHANGED workload, NEW s \in Sessions, CommitDeduct(s) PROVE TInv'
  <2>1. RowsOK' /\ RowsGrow
    <3>1. UNCHANGED <<payout, debt, slip, hold, overlapped, workload>>
      BY <1>4 DEF CommitDeduct, End
    <3>2. /\ loan' \in [Loans -> LoanRow]
          /\ \A l \in Loans : loan'[l].status = "ABSENT" => loan[l].status = "ABSENT" /\ loan'[l] = loan[l]
      BY <1>4, DeductRow
    <3> QED BY <3>1, <3>2, LoansWritten
  <2> QED BY <1>4, <2>1, EndStep DEF CommitDeduct
<1>5. ASSUME UNCHANGED workload, NEW s \in Sessions, NEW cut \in SUBSET Payouts, LockLoans(s, cut) PROVE TInv'
  <2>1. RowsOK' /\ RowsGrow
    <3>1. UNCHANGED <<rows, workload>> /\ overlapped' \in BOOLEAN
      BY <1>5 DEF LockLoans, TInv, TypeOK
    <3> QED BY <3>1, SameRows
  <2>2. RefsOK(s)'
    <3>1. UNCHANGED <<loan, slip, hold>>
      BY <1>5 DEF LockLoans, rows
    <3>2. /\ session'[s].op = session[s].op /\ session'[s].loans = session[s].loans
          /\ session'[s].month = session[s].month /\ session'[s].id = session[s].id
          /\ session'[s].holds = hold
      BY <1>5, LockRow
    <3> QED BY <3>1, <3>2 DEF TInv, RefsOK
  <2>3. \A r \in Sessions : r # s => RefsOK(r)'
    <3>1. \A r \in Sessions : r # s => session'[r] = session[r]
      BY <1>5, LockRow
    <3> QED BY <2>1, <3>1, RefsKept DEF TInv
  <2>4. session' \in [Sessions -> SessionRow]
    BY <1>5, LockRow
  <2> QED BY <2>1, <2>2, <2>3, <2>4 DEF TInv, RowsOK
<1>6. ASSUME UNCHANGED workload, NEW s \in Sessions, NEW i \in Slips, NEW new \in Holds \cup {0},
             CommitPayroll(s, i, new)
      PROVE  TInv'
  <2>1. RowsOK' /\ RowsGrow
    BY <1>6, PayrollRows
  <2> QED BY <1>6, <2>1, EndStep DEF CommitPayroll
<1>7. ASSUME UNCHANGED workload, NEW s \in Sessions, CommitRecalc(s) PROVE TInv'
  <2>1. UNCHANGED <<payout, debt, hold, overlapped, workload>>
        /\ WriteInstalments(s, session[s].slip.month)
    BY <1>7 DEF CommitRecalc, End
  <2>2. slip' \in [Slips -> SlipRow] /\ session[s].slip \in SlipRow
        /\ session[s].id \in Slips /\ slip[session[s].id].status # "ABSENT"
        /\ (\A j \in Slips : slip'[j].status = slip[j].status /\ slip'[j].month = slip[j].month)
        /\ \A j \in Slips : j # session[s].id => slip'[j] = slip[j]
    BY <1>7, RecalcRow
  <2>3. session[s].slip.month \in Months \cup {NoMonth}
    BY <2>2 DEF SlipRow
  <2>4. /\ loan' \in [Loans -> LoanRow]
        /\ \A l \in Loans : loan'[l].status = "ABSENT" => loan[l].status = "ABSENT" /\ loan'[l] = loan[l]
    BY <2>1, <2>3, BookedRow
  <2>5. \A i \in Slips : /\ slip'[i].status = "ABSENT" <=> slip[i].status = "ABSENT"
                         /\ slip'[i].month = slip[i].month
                         /\ slip[i].status = "ABSENT" => slip'[i] = slip[i]
    BY <2>2
  <2>6. /\ \A i \in Slips : slip'[i].status = "ABSENT" => slip'[i] = NoSlip
        /\ \A i \in Slips : slip'[i].status # "ABSENT" => slip'[i].month \in Months
        /\ SlipsInARow'
        /\ \A i \in Slips : slip[i].status # "ABSENT" => slip'[i].status # "ABSENT"
    BY <2>2, <2>5, SlipsWritten
  <2>7. TypeOK' /\ AbsentOK' /\ RowsGrow
    BY <2>1, <2>2, <2>4, <2>6 DEF TInv, TypeOK, AbsentOK, RowsGrow
  <2>8. PointersOK'
    BY <2>1, <2>6 DEF TInv, TypeOK, PayoutRow, HoldRow, PointersOK
  <2>9. RowsOK'
    BY <2>6, <2>7, <2>8 DEF RowsOK
  <2> QED BY <1>7, <2>7, <2>9, EndStep DEF CommitRecalc
<1>8. ASSUME UNCHANGED workload, NEW s \in Sessions, NEW h \in Holds, CommitHold(s, h) PROVE TInv'
  <2>1. UNCHANGED <<loan, payout, debt, overlapped, workload>>
    BY <1>8 DEF CommitHold, End
  <2>2. slip' \in [Slips -> SlipRow] /\ session[s].id \in Slips /\ slip[session[s].id].status # "ABSENT"
        /\ (\A j \in Slips : slip'[j].status = slip[j].status /\ slip'[j].month = slip[j].month)
        /\ \A j \in Slips : j # session[s].id => slip'[j] = slip[j]
    BY <1>8, HoldCommitRow
  <2>3. /\ hold' \in [Holds -> HoldRow] /\ hold'[h].status = "HELD" /\ hold'[h].slip = session[s].id
        /\ \A k \in Holds : k # h => hold'[k] = hold[k]
    BY <1>8, HoldCommitRow
  <2>4. \A i \in Slips : /\ slip'[i].status = "ABSENT" <=> slip[i].status = "ABSENT"
                         /\ slip'[i].month = slip[i].month
                         /\ slip[i].status = "ABSENT" => slip'[i] = slip[i]
    BY <2>2
  <2>5. /\ \A i \in Slips : slip'[i].status = "ABSENT" => slip'[i] = NoSlip
        /\ \A i \in Slips : slip'[i].status # "ABSENT" => slip'[i].month \in Months
        /\ SlipsInARow'
        /\ \A i \in Slips : slip[i].status # "ABSENT" => slip'[i].status # "ABSENT"
    BY <2>2, <2>4, SlipsWritten
  <2>6. TypeOK' /\ AbsentOK' /\ RowsGrow
    BY <2>1, <2>2, <2>3, <2>5 DEF TInv, TypeOK, AbsentOK, RowsGrow
  <2>7. PointersOK'
    <3>1. \A k \in Holds : hold'[k].slip # 0 => slip'[hold'[k].slip].status # "ABSENT"
      BY <2>2, <2>3, <2>5 DEF TInv, TypeOK, HoldRow, PointersOK
    <3> QED BY <2>1, <2>5, <3>1 DEF TInv, TypeOK, PayoutRow, PointersOK
  <2>8. RowsOK'
    BY <2>5, <2>6, <2>7 DEF RowsOK
  <2> QED BY <1>8, <2>6, <2>8, EndStep DEF CommitHold
<1>9. ASSUME UNCHANGED workload, NEW s \in Sessions, CommitRelease(s) \/ CommitDisburse(s) PROVE TInv'
  <2>1. UNCHANGED <<loan, payout, debt, slip, overlapped, workload>> /\ End(s)
    BY <1>9 DEF CommitRelease, CommitDisburse, End
  <2>2. /\ hold' \in [Holds -> HoldRow]
        /\ \A h \in Holds : /\ hold'[h].status = "ABSENT" => hold[h].status = "ABSENT" /\ hold'[h] = hold[h]
                            /\ hold'[h].slip = hold[h].slip \/ hold'[h].slip = 0
    BY <1>9, ReleaseRow
  <2>3. RowsOK' /\ RowsGrow
    BY <2>1, <2>2, HoldsWritten
  <2> QED BY <2>1, <2>3, EndStep
<1>10. ASSUME UNCHANGED workload, NEW l \in Loans, RequestLoan(l) PROVE TInv'
  <2> DEFINE row == [NoLoan EXCEPT !.status = "PENDING", !.remaining = Amount[l]]
  <2>1. row \in LoanRow /\ row.status # "ABSENT"
    BY PayrollAssumption DEF NoLoan, LoanRow
  <2>2. loan' = [loan EXCEPT ![l] = row] /\ loan \in [Loans -> LoanRow]
        /\ UNCHANGED <<payout, debt, slip, hold, overlapped, workload>> /\ UNCHANGED session
    BY <1>10 DEF RequestLoan, TInv, TypeOK
  <2> HIDE DEF row
  <2>3. /\ loan' \in [Loans -> LoanRow]
        /\ \A k \in Loans : loan'[k].status = "ABSENT" => loan[k].status = "ABSENT" /\ loan'[k] = loan[k]
    BY <2>1, <2>2
  <2>4. RowsOK' /\ RowsGrow
    BY <2>2, <2>3, LoansWritten
  <2> QED BY <2>2, <2>4, OutsideStep
<1>11. ASSUME UNCHANGED workload, NEW h \in Holds, NEW amount \in HoldAmounts, CreateHold(h, amount) PROVE TInv'
  <2> DEFINE row == [NoHold EXCEPT !.status = "HELD", !.amount = amount]
  <2>1. row \in HoldRow /\ row.status # "ABSENT" /\ row.slip = 0
    BY PayrollAssumption DEF NoHold, HoldRow
  <2>2. hold' = [hold EXCEPT ![h] = row] /\ hold \in [Holds -> HoldRow]
        /\ UNCHANGED <<loan, payout, debt, slip, overlapped, workload>> /\ UNCHANGED session
    BY <1>11 DEF CreateHold, TInv, TypeOK
  <2> HIDE DEF row
  <2>3. /\ hold' \in [Holds -> HoldRow]
        /\ \A k \in Holds : /\ hold'[k].status = "ABSENT" => hold[k].status = "ABSENT" /\ hold'[k] = hold[k]
                            /\ hold'[k].slip = hold[k].slip \/ hold'[k].slip = 0
    BY <2>1, <2>2
  <2>4. RowsOK' /\ RowsGrow
    BY <2>2, <2>3, HoldsWritten
  <2> QED BY <2>2, <2>4, OutsideStep
<1>12. ASSUME UNCHANGED workload, NEW i \in Slips, MarkPaid(i) PROVE TInv'
  <2>1. slip' = [slip EXCEPT ![i].status = "PAID"] /\ slip \in [Slips -> SlipRow]
        /\ slip[i].status = "PENDING" /\ slip[i] \in SlipRow
        /\ UNCHANGED <<loan, payout, debt, hold, overlapped, workload>> /\ UNCHANGED session
    BY <1>12 DEF MarkPaid, TInv, TypeOK
  <2>2. slip'[i] = [slip[i] EXCEPT !.status = "PAID"] /\ \A j \in Slips : j # i => slip'[j] = slip[j]
    BY <2>1
  <2>3. slip'[i] \in SlipRow /\ slip'[i].status = "PAID" /\ slip'[i].month = slip[i].month
    BY <2>1, <2>2 DEF SlipRow
  <2>4. slip' \in [Slips -> SlipRow]
    BY <2>1, <2>2, <2>3
  <2>5. \A j \in Slips : /\ slip'[j].status = "ABSENT" <=> slip[j].status = "ABSENT"
                         /\ slip'[j].month = slip[j].month
                         /\ slip[j].status = "ABSENT" => slip'[j] = slip[j]
    BY <2>1, <2>2, <2>3
  <2>6. /\ \A j \in Slips : slip'[j].status = "ABSENT" => slip'[j] = NoSlip
        /\ \A j \in Slips : slip'[j].status # "ABSENT" => slip'[j].month \in Months
        /\ SlipsInARow'
        /\ \A j \in Slips : slip[j].status # "ABSENT" => slip'[j].status # "ABSENT"
    BY <2>4, <2>5, SlipsWritten
  <2>7. TypeOK' /\ AbsentOK' /\ RowsGrow
    BY <2>1, <2>4, <2>6 DEF TInv, TypeOK, AbsentOK, RowsGrow
  <2>8. PointersOK'
    BY <2>1, <2>6 DEF TInv, TypeOK, PayoutRow, HoldRow, PointersOK
  <2>9. RowsOK'
    BY <2>6, <2>7, <2>8 DEF RowsOK
  <2> QED BY <2>1, <2>7, <2>9, OutsideStep
<1>13. ASSUME UNCHANGED workload, NEW p \in Payouts, PayoutReleased(p) PROVE TInv'
  <2>1. payout' = [payout EXCEPT ![p].status = "RELEASED"] /\ payout \in [Payouts -> PayoutRow]
        /\ payout[p].status = "NONE" /\ payout[p] \in PayoutRow
        /\ UNCHANGED <<loan, debt, slip, hold, overlapped, workload>> /\ UNCHANGED session
    BY <1>13 DEF PayoutReleased, TInv, TypeOK
  <2>2. payout'[p] = [payout[p] EXCEPT !.status = "RELEASED"] /\ \A q \in Payouts : q # p => payout'[q] = payout[q]
    BY <2>1
  <2>3. payout'[p] \in PayoutRow /\ payout'[p].slip = payout[p].slip
    BY <2>1, <2>2 DEF PayoutRow
  <2>4. payout' \in [Payouts -> PayoutRow]
    BY <2>1, <2>2, <2>3
  <2>5. TypeOK' /\ AbsentOK' /\ SlipsInARow' /\ RowsGrow
    BY <2>1, <2>4 DEF TInv, TypeOK, AbsentOK, SlipsInARow, RowsGrow
  <2>6. payout[p].slip = 0
    BY <2>1 DEF TInv, PointersOK
  <2>7. PointersOK'
    BY <2>1, <2>2, <2>3, <2>6 DEF TInv, PointersOK
  <2> QED BY <2>1, <2>5, <2>7, OutsideStep DEF RowsOK
<1>14. ASSUME UNCHANGED workload, NEW d \in Debts, DebtChanges(d) PROVE TInv'
  <2>1. debt' = d /\ UNCHANGED <<loan, payout, slip, hold, overlapped, workload>> /\ UNCHANGED session
    BY <1>14 DEF DebtChanges
  <2>2. RowsOK' /\ RowsGrow
    BY <2>1 DEF TInv, RowsOK, RowsGrow, TypeOK, AbsentOK, SlipsInARow, PointersOK
  <2> QED BY <2>1, <2>2, OutsideStep
<1>15. CASE Next
  <2>1. Step /\ UNCHANGED workload
    BY <1>15 DEF Next
  <2> QED
    BY <2>1, <1>2, <1>3, <1>4, <1>5, <1>6, <1>7, <1>8, <1>9, <1>10, <1>11, <1>12, <1>13, <1>14,
       BeginDecideT, BeginDeductT, BeginPayrollT, BeginRecalcT, BeginHoldT, BeginReleaseT
       DEF Step
<1> QED BY <1>1, <1>15

\* Every row keeps its type and no amount of a loan, a hold or a payslip becomes
\* negative, however requests overlap (payroll.service.ts, loans.service.ts,
\* debt-holds.service.ts).
THEOREM TypeCorrect == Spec => []TypeOK
<1>1. TInv => TypeOK
  BY DEF TInv
<1> QED BY <1>1, TInvInit, TInvNext, PTL DEF Spec

-----------------------------------------------------------------------------
(* Requests that do not overlap *)

\* A session that ends: while requests do not overlap, none is left.
LEMMA EndAlone ==
    ASSUME TInv, AloneInv, NEW s \in Sessions, Active(s), End(s)
    PROVE  AloneInv'
<1> SUFFICES ASSUME ~overlapped' PROVE Alone' /\ \A r \in Sessions : Known(r)'
  BY DEF AloneInv
<1>1. ~overlapped /\ Alone
  BY DEF End, AloneInv
<1>2. ASSUME NEW r \in Sessions PROVE session'[r].op = "idle"
  <2>1. CASE r = s
    BY <2>1, IdleFields DEF End, TInv
  <2>2. CASE r # s
    <3>1. session'[r] = session[r]
      BY <2>2 DEF End, TInv
    <3> QED BY <1>1, <2>2, <3>1 DEF Alone, Active
  <2> QED BY <2>1, <2>2
<1> QED BY <1>2 DEF Alone, Active, Known

\* A session that begins: while requests do not overlap, it is the only one.
LEMMA BeginAlone ==
    ASSUME TInv, AloneInv, NEW s \in Sessions, NEW op, NEW request, Begin(s, op, request), Known(s)'
    PROVE  AloneInv'
<1> SUFFICES ASSUME ~overlapped' PROVE Alone' /\ \A r \in Sessions : Known(r)'
  BY DEF AloneInv
<1>1. \A r \in Sessions : ~Active(r)
  BY DEF Begin
<1>2. ASSUME NEW r \in Sessions, r # s PROVE session'[r].op = "idle"
  <2>1. session'[r] = session[r]
    BY <1>2 DEF Begin, TInv
  <2> QED BY <1>1, <2>1 DEF Active
<1>3. \A r \in Sessions : r # s => Known(r)'
  BY <1>2 DEF Known
<1> QED BY <1>2, <1>3 DEF Alone, Active

\* A step outside of the requests leaves what they have read.
LEMMA OutsideAlone ==
    ASSUME TInv, AloneInv, UNCHANGED <<session, overlapped>>,
           \A s \in Sessions : Known(s) => Known(s)'
    PROVE  AloneInv'
BY DEF AloneInv, Alone, Active

\* Initially no request runs.
LEMMA AloneInit == Init => AloneInv
<1> SUFFICES ASSUME Init PROVE AloneInv
  OBVIOUS
<1>1. \A s \in Sessions : session[s].op = "idle"
  BY IdleFields DEF Init
<1> QED BY <1>1 DEF AloneInv, Alone, Active, Known

\* What a request has read stays so until it writes, as long as it runs alone.
LEMMA AloneNext == TInv /\ AloneInv /\ [Next]_vars => AloneInv'
<1> SUFFICES ASSUME TInv, AloneInv, [Next]_vars PROVE AloneInv'
  OBVIOUS
<1>1. CASE UNCHANGED vars
  <2>1. UNCHANGED <<session, overlapped>> /\ UNCHANGED <<loan, slip, hold, payout>>
    BY <1>1 DEF vars, rows
  <2>2. \A s \in Sessions : Known(s) => Known(s)'
    BY <2>1 DEF Known, ReleasedPayouts
  <2> QED BY <2>1, <2>2, OutsideAlone
<1>2. ASSUME NEW s \in Sessions,
             \/ Rollback(s) \/ CommitDecide(s) \/ CommitDeduct(s) \/ CommitRecalc(s)
             \/ CommitRelease(s) \/ CommitDisburse(s)
             \/ \E i \in Slips, new \in Holds \cup {0} : CommitPayroll(s, i, new)
             \/ \E h \in Holds : CommitHold(s, h)
      PROVE  AloneInv'
  <2>1. Active(s) /\ End(s)
    BY <1>2 DEF Rollback, CommitDecide, CommitDeduct, CommitRecalc, CommitRelease, CommitDisburse,
                CommitPayroll, CommitHold, At, Active
  <2> QED BY <2>1, EndAlone
<1>3. ASSUME UNCHANGED workload, NEW s \in Sessions, NEW l \in Loans, NEW verdict \in {"ACTIVE", "REJECTED"},
             BeginDecide(s, l, verdict)
      PROVE  AloneInv'
  <2>1. session'[s].op = "loan"
    BY <1>3, BeginDecideT
  <2>2. Known(s)'
    BY <2>1 DEF Known
  <2> QED BY <1>3, <2>2, BeginAlone DEF BeginDecide
<1>4. ASSUME UNCHANGED workload, NEW s \in Sessions, NEW l \in Loans, NEW amount \in PayDowns,
             BeginDeduct(s, l, amount)
      PROVE  AloneInv'
  <2>1. /\ session'[s].op = "deduct"
        /\ \A k \in Loans : session'[s].loans[k] # NoLoan => session'[s].loans[k] = loan[k]
    BY <1>4, BeginDeductT
  <2>2. UNCHANGED loan
    BY <1>4 DEF BeginDeduct, Begin, rows
  <2>3. Known(s)'
    BY <2>1, <2>2 DEF Known
  <2> QED BY <1>4, <2>3, BeginAlone DEF BeginDeduct
<1>5. ASSUME UNCHANGED workload, NEW s \in Sessions, NEW month \in Months, BeginPayroll(s, month)
      PROVE  AloneInv'
  <2>1. /\ session'[s].op = "payroll" /\ session'[s].holds = Idle.holds /\ session'[s].cut = {}
        /\ \A k \in Loans : session'[s].loans[k] # NoLoan =>
                session'[s].loans[k] = loan[k] /\ loan[k].last # session'[s].month
    BY <1>5, BeginPayrollT
  <2>2. UNCHANGED loan
    BY <1>5 DEF BeginPayroll, Begin, rows
  <2>3. \A h \in Holds : session'[s].holds[h].status = "ABSENT"
    BY <2>1, IdleFields DEF NoHold
  <2>4. Known(s)'
    BY <2>1, <2>2, <2>3 DEF Known
  <2> QED BY <1>5, <2>4, BeginAlone DEF BeginPayroll
<1>6. ASSUME UNCHANGED workload, NEW s \in Sessions, NEW i \in Slips, BeginRecalc(s, i)
      PROVE  AloneInv'
  <2>1. /\ session'[s].op = "recalc" /\ session'[s].id = i /\ session'[s].slip = slip[i]
        /\ \A k \in Loans : session'[s].loans[k] # NoLoan =>
                session'[s].loans[k] = loan[k] /\ loan[k].last = NoMonth
    BY <1>6, BeginRecalcT
  <2>2. UNCHANGED <<loan, slip>>
    BY <1>6 DEF BeginRecalc, Begin, rows
  <2>3. Known(s)'
    BY <2>1, <2>2 DEF Known
  <2> QED BY <1>6, <2>3, BeginAlone DEF BeginRecalc
<1>7. ASSUME UNCHANGED workload, NEW s \in Sessions, NEW i \in Slips, NEW amount \in HoldAmounts,
             BeginHold(s, i, amount)
      PROVE  AloneInv'
  <2>1. session'[s].op = "hold" /\ session'[s].id = i /\ session'[s].slip = slip[i]
    BY <1>7, BeginHoldT
  <2>2. UNCHANGED slip
    BY <1>7 DEF BeginHold, Begin, rows
  <2>3. Known(s)'
    BY <2>1, <2>2 DEF Known
  <2> QED BY <1>7, <2>3, BeginAlone DEF BeginHold
<1>8. ASSUME UNCHANGED workload, NEW s \in Sessions, NEW h \in Holds, BeginRelease(s, h) \/ BeginDisburse(s, h)
      PROVE  AloneInv'
  <2>1. session'[s].op \in {"release", "disburse"}
    BY <1>8, BeginReleaseT
  <2>2. Known(s)'
    BY <2>1 DEF Known
  <2> QED BY <1>8, <2>2, BeginAlone DEF BeginRelease, BeginDisburse
<1>9. ASSUME NEW s \in Sessions, NEW cut \in SUBSET Payouts, LockLoans(s, cut)
      PROVE  AloneInv'
  <2>1. UNCHANGED <<loan, slip, hold, payout, overlapped>> /\ cut \subseteq ReleasedPayouts
        /\ session[s].op = "payroll"
    BY <1>9 DEF LockLoans, rows, At
  <2>2. /\ session'[s].op = session[s].op /\ session'[s].loans = session[s].loans
        /\ session'[s].month = session[s].month
        /\ session'[s].cut = cut /\ session'[s].holds = hold
        /\ \A r \in Sessions : r # s => session'[r] = session[r]
    BY <1>9, LockRow
  <2>3. Known(s) => Known(s)'
    BY <2>1, <2>2 DEF Known, ReleasedPayouts
  <2>4. \A r \in Sessions : r # s /\ Known(r) => Known(r)'
    BY <2>1, <2>2 DEF Known, ReleasedPayouts
  <2>5. \A r \in Sessions : Active(r)' <=> Active(r)
    BY <2>2 DEF Active
  <2> QED BY <2>1, <2>3, <2>4, <2>5 DEF AloneInv, Alone
<1>10. ASSUME NEW l \in Loans, RequestLoan(l) PROVE AloneInv'
  <2>1. UNCHANGED <<session, overlapped>> /\ UNCHANGED <<slip, hold, payout>>
        /\ loan[l].status = "ABSENT" /\ \A k \in Loans : k # l => loan'[k] = loan[k]
    BY <1>10 DEF RequestLoan, TInv, TypeOK
  <2>2. \A s \in Sessions : session[s].loans[l] = NoLoan
    BY <2>1 DEF TInv, RefsOK
  <2>3. \A s \in Sessions : Known(s) => Known(s)'
    BY <2>1, <2>2 DEF Known, ReleasedPayouts
  <2> QED BY <2>1, <2>3, OutsideAlone
<1>11. ASSUME NEW h \in Holds, NEW amount \in HoldAmounts, CreateHold(h, amount) PROVE AloneInv'
  <2>1. UNCHANGED <<session, overlapped>> /\ UNCHANGED <<loan, slip, payout>>
        /\ hold[h].status = "ABSENT" /\ \A k \in Holds : k # h => hold'[k] = hold[k]
    BY <1>11, NextFree DEF CreateHold, TInv, TypeOK
  <2>2. \A s \in Sessions : session[s].holds[h].status = "ABSENT"
    BY <2>1 DEF TInv, RefsOK
  <2>3. \A s \in Sessions : Known(s) => Known(s)'
    BY <2>1, <2>2 DEF Known, ReleasedPayouts
  <2> QED BY <2>1, <2>3, OutsideAlone
<1>12. ASSUME NEW i \in Slips, MarkPaid(i) PROVE AloneInv'
  <2>1. UNCHANGED <<session, overlapped>> /\ UNCHANGED <<loan, hold, payout>>
        /\ slip' = [slip EXCEPT ![i].status = "PAID"] /\ slip \in [Slips -> SlipRow] /\ slip[i] \in SlipRow
    BY <1>12 DEF MarkPaid, TInv, TypeOK
  <2>2. slip'[i] = [slip[i] EXCEPT !.status = "PAID"] /\ \A j \in Slips : j # i => slip'[j] = slip[j]
    BY <2>1
  <2>3. slip'[i].month = slip[i].month /\ slip'[i].loan = slip[i].loan /\ slip'[i].hold = slip[i].hold
    BY <2>1, <2>2 DEF SlipRow
  <2>4. \A s \in Sessions : session[s].op \in {"hold", "recalc"} => session[s].id \in Slips
    BY DEF TInv, RefsOK
  <2>5. \A j \in Slips : slip'[j].month = slip[j].month /\ slip'[j].loan = slip[j].loan /\ slip'[j].hold = slip[j].hold
    BY <2>2, <2>3
  <2>6. \A s \in Sessions : Known(s) => Known(s)'
    BY <2>1, <2>4, <2>5 DEF Known, ReleasedPayouts
  <2> QED BY <2>1, <2>6, OutsideAlone
<1>13. ASSUME NEW p \in Payouts, PayoutReleased(p) PROVE AloneInv'
  <2>1. UNCHANGED <<session, overlapped>> /\ UNCHANGED <<loan, slip, hold>>
        /\ payout' = [payout EXCEPT ![p].status = "RELEASED"] /\ payout[p].status = "NONE"
        /\ payout \in [Payouts -> PayoutRow]
    BY <1>13 DEF PayoutReleased, TInv, TypeOK
  <2>2. ReleasedPayouts \subseteq ReleasedPayouts'
    BY <2>1 DEF ReleasedPayouts
  <2>3. \A s \in Sessions : Known(s) => Known(s)'
    BY <2>1, <2>2 DEF Known
  <2> QED BY <2>1, <2>3, OutsideAlone
<1>14. ASSUME NEW d \in Debts, DebtChanges(d) PROVE AloneInv'
  <2>1. UNCHANGED <<session, overlapped>> /\ UNCHANGED <<loan, slip, hold, payout>>
    BY <1>14 DEF DebtChanges
  <2>2. \A s \in Sessions : Known(s) => Known(s)'
    BY <2>1 DEF Known, ReleasedPayouts
  <2> QED BY <2>1, <2>2, OutsideAlone
<1>15. CASE Next
  <2>1. Step /\ UNCHANGED workload
    BY <1>15 DEF Next
  <2> QED
    BY <2>1, <1>2, <1>3, <1>4, <1>5, <1>6, <1>7, <1>8, <1>9, <1>10, <1>11, <1>12, <1>13, <1>14 DEF Step
<1> QED BY <1>1, <1>15

-----------------------------------------------------------------------------
(* What a step leaves alone *)

\* What was lent on a loan and is not owed any more, nor was deducted by hand.
Spent == [l \in Loans |-> IF loan[l].status = "ABSENT" THEN 0
                          ELSE Amount[l] - loan[l].remaining - loan[l].trail]

CommissionCalm ==
    /\ \A i \in Slips : slip'[i].commission = slip[i].commission
    /\ \A p \in Payouts : payout'[p].slip = payout[p].slip

HoldsCalm ==
    /\ \A i \in Slips : slip'[i].hold = slip[i].hold
    /\ \A h \in Holds : /\ hold'[h].slip = hold[h].slip
                        /\ hold[h].slip # 0 => hold'[h].amount = hold[h].amount

LoansCalm ==
    /\ \A i \in Slips : /\ slip'[i].status = "ABSENT" <=> slip[i].status = "ABSENT"
                        /\ slip'[i].month = slip[i].month /\ slip'[i].loan = slip[i].loan
    /\ \A l \in Loans : loan'[l].last = loan[l].last
    /\ ~overlapped' => Spent' = Spent

SomePayroll == \E s \in Sessions, i \in Slips, new \in Holds \cup {0} : CommitPayroll(s, i, new)
SomeRecalc == \E s \in Sessions : CommitRecalc(s)
SomeHold == \E s \in Sessions, h \in Holds : CommitHold(s, h)

\* An action that writes no loan, no payslip and no hold's amount or payslip.
LEMMA CalmRows ==
    ASSUME TInv, UNCHANGED <<loan, slip>>,
           \A p \in Payouts : payout'[p].slip = payout[p].slip,
           \A h \in Holds : hold'[h].slip = hold[h].slip /\ (hold[h].slip # 0 => hold'[h].amount = hold[h].amount)
    PROVE  CommissionCalm /\ HoldsCalm /\ LoansCalm
BY DEF CommissionCalm, HoldsCalm, LoansCalm, Spent

\* An action that writes loans only, and keeps what was spent.
LEMMA CalmLoanRows ==
    ASSUME TInv, UNCHANGED <<payout, slip, hold>>,
           \A l \in Loans : loan'[l].last = loan[l].last,
           ~overlapped' => \A l \in Loans : Spent'[l] = Spent[l]
    PROVE  CommissionCalm /\ HoldsCalm /\ LoansCalm
<1>1. Spent = [l \in Loans |-> Spent[l]] /\ Spent' = [l \in Loans |-> Spent'[l]]
  BY DEF Spent
<1>2. ~overlapped' => Spent' = Spent
  <2> SUFFICES ASSUME ~overlapped', \A l \in Loans : Spent'[l] = Spent[l] PROVE Spent' = Spent
    OBVIOUS
  <2>1. [l \in Loans |-> Spent'[l]] = [l \in Loans |-> Spent[l]]
    OBVIOUS
  <2> QED BY <1>1, <2>1
<1> QED BY <1>2 DEF CommissionCalm, HoldsCalm, LoansCalm

\* Only payroll create, recalcLoanDeduction and createManualHold change the sums.
LEMMA Calm ==
    ASSUME TInv, AloneInv, [Next]_vars
    PROVE  /\ overlapped => overlapped'
           /\ CommissionCalm \/ SomePayroll
           /\ HoldsCalm \/ SomePayroll \/ SomeHold
           /\ LoansCalm \/ SomePayroll \/ SomeRecalc
<1> DEFINE Goal == /\ overlapped => overlapped'
                   /\ CommissionCalm \/ SomePayroll
                   /\ HoldsCalm \/ SomePayroll \/ SomeHold
                   /\ LoansCalm \/ SomePayroll \/ SomeRecalc
<1>1. CASE UNCHANGED vars
  <2>1. UNCHANGED <<loan, slip, payout, hold, overlapped>>
    BY <1>1 DEF vars, rows
  <2> QED BY <2>1, CalmRows
<1>2. ASSUME NEW s \in Sessions, NEW op, NEW request, Begin(s, op, request) PROVE Goal
  <2>1. UNCHANGED <<loan, slip, payout, hold>>
    BY <1>2 DEF Begin, rows
  <2>2. overlapped => overlapped'
    BY <1>2, Zenon DEF Begin
  <2> QED BY <2>1, <2>2, CalmRows
<1>3. ASSUME NEW s \in Sessions, Rollback(s) \/ \E cut \in SUBSET Payouts : LockLoans(s, cut) PROVE Goal
  <2>1. CASE Rollback(s)
    <3>1. UNCHANGED <<loan, slip, payout, hold, overlapped>>
      BY <2>1 DEF Rollback, End, rows
    <3> QED BY <3>1, CalmRows
  <2>2. ASSUME NEW cut \in SUBSET Payouts, LockLoans(s, cut) PROVE Goal
    <3>1. UNCHANGED <<loan, slip, payout, hold, overlapped>>
      BY <2>2 DEF LockLoans, rows
    <3> QED BY <3>1, CalmRows
  <2> QED BY <1>3, <2>1, <2>2
<1>4. ASSUME NEW s \in Sessions, CommitDecide(s) PROVE Goal
  <2>1. UNCHANGED <<payout, slip, hold, overlapped>>
    BY <1>4 DEF CommitDecide, End
  <2>2. \A l \in Loans : /\ loan'[l].status = "ABSENT" <=> loan[l].status = "ABSENT"
                         /\ loan'[l].remaining = loan[l].remaining
                         /\ loan'[l].last = loan[l].last /\ loan'[l].trail = loan[l].trail
    BY <1>4, DecideRow
  <2>3. \A l \in Loans : Spent'[l] = Spent[l]
    BY <2>2 DEF Spent
  <2> QED BY <2>1, <2>2, <2>3, CalmLoanRows
<1>5. ASSUME NEW s \in Sessions, CommitDeduct(s) PROVE Goal
  <2>1. UNCHANGED <<payout, slip, hold, overlapped>> /\ session[s].op = "deduct"
    BY <1>5 DEF CommitDeduct, End, At
  <2>2. /\ loan' \in [Loans -> LoanRow]
        /\ \A l \in Loans : session[s].loans[l] = NoLoan => loan'[l] = loan[l]
        /\ \A l \in Loans : session[s].loans[l] # NoLoan =>
                /\ loan'[l].status # "ABSENT" /\ loan'[l].last = loan[l].last
                /\ loan'[l].remaining + loan'[l].trail
                   = session[s].loans[l].remaining + session[s].loans[l].trail
    BY <1>5, DeductRow
  <2>3. ASSUME ~overlapped', NEW l \in Loans PROVE Spent'[l] = Spent[l]
    <3>1. CASE session[s].loans[l] = NoLoan
      BY <2>2, <3>1 DEF Spent
    <3>2. CASE session[s].loans[l] # NoLoan
      <4>1. session[s].loans[l] = loan[l] /\ loan[l].status # "ABSENT"
        BY <2>1, <2>3, <3>2 DEF AloneInv, Known, TInv, RefsOK
      <4>2. loan'[l].remaining + loan'[l].trail = loan[l].remaining + loan[l].trail
            /\ loan'[l].status # "ABSENT"
        BY <2>2, <3>2, <4>1
      <4>3. /\ loan'[l].remaining \in Nat /\ loan'[l].trail \in Nat /\ Amount[l] \in Nat
            /\ loan[l].remaining \in Nat /\ loan[l].trail \in Nat
        BY <2>2, PayrollAssumption DEF TInv, TypeOK, LoanRow
      <4>4. Spent[l] = Amount[l] - loan[l].remaining - loan[l].trail
            /\ Spent'[l] = Amount[l] - loan'[l].remaining - loan'[l].trail
        BY <4>1, <4>2 DEF Spent
      <4> QED BY <4>2, <4>3, <4>4
    <3> QED BY <3>1, <3>2
  <2>4. \A l \in Loans : loan'[l].last = loan[l].last
    BY <2>2
  <2> QED BY <2>1, <2>3, <2>4, CalmLoanRows
<1>6. ASSUME NEW s \in Sessions, CommitRelease(s) \/ CommitDisburse(s) PROVE Goal
  <2>1. UNCHANGED <<loan, slip, payout, overlapped>>
    BY <1>6 DEF CommitRelease, CommitDisburse, End
  <2>2. \A h \in Holds : hold'[h].slip = hold[h].slip /\ hold'[h].amount = hold[h].amount
    BY <1>6, ReleaseRow
  <2> QED BY <2>1, <2>2, CalmRows
<1>7. ASSUME NEW l \in Loans, RequestLoan(l) PROVE Goal
  <2>1. UNCHANGED <<payout, slip, hold, overlapped>> /\ loan[l].status = "ABSENT" /\ loan \in [Loans -> LoanRow]
        /\ loan' = [loan EXCEPT ![l] = [NoLoan EXCEPT !.status = "PENDING", !.remaining = Amount[l]]]
    BY <1>7 DEF RequestLoan, TInv, TypeOK
  <2>2. loan[l] = NoLoan /\ Amount[l] \in Nat
    BY <2>1, PayrollAssumption DEF TInv, AbsentOK
  <2>3. loan'[l].last = NoMonth /\ loan'[l].status = "PENDING" /\ loan'[l].remaining = Amount[l]
        /\ loan'[l].trail = 0 /\ loan[l].last = NoMonth
    BY <2>1, <2>2 DEF NoLoan
  <2>4. \A k \in Loans : k # l => loan'[k] = loan[k]
    BY <2>1
  <2>5. \A k \in Loans : loan'[k].last = loan[k].last
    BY <2>3, <2>4
  <2>6. Spent[l] = 0 /\ Spent'[l] = Amount[l] - Amount[l] - 0
    BY <2>1, <2>3 DEF Spent
  <2>7. \A k \in Loans : Spent'[k] = Spent[k]
    BY <2>2, <2>4, <2>6 DEF Spent
  <2> QED BY <2>1, <2>5, <2>7, CalmLoanRows
<1>8. ASSUME NEW h \in Holds, NEW amount \in HoldAmounts, CreateHold(h, amount) PROVE Goal
  <2>1. UNCHANGED <<loan, slip, payout, overlapped>> /\ hold[h].status = "ABSENT"
        /\ hold' = [hold EXCEPT ![h] = [NoHold EXCEPT !.status = "HELD", !.amount = amount]]
        /\ hold \in [Holds -> HoldRow]
    BY <1>8, NextFree DEF CreateHold, TInv, TypeOK
  <2>2. hold[h].slip = 0 /\ hold'[h].slip = 0
    BY <2>1 DEF TInv, AbsentOK, NoHold
  <2>3. \A k \in Holds : k # h => hold'[k] = hold[k]
    BY <2>1
  <2> QED BY <2>1, <2>2, <2>3, CalmRows
<1>9. ASSUME NEW i \in Slips, MarkPaid(i) PROVE Goal
  <2>1. UNCHANGED <<loan, hold, payout, overlapped>> /\ slip[i].status = "PENDING"
        /\ slip' = [slip EXCEPT ![i].status = "PAID"] /\ slip \in [Slips -> SlipRow] /\ slip[i] \in SlipRow
    BY <1>9 DEF MarkPaid, TInv, TypeOK
  <2>2. slip'[i] = [slip[i] EXCEPT !.status = "PAID"] /\ \A j \in Slips : j # i => slip'[j] = slip[j]
    BY <2>1
  <2>3. slip'[i].month = slip[i].month /\ slip'[i].loan = slip[i].loan /\ slip'[i].hold = slip[i].hold
        /\ slip'[i].commission = slip[i].commission /\ slip'[i].status = "PAID"
    BY <2>1, <2>2 DEF SlipRow
  <2> QED BY <2>1, <2>2, <2>3 DEF CommissionCalm, HoldsCalm, LoansCalm, Spent
<1>10. ASSUME NEW p \in Payouts, PayoutReleased(p) PROVE Goal
  <2>1. UNCHANGED <<loan, slip, hold, overlapped>> /\ payout \in [Payouts -> PayoutRow] /\ payout[p] \in PayoutRow
        /\ payout' = [payout EXCEPT ![p].status = "RELEASED"]
    BY <1>10 DEF PayoutReleased, TInv, TypeOK
  <2>2. payout'[p] = [payout[p] EXCEPT !.status = "RELEASED"] /\ \A q \in Payouts : q # p => payout'[q] = payout[q]
    BY <2>1
  <2>3. payout'[p].slip = payout[p].slip
    BY <2>1, <2>2 DEF PayoutRow
  <2> QED BY <2>1, <2>2, <2>3, CalmRows
<1>11. ASSUME NEW d \in Debts, DebtChanges(d) PROVE Goal
  <2>1. UNCHANGED <<loan, slip, payout, hold, overlapped>>
    BY <1>11 DEF DebtChanges
  <2> QED BY <2>1, CalmRows
<1>12. ASSUME NEW s \in Sessions, CommitRecalc(s) PROVE Goal
  <2>1. UNCHANGED <<payout, hold, overlapped>>
    BY <1>12 DEF CommitRecalc, End
  <2>2. \A j \in Slips : slip'[j].commission = slip[j].commission /\ slip'[j].hold = slip[j].hold
    BY <1>12, RecalcRow
  <2> QED BY <1>12, <2>1, <2>2 DEF CommissionCalm, HoldsCalm, SomeRecalc
<1>13. ASSUME NEW s \in Sessions, NEW h \in Holds, CommitHold(s, h) PROVE Goal
  <2>1. UNCHANGED <<loan, payout, overlapped>>
    BY <1>13 DEF CommitHold, End
  <2>2. \A j \in Slips : /\ slip'[j].status = slip[j].status /\ slip'[j].month = slip[j].month
                         /\ slip'[j].commission = slip[j].commission /\ slip'[j].loan = slip[j].loan
    BY <1>13, HoldCommitRow
  <2>3. CommissionCalm /\ LoansCalm
    BY <2>1, <2>2 DEF CommissionCalm, LoansCalm, Spent
  <2> QED BY <1>13, <2>1, <2>3 DEF SomeHold
<1>14. ASSUME NEW s \in Sessions, NEW i \in Slips, NEW new \in Holds \cup {0}, CommitPayroll(s, i, new) PROVE Goal
  <2>1. overlapped' = overlapped
    BY <1>14 DEF CommitPayroll, End
  <2> QED BY <1>14, <2>1 DEF SomePayroll
<1>15. CASE Next
  <2>1. Step
    BY <1>15 DEF Next
  <2> QED
    BY <2>1, <1>2, <1>3, <1>4, <1>5, <1>6, <1>7, <1>8, <1>9, <1>10, <1>11, <1>12, <1>13, <1>14
       DEF Step, BeginDecide, BeginDeduct, BeginPayroll, BeginRecalc, BeginHold, BeginRelease, BeginDisburse
<1> QED BY <1>1, <1>15

-----------------------------------------------------------------------------
(* Commission and holds on the payslip *)

\* A calm step leaves the payouts of every payslip.
LEMMA CommissionKept ==
    ASSUME TInv, CommissionOnPayslip, CommissionCalm, overlapped => overlapped'
    PROVE  CommissionOnPayslip'
<1>1. \A i \in Slips : PaidWith(i)' = PaidWith(i)
  BY DEF CommissionCalm, PaidWith
<1>2. \A i \in Slips : slip'[i].commission = slip[i].commission
  BY DEF CommissionCalm
<1> SUFFICES ASSUME NEW i \in Slips
             PROVE  /\ slip'[i].commission >= SumFunctionOnSet(Commission, PaidWith(i)')
                    /\ ~overlapped' => slip'[i].commission = SumFunctionOnSet(Commission, PaidWith(i)')
  BY DEF CommissionOnPayslip
<1>3. /\ slip[i].commission >= SumFunctionOnSet(Commission, PaidWith(i))
      /\ ~overlapped => slip[i].commission = SumFunctionOnSet(Commission, PaidWith(i))
  BY DEF CommissionOnPayslip
<1> QED BY <1>1, <1>2, <1>3

\* markPaidForPayroll marks what the new payslip pays, or less if another payroll
\* was faster.
LEMMA CommissionPaid ==
    ASSUME TInv, AloneInv, CommissionOnPayslip, NEW s \in Sessions, NEW i \in Slips,
           NEW new \in Holds \cup {0}, CommitPayroll(s, i, new)
    PROVE  CommissionOnPayslip'
<1> DEFINE cut == session[s].cut
<1>1. /\ slip'[i].commission = SumFunctionOnSet(Commission, cut) /\ slip[i].status = "ABSENT"
      /\ \A j \in Slips : j # i => slip'[j] = slip[j]
  BY NewSlip
<1>2. \A p \in Payouts : IF p \in cut /\ payout[p].status = "RELEASED"
                         THEN payout'[p].status = "PAID" /\ payout'[p].slip = i
                         ELSE payout'[p] = payout[p]
  BY PaidRow
<1>3. \A p \in Payouts : /\ payout[p].status = "RELEASED" => payout[p].slip = 0
                         /\ payout[p].slip # i
  BY <1>1, Ids DEF TInv, PointersOK
<1>4. cut \in SUBSET Payouts /\ IsFiniteSet(cut) /\ \A p \in cut : Commission[p] \in Nat
  BY PayrollAssumption, FS_Subset DEF TInv, SessionRow
<1>5. UNCHANGED overlapped /\ session[s].op = "payroll"
  BY DEF CommitPayroll, End, At
<1>6. PaidWith(i)' = {p \in cut : payout[p].status = "RELEASED"}
  BY <1>2, <1>3, <1>4 DEF PaidWith
<1>7. ~overlapped => PaidWith(i)' = cut
  <2>1. ~overlapped => cut \subseteq ReleasedPayouts
    BY <1>5 DEF AloneInv, Known
  <2> QED BY <1>6, <2>1 DEF ReleasedPayouts
<1>8. SumFunctionOnSet(Commission, PaidWith(i)') <= SumFunctionOnSet(Commission, cut)
  BY <1>4, <1>6, SumSubset
<1>9. SumFunctionOnSet(Commission, cut) \in Int /\ SumFunctionOnSet(Commission, PaidWith(i)') \in Int
  <2>1. PaidWith(i)' \subseteq cut /\ IsFiniteSet(PaidWith(i)')
    BY <1>4, <1>6, FS_Subset
  <2> QED BY <1>4, <2>1, SumInt
<1>10. \A j \in Slips : j # i => PaidWith(j)' = PaidWith(j)
  <2> SUFFICES ASSUME NEW j \in Slips, j # i PROVE PaidWith(j)' = PaidWith(j)
    OBVIOUS
  <2>1. j # 0
    BY Ids
  <2>2. \A p \in Payouts : payout'[p].slip = j <=> payout[p].slip = j
    BY <1>2, <1>3, <2>1
  <2> QED BY <2>2 DEF PaidWith
<1> SUFFICES ASSUME NEW j \in Slips
             PROVE  /\ slip'[j].commission >= SumFunctionOnSet(Commission, PaidWith(j)')
                    /\ ~overlapped' => slip'[j].commission = SumFunctionOnSet(Commission, PaidWith(j)')
  BY DEF CommissionOnPayslip
<1>11. CASE j = i
  BY <1>1, <1>5, <1>7, <1>8, <1>9, <1>11
<1>12. CASE j # i
  <2>1. /\ slip[j].commission >= SumFunctionOnSet(Commission, PaidWith(j))
        /\ ~overlapped => slip[j].commission = SumFunctionOnSet(Commission, PaidWith(j))
    BY DEF CommissionOnPayslip
  <2> QED BY <1>1, <1>5, <1>10, <1>12, <2>1
<1> QED BY <1>11, <1>12

\* The holds on a payslip, and their amounts.
On(i) == {h \in Holds : hold[h].slip = i}
HoldAmount == [h \in Holds |-> hold[h].amount]

\* The sum over holds that keep their amount.
LEMMA HoldSumKept ==
    ASSUME TInv, NEW T \in SUBSET Holds, \A h \in T : hold'[h].amount = hold[h].amount
    PROVE  SumFunctionOnSet(HoldAmount', T) = SumFunctionOnSet(HoldAmount, T)
<1>1. IsFiniteSet(T)
  BY Ids, FS_Subset
<1>2. \A h \in T : HoldAmount[h] \in Int /\ HoldAmount'[h] = HoldAmount[h]
  BY DEF HoldAmount, TInv, TypeOK, HoldRow
<1> QED BY <1>1, <1>2, SumEqual

\* A calm step leaves the holds of every payslip.
LEMMA HoldsKept ==
    ASSUME TInv, HoldsOnPayslip, HoldsCalm, overlapped => overlapped'
    PROVE  HoldsOnPayslip'
<1> SUFFICES ASSUME ~overlapped', NEW i \in Slips
             PROVE  slip'[i].hold = SumFunctionOnSet(HoldAmount', On(i)')
  BY DEF HoldsOnPayslip, HoldAmount, On
<1>1. On(i)' = On(i) /\ On(i) \in SUBSET Holds
  BY DEF HoldsCalm, On
<1>2. \A h \in On(i) : hold'[h].amount = hold[h].amount
  BY Ids DEF HoldsCalm, On
<1>3. SumFunctionOnSet(HoldAmount', On(i)) = SumFunctionOnSet(HoldAmount, On(i))
  BY <1>1, <1>2, HoldSumKept
<1>4. slip[i].hold = SumFunctionOnSet(HoldAmount, On(i))
  BY DEF HoldsOnPayslip, HoldAmount, On
<1>5. slip'[i].hold = slip[i].hold
  BY DEF HoldsCalm
<1> QED BY <1>1, <1>3, <1>4, <1>5

\* createManualHold adds its hold to the payslip it has read.
LEMMA HoldAdded ==
    ASSUME TInv, TInv', AloneInv, HoldsOnPayslip, NEW s \in Sessions, NEW h \in Holds, CommitHold(s, h)
    PROVE  HoldsOnPayslip'
<1> SUFFICES ASSUME ~overlapped', NEW j \in Slips
             PROVE  slip'[j].hold = SumFunctionOnSet(HoldAmount', On(j)')
  BY DEF HoldsOnPayslip, HoldAmount, On
<1> DEFINE i == session[s].id
<1>1. /\ i \in Slips /\ slip'[i].hold = session[s].slip.hold + session[s].amount
      /\ \A k \in Slips : k # i => slip'[k] = slip[k]
      /\ hold[h].status = "ABSENT" /\ hold'[h].slip = i /\ hold'[h].amount = session[s].amount
      /\ \A k \in Holds : k # h => hold'[k] = hold[k]
  BY HoldCommitRow
<1>2. ~overlapped /\ session[s].op = "hold"
  BY DEF CommitHold, End, At
<1>3. session[s].slip.hold = slip[i].hold
  BY <1>2 DEF AloneInv, Known
<1>4. hold[h].slip = 0 /\ h \notin On(j)
  BY <1>1, Ids DEF TInv, AbsentOK, NoHold, On
<1>5. SumFunctionOnSet(HoldAmount', On(j)) = SumFunctionOnSet(HoldAmount, On(j))
  <2>1. On(j) \in SUBSET Holds /\ \A k \in On(j) : hold'[k].amount = hold[k].amount
    BY <1>1, <1>4 DEF On
  <2> QED BY <2>1, HoldSumKept
<1>6. slip[j].hold = SumFunctionOnSet(HoldAmount, On(j))
  BY <1>2 DEF HoldsOnPayslip, HoldAmount, On
<1> HIDE DEF i
<1>7. CASE j # i
  <2>1. On(j)' = On(j)
    BY <1>1, <1>4, <1>7 DEF On
  <2> QED BY <1>1, <1>5, <1>6, <1>7, <2>1
<1>8. CASE j = i
  <2>1. On(j)' = On(j) \cup {h}
    BY <1>1, <1>8 DEF On
  <2>2. IsFiniteSet(On(j)) /\ \A k \in On(j) \cup {h} : HoldAmount'[k] \in Int
    BY Ids, FS_Subset DEF On, HoldAmount, TInv, TypeOK, HoldRow
  <2>3. SumFunctionOnSet(HoldAmount', On(j) \cup {h}) = HoldAmount'[h] + SumFunctionOnSet(HoldAmount', On(j))
    BY <1>4, <2>2, SumAddElement
  <2>4. HoldAmount'[h] = session[s].amount
    BY <1>1 DEF HoldAmount
  <2>5. slip'[j].hold = slip[j].hold + session[s].amount
    BY <1>1, <1>3, <1>8
  <2>6. session[s].amount \in Int /\ slip[j].hold \in Int
    BY DEF TInv, TypeOK, SessionRow, SlipRow
  <2> QED BY <1>5, <1>6, <2>1, <2>3, <2>4, <2>5, <2>6
<1> QED BY <1>7, <1>8

\* payroll create shows the holds it ties to its payslip and the fresh one.
LEMMA HoldsTied ==
    ASSUME TInv, TInv', AloneInv, HoldsOnPayslip, NEW s \in Sessions, NEW i \in Slips,
           NEW new \in Holds \cup {0}, CommitPayroll(s, i, new)
    PROVE  HoldsOnPayslip'
<1> SUFFICES ASSUME ~overlapped', NEW j \in Slips
             PROVE  slip'[j].hold = SumFunctionOnSet(HoldAmount', On(j)')
  BY DEF HoldsOnPayslip, HoldAmount, On
<1> DEFINE auto == AutoHold(session[s].debt)
           seen == [h \in Holds |-> session[s].holds[h].amount]
           U == Untied(s)
<1>1. /\ slip[i].status = "ABSENT" /\ (new # 0 => hold[new].status = "ABSENT")
      /\ slip'[i].hold = auto + SumFunctionOnSet(seen, U)
      /\ \A k \in Slips : k # i => slip'[k] = slip[k]
  BY NewSlip
<1>2. \A h \in Holds :
        /\ hold'[h].slip = (IF h = new \/ h \in U THEN i ELSE hold[h].slip)
        /\ hold'[h].amount = (IF h = new THEN auto ELSE hold[h].amount)
  BY <1>1, HoldsOfRow DEF CommitPayroll
<1>3. ~overlapped /\ session[s].op = "payroll"
  BY DEF CommitPayroll, End, At
<1>4. \A h \in U : h \in Holds /\ session[s].holds[h].slip = 0 /\ session[s].holds[h].status = "HELD"
                   /\ hold[h].status # "ABSENT"
  BY UntiedRow
<1>5. \A h \in U : hold[h].slip = 0 /\ hold[h].amount = session[s].holds[h].amount
  <2>1. \A h \in Holds : session[s].holds[h].status # "ABSENT" =>
            session[s].holds[h].slip = hold[h].slip /\ session[s].holds[h].amount = hold[h].amount
    BY <1>3 DEF AloneInv, Known
  <2> QED BY <1>4, <2>1
<1>6. new \notin U /\ (new # 0 => hold[new].slip = 0)
  BY <1>1, <1>4, Ids DEF TInv, AbsentOK, NoHold
<1>7. \A h \in Holds : hold[h].slip # i
  BY <1>1, Ids DEF TInv, PointersOK
<1>8. slip[j].hold = SumFunctionOnSet(HoldAmount, On(j))
  BY <1>3 DEF HoldsOnPayslip, HoldAmount, On
<1>9. IF auto = 0 THEN new = 0 ELSE new \in Holds
  <2>1. IF auto = 0 THEN new = 0 ELSE new # 0
    BY DEF CommitPayroll
  <2> QED BY <2>1
<1> HIDE DEF auto, U
<1>10. CASE j # i
  <2>1. j # 0
    BY Ids
  <2>2. On(j)' = On(j)
    <3>1. \A h \in Holds : h = new \/ h \in U => hold[h].slip = 0
      BY <1>5, <1>6, Ids
    <3>2. \A h \in Holds : hold'[h].slip = j <=> hold[h].slip = j
      BY <1>2, <1>10, <2>1, <3>1
    <3> QED BY <3>2 DEF On
  <2>3. On(j) \in SUBSET Holds /\ \A h \in On(j) : hold'[h].amount = hold[h].amount
    BY <1>2, <1>6, <2>1, Ids DEF On
  <2>4. SumFunctionOnSet(HoldAmount', On(j)) = SumFunctionOnSet(HoldAmount, On(j))
    BY <2>3, HoldSumKept
  <2> QED BY <1>1, <1>8, <1>10, <2>2, <2>4
<1>11. CASE j = i
  <2>1. U \in SUBSET Holds /\ IsFiniteSet(U)
    BY <1>4, Ids, FS_Subset
  <2>2. SumFunctionOnSet(HoldAmount', U) = SumFunctionOnSet(seen, U)
    <3>1. \A h \in U : seen[h] \in Int /\ HoldAmount'[h] = seen[h]
      <4>1. \A h \in U : hold'[h].amount = hold[h].amount /\ hold[h].amount \in Int
        BY <1>2, <1>6, <2>1 DEF TInv, TypeOK, HoldRow
      <4> QED BY <1>5, <2>1, <4>1 DEF HoldAmount
    <3> HIDE DEF seen
    <3> QED BY <2>1, <3>1, SumEqual
  <2> HIDE DEF seen
  <2>3. CASE new = 0
    <3>1. auto = 0
      BY <1>9, <2>3, Ids
    <3>2. On(j)' = U
      BY <1>2, <1>7, <1>11, <2>1, <2>3, Ids DEF On
    <3>3. SumFunctionOnSet(seen, U) \in Int
      <4>1. \A h \in U : HoldAmount'[h] \in Int
        BY <2>1 DEF HoldAmount, TInv, TypeOK, HoldRow
      <4> QED BY <2>1, <2>2, <4>1, SumInt
    <3> QED BY <1>1, <1>11, <2>2, <3>1, <3>2, <3>3
  <2>4. CASE new # 0
    <3>1. new \in Holds
      BY <2>4
    <3>2. On(j)' = U \cup {new}
      BY <1>2, <1>7, <1>11, <2>1, <3>1 DEF On
    <3>3. \A h \in U \cup {new} : HoldAmount'[h] \in Int
      BY <2>1, <3>1 DEF HoldAmount, TInv, TypeOK, HoldRow
    <3>4. SumFunctionOnSet(HoldAmount', U \cup {new}) = HoldAmount'[new] + SumFunctionOnSet(HoldAmount', U)
      BY <1>6, <2>1, <3>3, SumAddElement
    <3>5. HoldAmount'[new] = auto
      BY <1>2, <3>1 DEF HoldAmount
    <3> QED BY <1>1, <1>11, <2>2, <3>2, <3>4, <3>5
  <2> QED BY <2>3, <2>4
<1> QED BY <1>10, <1>11

\* A payslip shows at least the commission that is marked as paid by it, whatever
\* overlaps, and exactly that commission and the holds that point to it while
\* requests do not overlap (payroll.service.ts create, createManualHold): the
\* property is inductive together with TInv and AloneInv.
THEOREM PayslipCorrect == Spec => []PayslipExact
<1>1. Init => PayslipExact
  <2> SUFFICES ASSUME Init PROVE PayslipExact
    OBVIOUS
  <2>1. \A i \in Slips : i # 0 /\ slip[i].commission = 0 /\ slip[i].hold = 0
    BY Ids DEF Init, NoSlip
  <2>2. \A i \in Slips : PaidWith(i) = {} /\ {h \in Holds : hold[h].slip = i} = {}
    BY <2>1 DEF Init, PaidWith, NoHold
  <2>3. CommissionOnPayslip
    BY <2>1, <2>2, SumEmpty DEF CommissionOnPayslip
  <2>4. HoldsOnPayslip
    BY <2>1, <2>2, SumEmpty DEF HoldsOnPayslip
  <2> QED BY <2>3, <2>4 DEF PayslipExact
<1>2. TInv /\ TInv' /\ AloneInv /\ PayslipExact /\ [Next]_vars => PayslipExact'
  <2> SUFFICES ASSUME TInv, TInv', AloneInv, PayslipExact, [Next]_vars PROVE PayslipExact'
    OBVIOUS
  <2>1. /\ overlapped => overlapped'
        /\ CommissionCalm \/ SomePayroll
        /\ HoldsCalm \/ SomePayroll \/ SomeHold
    BY Calm
  <2>2. CommissionOnPayslip /\ HoldsOnPayslip
    BY DEF PayslipExact
  <2>3. CommissionOnPayslip'
    BY <2>1, <2>2, CommissionKept, CommissionPaid DEF SomePayroll
  <2>4. HoldsOnPayslip'
    BY <2>1, <2>2, HoldsKept, HoldsTied, HoldAdded DEF SomePayroll, SomeHold
  <2> QED BY <2>3, <2>4 DEF PayslipExact
<1> QED BY <1>1, <1>2, TInvInit, TInvNext, AloneInit, AloneNext, PTL DEF Spec

-----------------------------------------------------------------------------
(* Loans and the payslips they are on *)

\* What a session takes from each loan.
Taken(s) == [l \in Loans |-> IF session[s].loans[l] = NoLoan THEN 0
                             ELSE Deducted(session[s].loans[l], Monthly[l])]
OnSlips == [i \in Slips |-> slip[i].loan]

\* An instalment is at most the monthly one.
LEMMA TakenAtMost ==
    ASSUME TInv, NEW s \in Sessions
    PROVE  /\ Total(s) = SumFunctionOnSet(Taken(s), Loans) /\ Total(s) \in Nat /\ IsFiniteSet(Loans)
           /\ \A l \in Loans : /\ Monthly[l] \in Nat /\ Taken(s)[l] \in Nat /\ Taken(s)[l] <= Monthly[l]
                               /\ session[s].loans[l] = NoLoan => Taken(s)[l] = 0
                               /\ session[s].loans[l] # NoLoan =>
                                    Taken(s)[l] = Deducted(session[s].loans[l], Monthly[l])
<1>1. \A l \in Loans : Monthly[l] \in Nat /\ session[s].loans[l] \in LoanRow
  BY PayrollAssumption DEF TInv, SessionRow
<1>2. \A l \in Loans : Deducted(session[s].loans[l], Monthly[l]) \in Nat
                       /\ Deducted(session[s].loans[l], Monthly[l]) <= Monthly[l]
  BY <1>1, PaidDownRow
<1>3. Total(s) = SumFunctionOnSet(Taken(s), Loans)
  BY DEF Total, Taken
<1>4. \A l \in Loans : Taken(s)[l] = IF session[s].loans[l] = NoLoan THEN 0
                                     ELSE Deducted(session[s].loans[l], Monthly[l])
  BY DEF Taken
<1>5. Total(s) \in Nat /\ IsFiniteSet(Loans)
  BY TotalNat, PayrollAssumption
<1> QED BY <1>1, <1>2, <1>3, <1>4, <1>5

\* What was spent is a number.
LEMMA SpentInt == ASSUME TInv PROVE \A l \in Loans : Spent[l] \in Int
<1>1. \A l \in Loans : Amount[l] \in Nat /\ loan[l].remaining \in Nat /\ loan[l].trail \in Nat
  BY PayrollAssumption DEF TInv, TypeOK, LoanRow
<1> QED BY <1>1 DEF Spent

\* A booking by a session that runs alone spends what it takes.
LEMMA BookingSpends ==
    ASSUME TInv, AloneInv, ~overlapped, NEW s \in Sessions, session[s].op \in {"payroll", "recalc"},
           NEW month \in Months \cup {NoMonth}, WriteInstalments(s, month)
    PROVE  SumFunctionOnSet(Spent', Loans) = SumFunctionOnSet(Spent, Loans) + Total(s)
<1>1. \A l \in Loans : Taken(s)[l] \in Nat
      /\ (session[s].loans[l] = NoLoan => Taken(s)[l] = 0)
      /\ (session[s].loans[l] # NoLoan => Taken(s)[l] = Deducted(session[s].loans[l], Monthly[l]))
  BY TakenAtMost
<1>2. /\ \A l \in Loans : session[s].loans[l] = NoLoan => loan'[l] = loan[l]
      /\ \A l \in Loans : session[s].loans[l] # NoLoan =>
            /\ loan'[l].status # "ABSENT" /\ loan'[l].trail = loan[l].trail
            /\ loan'[l].remaining = session[s].loans[l].remaining
                                    - Deducted(session[s].loans[l], Monthly[l])
  BY BookedRow
<1>3. \A l \in Loans : session[s].loans[l] # NoLoan =>
          session[s].loans[l] = loan[l] /\ loan[l].status # "ABSENT"
  BY DEF AloneInv, Known, TInv, RefsOK
<1>4. \A l \in Loans : Amount[l] \in Nat /\ loan[l].remaining \in Nat /\ loan[l].trail \in Nat
  BY PayrollAssumption DEF TInv, TypeOK, LoanRow
<1>5. ASSUME NEW l \in Loans PROVE Spent[l] \in Int /\ Taken(s)[l] \in Int /\ Spent'[l] = Spent[l] + Taken(s)[l]
  <2>1. Spent[l] \in Int /\ Taken(s)[l] \in Int
    BY <1>1, SpentInt
  <2>2. CASE session[s].loans[l] = NoLoan
    <3>1. Spent'[l] = Spent[l]
      BY <1>2, <2>2 DEF Spent
    <3> QED BY <1>1, <2>1, <2>2, <3>1
  <2>3. CASE session[s].loans[l] # NoLoan
    <3>1. Spent[l] = Amount[l] - loan[l].remaining - loan[l].trail
          /\ Spent'[l] = Amount[l] - loan'[l].remaining - loan'[l].trail
      BY <1>2, <1>3, <2>3 DEF Spent
    <3>2. loan'[l].remaining = loan[l].remaining - Taken(s)[l] /\ loan'[l].trail = loan[l].trail
      BY <1>1, <1>2, <1>3, <2>3
    <3> QED BY <1>4, <2>1, <3>1, <3>2
  <2> QED BY <2>2, <2>3
<1>6. SumFunctionOnSet(Spent', Loans) = SumFunctionOnSet(Spent, Loans) + SumFunctionOnSet(Taken(s), Loans)
  <2>1. IsFiniteSet(Loans)
    BY PayrollAssumption
  <2> QED BY <1>5, <2>1, SumPlus
<1> QED BY <1>6, TakenAtMost

\* Where a payslip gets more, the sum over all of them does.
LEMMA SlipGets ==
    ASSUME TInv, TInv', NEW i \in Slips, NEW n \in Nat, slip'[i].loan = slip[i].loan + n,
           \A j \in Slips : j # i => slip'[j] = slip[j]
    PROVE  SumFunctionOnSet(OnSlips', Slips) = SumFunctionOnSet(OnSlips, Slips) + n
<1>1. \A j \in Slips : OnSlips[j] \in Int /\ OnSlips'[j] \in Int
  BY DEF TInv, TypeOK, SlipRow, OnSlips
<1>2. \A j \in Slips \ {i} : OnSlips'[j] = OnSlips[j]
  BY DEF OnSlips
<1>3. OnSlips'[i] = OnSlips[i] + n
  BY DEF OnSlips
<1>4. SumFunctionOnSet(OnSlips', Slips) = SumFunctionOnSet(OnSlips, Slips) + (OnSlips'[i] - OnSlips[i])
  <2>1. IsFiniteSet(Slips)
    BY Ids
  <2> DEFINE f == OnSlips
             g == OnSlips'
  <2>2. /\ \A j \in Slips : f[j] \in Int /\ g[j] \in Int
        /\ \A j \in Slips \ {i} : g[j] = f[j]
    BY <1>1, <1>2
  <2> HIDE DEF f, g
  <2>3. SumFunctionOnSet(g, Slips) = SumFunctionOnSet(f, Slips) + (g[i] - f[i])
    BY <2>1, <2>2, SumChange
  <2> QED BY <2>3 DEF f, g
<1>5. OnSlips'[i] - OnSlips[i] = n
  BY <1>1, <1>3
<1> QED BY <1>4, <1>5

\* The two bookings: which payslip gets the total, under which month.
LEMMA Bookings ==
    ASSUME TInv, AloneInv, ~overlapped', overlapped => overlapped', SomePayroll \/ SomeRecalc
    PROVE  \E s \in Sessions, i \in Slips, month \in Months :
              /\ session[s].op \in {"payroll", "recalc"} /\ WriteInstalments(s, month)
              /\ slip'[i].loan = slip[i].loan + Total(s) /\ slip'[i].month = month
              /\ \A j \in Slips : j # i => slip'[j] = slip[j]
              /\ slip'[i].status # "ABSENT"
              /\ \/ /\ slip[i] = NoSlip /\ \A j \in Slips : slip[j].status # "ABSENT" => j < i
                    /\ \A l \in Loans : session[s].loans[l] # NoLoan => loan[l].last # month
                 \/ /\ slip[i].status # "ABSENT" /\ slip[i].month = month
                    /\ \A l \in Loans : session[s].loans[l] # NoLoan => loan[l].last = NoMonth
<1>1. ASSUME NEW s \in Sessions, NEW i \in Slips, NEW new \in Holds \cup {0}, CommitPayroll(s, i, new)
      PROVE  /\ session[s].op \in {"payroll", "recalc"} /\ WriteInstalments(s, session[s].month)
             /\ session[s].month \in Months
             /\ slip'[i].loan = slip[i].loan + Total(s) /\ slip'[i].month = session[s].month
             /\ \A j \in Slips : j # i => slip'[j] = slip[j]
             /\ slip'[i].status # "ABSENT"
             /\ slip[i] = NoSlip /\ \A j \in Slips : slip[j].status # "ABSENT" => j < i
             /\ \A l \in Loans : session[s].loans[l] # NoLoan => loan[l].last # session[s].month
  <2>1. /\ slip[i].status = "ABSENT" /\ slip'[i].status = "PENDING"
        /\ \A j \in Slips : j < i => slip[j].status # "ABSENT"
        /\ slip'[i].month = session[s].month /\ session[s].month \in Months
        /\ slip'[i].loan = Total(s)
        /\ \A j \in Slips : j # i => slip'[j] = slip[j]
    BY <1>1, NewSlip
  <2>2. session[s].op = "payroll" /\ WriteInstalments(s, session[s].month)
    BY <1>1 DEF CommitPayroll, At
  <2>3. slip[i] = NoSlip /\ slip[i].loan = 0
    BY <2>1 DEF TInv, AbsentOK, NoSlip
  <2>4. Total(s) = 0 + Total(s)
    BY TotalNat
  <2>5. ASSUME NEW j \in Slips, slip[j].status # "ABSENT" PROVE j < i
    <3>1. j # i /\ ~(i < j)
      BY <2>1, <2>5 DEF TInv, SlipsInARow
    <3> QED BY <3>1, Ids
  <2>6. \A l \in Loans : session[s].loans[l] # NoLoan => loan[l].last # session[s].month
    BY <2>2 DEF AloneInv, Known
  <2> QED BY <2>1, <2>2, <2>3, <2>4, <2>5, <2>6
<1>2. ASSUME NEW s \in Sessions, CommitRecalc(s)
      PROVE  /\ session[s].op \in {"payroll", "recalc"} /\ WriteInstalments(s, session[s].slip.month)
             /\ session[s].slip.month \in Months /\ session[s].id \in Slips
             /\ slip'[session[s].id].loan = slip[session[s].id].loan + Total(s)
             /\ slip'[session[s].id].month = session[s].slip.month
             /\ \A j \in Slips : j # session[s].id => slip'[j] = slip[j]
             /\ slip'[session[s].id].status # "ABSENT"
             /\ slip[session[s].id].status # "ABSENT" /\ slip[session[s].id].month = session[s].slip.month
             /\ \A l \in Loans : session[s].loans[l] # NoLoan => loan[l].last = NoMonth
  <2> DEFINE i == session[s].id
  <2>1. /\ i \in Slips /\ slip[i].status # "ABSENT" /\ slip'[i].loan = session[s].slip.loan + Total(s)
        /\ \A j \in Slips : j # i => slip'[j] = slip[j]
        /\ slip'[i].status = slip[i].status /\ slip'[i].month = slip[i].month
    BY <1>2, RecalcRow
  <2>2. session[s].op = "recalc" /\ WriteInstalments(s, session[s].slip.month)
    BY <1>2 DEF CommitRecalc, At
  <2>3. session[s].slip.month = slip[i].month /\ session[s].slip.loan = slip[i].loan
        /\ \A l \in Loans : session[s].loans[l] # NoLoan => loan[l].last = NoMonth
    BY <2>2 DEF AloneInv, Known
  <2>4. slip[i].month \in Months
    BY <2>1 DEF TInv, AbsentOK
  <2> QED BY <2>1, <2>2, <2>3, <2>4
<1>3. CASE SomePayroll
  <2>1. PICK s \in Sessions, i \in Slips, new \in Holds \cup {0} : CommitPayroll(s, i, new)
    BY <1>3 DEF SomePayroll
  <2>2. session[s].month \in Months
    BY <1>1, <2>1
  <2> WITNESS s \in Sessions, i \in Slips, session[s].month \in Months
  <2> QED BY <1>1, <2>1
<1>4. CASE SomeRecalc
  <2>1. PICK s \in Sessions : CommitRecalc(s)
    BY <1>4 DEF SomeRecalc
  <2>2. session[s].slip.month \in Months /\ session[s].id \in Slips
    BY <1>2, <2>1
  <2> USE <2>2
  <2> WITNESS s \in Sessions, session[s].id \in Slips, session[s].slip.month \in Months
  <2> QED BY <1>2, <2>1
<1> QED BY <1>3, <1>4

\* While requests do not overlap, every unit lent is still owed, was deducted by
\* hand, or is on a payslip (loans.service.ts, payroll.service.ts).
THEOREM LoansConserved == Spec => []LoanConserved
<1> DEFINE Equal == SumFunctionOnSet(Spent, Loans) = SumFunctionOnSet(OnSlips, Slips)
<1>0. LoanConserved <=> (~overlapped => Equal)
  BY DEF LoanConserved, Spent, OnSlips
<1>1. Init => LoanConserved
  <2> SUFFICES ASSUME Init PROVE Equal
    BY <1>0
  <2>1. IsFiniteSet(Loans) /\ \A l \in Loans : Spent[l] = 0
    BY PayrollAssumption DEF Init, Spent, NoLoan
  <2>2. \A i \in Slips : OnSlips[i] = 0
    BY DEF Init, OnSlips, NoSlip
  <2>3. SumFunctionOnSet(Spent, Loans) = 0
    BY <2>1, SumZero
  <2>4. SumFunctionOnSet(OnSlips, Slips) = 0
    BY <2>2, Ids, SumZero
  <2> QED BY <2>3, <2>4
<1>2. TInv /\ TInv' /\ AloneInv /\ LoanConserved /\ [Next]_vars => LoanConserved'
  <2> SUFFICES ASSUME TInv, TInv', AloneInv, LoanConserved, [Next]_vars, ~overlapped'
               PROVE  SumFunctionOnSet(Spent', Loans) = SumFunctionOnSet(OnSlips', Slips)
    BY DEF LoanConserved, Spent, OnSlips
  <2>1. (overlapped => overlapped') /\ (LoansCalm \/ SomePayroll \/ SomeRecalc)
    BY Calm
  <2>2. ~overlapped /\ Equal
    BY <1>0, <2>1
  <2>3. CASE LoansCalm
    <3>1. Spent' = Spent /\ \A i \in Slips : slip'[i].loan = slip[i].loan
      BY <2>3 DEF LoansCalm
    <3>2. OnSlips' = OnSlips
      BY <3>1 DEF OnSlips
    <3> QED BY <2>2, <3>1, <3>2
  <2>4. CASE SomePayroll \/ SomeRecalc
    <3>1. PICK s \in Sessions, i \in Slips, month \in Months :
              /\ session[s].op \in {"payroll", "recalc"} /\ WriteInstalments(s, month)
              /\ slip'[i].loan = slip[i].loan + Total(s)
              /\ \A j \in Slips : j # i => slip'[j] = slip[j]
      BY <2>1, <2>4, Bookings
    <3>2. SumFunctionOnSet(Spent', Loans) = SumFunctionOnSet(Spent, Loans) + Total(s)
      BY <2>2, <3>1, BookingSpends
    <3>3. SumFunctionOnSet(OnSlips', Slips) = SumFunctionOnSet(OnSlips, Slips) + Total(s)
      BY <3>1, TotalNat, SlipGets
    <3> QED BY <2>2, <3>2, <3>3
  <2> QED BY <2>1, <2>3, <2>4
<1> QED BY <1>1, <1>2, TInvInit, TInvNext, AloneInit, AloneNext, PTL DEF Spec

-----------------------------------------------------------------------------
(* One instalment per month *)

\* The summands are amounts.
LEMMA SummandsNat ==
    ASSUME TInv, NEW m
    PROVE  /\ \A i \in Slips : TakenIn(m)[i] \in Nat
           /\ \A l \in Loans : LastIn(m)[l] \in Nat /\ Touched[l] \in Nat
<1>1. \A i \in Slips : slip[i].loan \in Nat
  BY DEF TInv, TypeOK, SlipRow
<1>2. \A l \in Loans : Monthly[l] \in Nat
  BY PayrollAssumption
<1> QED BY <1>1, <1>2 DEF TakenIn, LastIn, Touched

\* Instalments that are covered loan by loan are covered in total.
LEMMA Covered ==
    ASSUME TInv, NEW s \in Sessions, NEW f, NEW g,
           \A l \in Loans : f[l] \in Nat /\ g[l] \in Nat /\ f[l] + Taken(s)[l] <= g[l]
    PROVE  /\ SumFunctionOnSet(f, Loans) + Total(s) <= SumFunctionOnSet(g, Loans)
           /\ SumFunctionOnSet(f, Loans) \in Nat /\ SumFunctionOnSet(g, Loans) \in Nat
<1> DEFINE t == Taken(s)
           h == [l \in Loans |-> f[l] + t[l]]
<1>1. IsFiniteSet(Loans) /\ Total(s) = SumFunctionOnSet(t, Loans) /\ \A l \in Loans : t[l] \in Nat
  BY TakenAtMost
<1> HIDE DEF t
<1>2. \A l \in Loans : f[l] \in Int /\ t[l] \in Int /\ h[l] = f[l] + t[l]
  BY <1>1
<1>3. \A l \in Loans : h[l] \in Int /\ g[l] \in Int /\ h[l] <= g[l]
  BY <1>1 DEF t
<1> HIDE DEF h
<1>4. SumFunctionOnSet(h, Loans) = SumFunctionOnSet(f, Loans) + SumFunctionOnSet(t, Loans)
  BY <1>1, <1>2, SumPlus
<1>5. SumFunctionOnSet(h, Loans) <= SumFunctionOnSet(g, Loans)
  BY <1>1, <1>3, SumAtMost
<1>6. SumFunctionOnSet(f, Loans) \in Nat /\ SumFunctionOnSet(g, Loans) \in Nat
  BY <1>1, SumNat
<1> QED BY <1>1, <1>4, <1>5, <1>6

\* A calm step changes none of the sums.
LEMMA AheadKept ==
    ASSUME TInv, Ahead, LoansCalm
    PROVE  Ahead'
<1>1. /\ \A i \in Slips : /\ slip'[i].status = "ABSENT" <=> slip[i].status = "ABSENT"
                          /\ slip'[i].month = slip[i].month /\ slip'[i].loan = slip[i].loan
      /\ \A l \in Loans : loan'[l].last = loan[l].last
  BY DEF LoansCalm
<1>2. InOrder' => InOrder
  BY <1>1 DEF InOrder
<1>3. \A m \in Months : Latest(m)' => Latest(m)
  BY <1>1 DEF Latest
<1>4. \A m \in Months : TakenIn(m)' = TakenIn(m) /\ LastIn(m)' = LastIn(m)
  BY <1>1 DEF TakenIn, LastIn
<1>5. Touched' = Touched
  BY <1>1 DEF Touched
<1> QED BY <1>2, <1>3, <1>4, <1>5 DEF Ahead

\* A booking adds its total to the month it is for.
LEMMA TakenAfter ==
    ASSUME TInv, TInv', NEW i \in Slips, NEW n \in Nat, NEW month \in Months,
           slip'[i].loan = slip[i].loan + n, slip'[i].month = month,
           slip[i] = NoSlip \/ slip[i].month = month,
           \A j \in Slips : j # i => slip'[j] = slip[j]
    PROVE  /\ SumFunctionOnSet(TakenIn(month)', Slips) = SumFunctionOnSet(TakenIn(month), Slips) + n
           /\ \A m \in Months : m # month => TakenIn(m)' = TakenIn(m)
<1>0. NoMonth \notin Months
  BY PayrollAssumption DEF NoMonth
<1>1. slip[i].loan \in Nat /\ (slip[i].month # month => slip[i].loan = 0)
  BY DEF TInv, TypeOK, SlipRow, NoSlip
<1>2. \A m \in Months : m # month => slip[i].month # m
  BY <1>0 DEF NoSlip
<1>3. ASSUME NEW m \in Months, m # month PROVE TakenIn(m)' = TakenIn(m)
  <2>1. \A j \in Slips : (IF slip'[j].month = m THEN slip'[j].loan ELSE 0)
                         = (IF slip[j].month = m THEN slip[j].loan ELSE 0)
    BY <1>2, <1>3
  <2> QED BY <2>1 DEF TakenIn
<1> DEFINE f == TakenIn(month)
           g == TakenIn(month)'
<1>4. \A j \in Slips : f[j] \in Int
  BY SummandsNat
<1>5. g[i] = f[i] + n
  BY <1>1 DEF TakenIn
<1>6. \A j \in Slips : j # i => g[j] = f[j]
  BY DEF TakenIn
<1> HIDE DEF f, g
<1>7. \A j \in Slips : f[j] \in Int /\ g[j] \in Int
  BY <1>4, <1>5, <1>6
<1>8. \A j \in Slips \ {i} : g[j] = f[j]
  BY <1>6
<1>9. IsFiniteSet(Slips)
  BY Ids
<1>10. SumFunctionOnSet(g, Slips) = SumFunctionOnSet(f, Slips) + (g[i] - f[i])
  BY <1>7, <1>8, <1>9, SumChange
<1>11. g[i] - f[i] = n
  BY <1>4, <1>5
<1> QED BY <1>3, <1>10, <1>11 DEF f, g

\* payroll create and recalcLoanDeduction keep the months covered.
LEMMA AheadBooked ==
    ASSUME TInv, TInv', AloneInv, Ahead, ~overlapped', overlapped => overlapped',
           SomePayroll \/ SomeRecalc
    PROVE  Ahead'
<1>1. PICK s \in Sessions, i \in Slips, month \in Months :
              /\ session[s].op \in {"payroll", "recalc"} /\ WriteInstalments(s, month)
              /\ slip'[i].loan = slip[i].loan + Total(s) /\ slip'[i].month = month
              /\ \A j \in Slips : j # i => slip'[j] = slip[j]
              /\ slip'[i].status # "ABSENT"
              /\ \/ /\ slip[i] = NoSlip /\ \A j \in Slips : slip[j].status # "ABSENT" => j < i
                    /\ \A l \in Loans : session[s].loans[l] # NoLoan => loan[l].last # month
                 \/ /\ slip[i].status # "ABSENT" /\ slip[i].month = month
                    /\ \A l \in Loans : session[s].loans[l] # NoLoan => loan[l].last = NoMonth
  BY Bookings
<1> DEFINE Fresh == slip[i] = NoSlip /\ \A j \in Slips : slip[j].status # "ABSENT" => j < i
           Again == /\ slip[i].status # "ABSENT" /\ slip[i].month = month
                    /\ \A l \in Loans : session[s].loans[l] # NoLoan => loan[l].last = NoMonth
<1>2. Fresh \/ Again
  BY <1>1
<1>3. NoMonth \notin Months /\ Months \subseteq Nat /\ NoMonth = 0
  BY PayrollAssumption DEF NoMonth
<1>4. \A l \in Loans : session[s].loans[l] # NoLoan => loan[l].last # month
  BY <1>1, <1>3
<1>5. /\ \A l \in Loans : session[s].loans[l] = NoLoan => loan'[l] = loan[l]
      /\ \A l \in Loans : session[s].loans[l] # NoLoan => loan'[l].last = month
  BY <1>1, BookedRow
<1>6. \A l \in Loans : /\ Monthly[l] \in Nat /\ Taken(s)[l] \in Nat /\ Taken(s)[l] <= Monthly[l]
                       /\ session[s].loans[l] = NoLoan => Taken(s)[l] = 0
  BY TakenAtMost
<1>7. /\ SumFunctionOnSet(TakenIn(month)', Slips) = SumFunctionOnSet(TakenIn(month), Slips) + Total(s)
      /\ \A m \in Months : m # month => TakenIn(m)' = TakenIn(m)
  <2>1. slip[i] = NoSlip \/ slip[i].month = month
    BY <1>1
  <2> QED BY <1>1, <2>1, TotalNat, TakenAfter
<1>8. Total(s) \in Nat
  BY TotalNat
<1>9. \A m \in Months : SumFunctionOnSet(TakenIn(m), Slips) \in Nat
  BY SummandsNat, Ids, SumNat
<1>10. \A l \in Loans : \A m \in Months : /\ LastIn(m)[l] = (IF loan[l].last = m THEN Monthly[l] ELSE 0)
                             /\ LastIn(m)'[l] = (IF loan'[l].last = m THEN Monthly[l] ELSE 0)
  BY DEF LastIn
<1>11. \A l \in Loans : /\ Touched[l] = (IF loan[l].last # NoMonth THEN Monthly[l] ELSE 0)
                        /\ Touched'[l] = (IF loan'[l].last # NoMonth THEN Monthly[l] ELSE 0)
  BY DEF Touched
\* The month's own instalments cover the new ones.
<1>12. /\ SumFunctionOnSet(LastIn(month), Loans) + Total(s) <= SumFunctionOnSet(LastIn(month)', Loans)
       /\ SumFunctionOnSet(LastIn(month), Loans) \in Nat /\ SumFunctionOnSet(LastIn(month)', Loans) \in Nat
  <2> DEFINE f == LastIn(month)
             g == LastIn(month)'
  <2>1. \A l \in Loans : f[l] \in Nat /\ g[l] \in Nat /\ f[l] + Taken(s)[l] <= g[l]
    BY <1>4, <1>5, <1>6, <1>10
  <2> HIDE DEF f, g
  <2>2. /\ SumFunctionOnSet(f, Loans) + Total(s) <= SumFunctionOnSet(g, Loans)
        /\ SumFunctionOnSet(f, Loans) \in Nat /\ SumFunctionOnSet(g, Loans) \in Nat
    BY <2>1, Covered
  <2> QED BY <2>2 DEF f, g
<1>13. IsFiniteSet(Loans)
  BY PayrollAssumption
<1>14. SumFunctionOnSet(Touched, Loans) <= SumFunctionOnSet(Touched', Loans)
       /\ SumFunctionOnSet(Touched, Loans) \in Nat /\ SumFunctionOnSet(Touched', Loans) \in Nat
  <2> DEFINE f == Touched
             g == Touched'
  <2>1. \A l \in Loans : f[l] \in Nat /\ g[l] \in Nat /\ f[l] <= g[l]
    BY <1>3, <1>5, <1>6, <1>11
  <2> HIDE DEF f, g
  <2>2. \A l \in Loans : f[l] \in Int /\ g[l] \in Int /\ f[l] <= g[l]
    BY <2>1
  <2>3. SumFunctionOnSet(f, Loans) <= SumFunctionOnSet(g, Loans)
    BY <1>13, <2>2, SumAtMost
  <2>4. SumFunctionOnSet(f, Loans) \in Nat /\ SumFunctionOnSet(g, Loans) \in Nat
    BY <1>13, <2>1, SumNat
  <2> QED BY <2>3, <2>4 DEF f, g
<1>15. SumFunctionOnSet(LastIn(month)', Loans) <= SumFunctionOnSet(Touched', Loans)
  <2> DEFINE f == LastIn(month)'
             g == Touched'
  <2>1. \A l \in Loans : f[l] \in Int /\ g[l] \in Int /\ f[l] <= g[l]
    BY <1>3, <1>6, <1>10, <1>11
  <2> HIDE DEF f, g
  <2>2. SumFunctionOnSet(f, Loans) <= SumFunctionOnSet(g, Loans)
    BY <1>13, <2>1, SumAtMost
  <2> QED BY <2>2 DEF f, g
<1> SUFFICES ASSUME InOrder', NEW m \in Months
             PROVE  /\ SumFunctionOnSet(TakenIn(m)', Slips) <= SumFunctionOnSet(Touched', Loans)
                    /\ Latest(m)' => SumFunctionOnSet(TakenIn(m)', Slips) <= SumFunctionOnSet(LastIn(m)', Loans)
  BY DEF Ahead
<1>16. InOrder
  <2> SUFFICES ASSUME NEW a \in Slips, NEW b \in Slips, a < b, slip[b].status # "ABSENT"
               PROVE  slip[a].month <= slip[b].month
    BY DEF InOrder
  <2>1. slip'[b].status # "ABSENT" /\ slip'[b].month = slip[b].month /\ slip[b].month \in Nat
    <3>1. slip[b].month \in Nat
      BY <1>3 DEF TInv, AbsentOK
    <3>2. CASE b # i
      BY <1>1, <3>1, <3>2
    <3>3. CASE b = i
      BY <1>1, <3>1, <3>3 DEF NoSlip
    <3> QED BY <3>2, <3>3
  <2>2. slip[a].month = NoMonth \/ slip'[a].month = slip[a].month
    BY <1>1 DEF NoSlip
  <2>3. slip'[a].month <= slip'[b].month
    BY <2>1 DEF InOrder
  <2> QED BY <1>3, <2>1, <2>2, <2>3
<1>17. \A k \in Months :
        /\ SumFunctionOnSet(TakenIn(k), Slips) <= SumFunctionOnSet(Touched, Loans)
        /\ Latest(k) => SumFunctionOnSet(TakenIn(k), Slips) <= SumFunctionOnSet(LastIn(k), Loans)
  BY <1>16 DEF Ahead
<1>18. \A j \in Slips : slip[j].status # "ABSENT" =>
            slip'[j].status # "ABSENT" /\ slip'[j].month = slip[j].month
  BY <1>1 DEF NoSlip
\* A fresh payslip is of the latest month.
<1>19. Fresh => Latest(month) /\ Latest(month)'
  <2> SUFFICES ASSUME Fresh, NEW j \in Slips
               PROVE  /\ slip[j].status # "ABSENT" => slip[j].month <= month
                      /\ slip'[j].status # "ABSENT" => slip'[j].month <= month
    BY DEF Latest
  <2>1. CASE j = i
    BY <1>1, <1>3, <2>1 DEF NoSlip
  <2>2. CASE j # i /\ slip[j].status # "ABSENT"
    <3>1. j < i
      BY <2>2
    <3>2. slip'[j].month <= slip'[i].month
      BY <1>1, <3>1 DEF InOrder
    <3> QED BY <1>1, <2>2, <3>2
  <2>3. CASE j # i /\ slip[j].status = "ABSENT"
    BY <1>1, <2>3
  <2> QED BY <2>1, <2>2, <2>3
<1>20. \A k \in Months : Latest(k)' => Latest(k)
  BY <1>18 DEF Latest
<1>21. CASE m = month
  <2>1. Latest(month) => SumFunctionOnSet(TakenIn(month)', Slips) <= SumFunctionOnSet(LastIn(month)', Loans)
    BY <1>7, <1>8, <1>9, <1>12, <1>17
  <2>2. CASE Fresh
    BY <1>7, <1>8, <1>9, <1>12, <1>14, <1>15, <1>19, <1>21, <2>1, <2>2
  <2>3. CASE Again
    <3> DEFINE f == Touched
               g == Touched'
    <3>1. \A l \in Loans : f[l] \in Nat /\ g[l] \in Nat /\ f[l] + Taken(s)[l] <= g[l]
      BY <1>3, <1>5, <1>6, <1>11, <2>3
    <3> HIDE DEF f, g
    <3>2. SumFunctionOnSet(f, Loans) + Total(s) <= SumFunctionOnSet(g, Loans)
      BY <3>1, Covered
    <3>3. SumFunctionOnSet(Touched, Loans) + Total(s) <= SumFunctionOnSet(Touched', Loans)
      BY <3>2 DEF f, g
    <3>4. SumFunctionOnSet(TakenIn(month)', Slips) <= SumFunctionOnSet(Touched', Loans)
      BY <1>7, <1>8, <1>9, <1>14, <1>17, <3>3
    <3> QED BY <1>20, <1>21, <2>1, <3>4
  <2> QED BY <1>2, <2>2, <2>3
<1>22. CASE m # month
  <2>1. TakenIn(m)' = TakenIn(m)
    BY <1>7, <1>22
  <2>2. SumFunctionOnSet(TakenIn(m)', Slips) <= SumFunctionOnSet(Touched', Loans)
    BY <1>9, <1>14, <1>17, <2>1
  <2>3. SumFunctionOnSet(LastIn(m)', Loans) \in Nat
    <3> DEFINE f == LastIn(m)'
    <3>1. \A l \in Loans : f[l] \in Nat
      BY <1>6, <1>10
    <3> HIDE DEF f
    <3>2. SumFunctionOnSet(f, Loans) \in Nat
      BY <1>13, <3>1, SumNat
    <3> QED BY <3>2 DEF f
  <2>4. ASSUME Fresh, Latest(m)'
        PROVE  SumFunctionOnSet(TakenIn(m)', Slips) <= SumFunctionOnSet(LastIn(m)', Loans)
    <3>1. month <= m
      BY <1>1, <2>4 DEF Latest
    <3>2. \A j \in Slips : slip'[j].month # m
      <4>1. \A j \in Slips : slip'[j].status # "ABSENT" => slip'[j].month <= month /\ slip'[j].month \in Months
        BY <1>19, <2>4 DEF Latest, TInv, AbsentOK
      <4>2. \A j \in Slips : slip'[j].status = "ABSENT" => slip'[j].month = NoMonth
        BY DEF TInv, AbsentOK, NoSlip
      <4>3. ASSUME NEW j \in Slips, slip'[j].month = m PROVE FALSE
        <5>1. slip'[j].status # "ABSENT"
          BY <1>3, <4>2, <4>3
        <5>2. m <= month /\ month <= m /\ m \in Nat /\ month \in Nat
          BY <1>3, <3>1, <4>1, <4>3, <5>1
        <5> QED BY <1>22, <5>2
      <4> QED BY <4>3
    <3> DEFINE f == TakenIn(m)'
    <3>3. \A j \in Slips : f[j] = 0
      BY <3>2 DEF TakenIn
    <3> HIDE DEF f
    <3>4. SumFunctionOnSet(f, Slips) = 0
      BY <3>3, Ids, SumZero
    <3> QED BY <2>3, <3>4 DEF f
  <2>5. ASSUME Again, Latest(m)'
        PROVE  SumFunctionOnSet(TakenIn(m)', Slips) <= SumFunctionOnSet(LastIn(m)', Loans)
    <3> DEFINE f == LastIn(m)
               g == LastIn(m)'
    <3>1. \A l \in Loans : f[l] \in Nat /\ g[l] \in Nat /\ f[l] <= g[l]
      BY <1>3, <1>5, <1>6, <1>10, <2>5
    <3> HIDE DEF f, g
    <3>2. \A l \in Loans : f[l] \in Int /\ g[l] \in Int /\ f[l] <= g[l]
      BY <3>1
    <3>3. SumFunctionOnSet(f, Loans) <= SumFunctionOnSet(g, Loans)
      BY <1>13, <3>2, SumAtMost
    <3>4. SumFunctionOnSet(f, Loans) \in Nat /\ SumFunctionOnSet(g, Loans) \in Nat
      BY <1>13, <3>1, SumNat
    <3>5. SumFunctionOnSet(TakenIn(m), Slips) <= SumFunctionOnSet(f, Loans)
      BY <1>17, <1>20, <2>5 DEF f
    <3>6. SumFunctionOnSet(TakenIn(m), Slips) <= SumFunctionOnSet(g, Loans)
      BY <1>9, <3>3, <3>4, <3>5
    <3> QED BY <2>1, <3>6 DEF g
  <2> QED BY <1>2, <2>2, <2>4, <2>5
<1> QED BY <1>21, <1>22

\* Payrolls cut in the order of their months take at most one instalment of each
\* loan per month, also when a month is run again or recalculated, while requests
\* do not overlap (loans.service.ts, lastDeductedMonth).
THEOREM OneInstalment == Spec => []OneInstalmentPerMonth
<1> DEFINE AheadInv == ~overlapped => Ahead
<1>1. Init => AheadInv
  <2> SUFFICES ASSUME Init, TInv PROVE Ahead
    BY TInvInit
  <2>1. \A m \in Months : \A i \in Slips : TakenIn(m)[i] = 0
    BY DEF Init, TakenIn, NoSlip
  <2>2. \A m \in Months : SumFunctionOnSet(TakenIn(m), Slips) = 0
    BY <2>1, Ids, SumZero
  <2>3. IsFiniteSet(Loans)
    BY PayrollAssumption
  <2>4. \A m \in Months : SumFunctionOnSet(Touched, Loans) \in Nat /\ SumFunctionOnSet(LastIn(m), Loans) \in Nat
    BY <2>3, SummandsNat, SumNat
  <2> QED BY <2>2, <2>4 DEF Ahead
<1>2. TInv /\ TInv' /\ AloneInv /\ AheadInv /\ [Next]_vars => AheadInv'
  <2> SUFFICES ASSUME TInv, TInv', AloneInv, AheadInv, [Next]_vars, ~overlapped' PROVE Ahead'
    OBVIOUS
  <2>1. (overlapped => overlapped') /\ (LoansCalm \/ SomePayroll \/ SomeRecalc)
    BY Calm
  <2>2. Ahead
    BY <2>1
  <2> QED BY <2>1, <2>2, AheadKept, AheadBooked
<1>3. TInv /\ AheadInv => OneInstalmentPerMonth
  <2> SUFFICES ASSUME TInv, AheadInv, ~overlapped, InOrder, NEW m \in Months
               PROVE  SumFunctionOnSet(TakenIn(m), Slips) <= SumFunctionOnSet(Monthly, Loans)
    BY DEF OneInstalmentPerMonth, TakenIn
  <2>1. SumFunctionOnSet(TakenIn(m), Slips) <= SumFunctionOnSet(Touched, Loans)
    BY DEF Ahead
  <2>2. IsFiniteSet(Loans) /\ \A l \in Loans : Monthly[l] \in Nat
    BY PayrollAssumption
  <2>3. \A l \in Loans : Touched[l] \in Int /\ Monthly[l] \in Int /\ Touched[l] <= Monthly[l]
    BY <2>2 DEF Touched
  <2>4. SumFunctionOnSet(Touched, Loans) <= SumFunctionOnSet(Monthly, Loans)
    BY <2>2, <2>3, SumAtMost
  <2>5. SumFunctionOnSet(Touched, Loans) \in Int /\ SumFunctionOnSet(Monthly, Loans) \in Int
    BY <2>2, <2>3, SumInt
  <2>6. SumFunctionOnSet(TakenIn(m), Slips) \in Int
    <3>1. IsFiniteSet(Slips) /\ \A i \in Slips : TakenIn(m)[i] \in Nat
      BY SummandsNat, Ids
    <3> QED BY <3>1, SumNat
  <2> QED BY <2>1, <2>4, <2>5, <2>6
<1> QED BY <1>1, <1>2, <1>3, TInvInit, TInvNext, AloneInit, AloneNext, PTL DEF Spec

-----------------------------------------------------------------------------
(* Holds follow the debt *)

\* Rows are not released beyond their amount.
ReleasedOK == ~overlapped => \A h \in Holds : hold[h].released <= hold[h].amount

Rest(holds) == [h \in Holds |-> Remaining(holds[h])]
Before(holds, n) == {k \in Held(holds) : HoldRank[k] < n}
After(holds, d) == [h \in Holds |-> Remaining(Settled(holds, d, h))]

Least(a, b) == IF a < b THEN a ELSE b

\* What the loop leaves of one hold: what of the debt is left for it, at most.
LEMMA SettledRest ==
    ASSUME NEW holds \in [Holds -> HoldRow], NEW d \in Nat, NEW h \in Held(holds),
           holds[h].released <= holds[h].amount
    PROVE  LET before == SumFunctionOnSet(Rest(holds), Before(holds, HoldRank[h]))
               left == IF d > before THEN d - before ELSE 0
           IN  /\ h \in Holds /\ before \in Int /\ Rest(holds)[h] \in Nat
               /\ After(holds, d)[h] = Least(Rest(holds)[h], left)
               /\ Settled(holds, d, h).released <= holds[h].amount
               /\ Settled(holds, d, h).status # "HELD" => After(holds, d)[h] = 0
<1> DEFINE before == SumFunctionOnSet(Rest(holds), Before(holds, HoldRank[h]))
           left == IF d > before THEN d - before ELSE 0
           row == holds[h]
           new == Settled(holds, d, h)
<1>1. h \in Holds /\ row \in HoldRow /\ row.status = "HELD" /\ row.amount \in Nat /\ row.released \in Nat
  BY DEF Held, HoldRow
<1>2. before \in Int
  <2>1. Before(holds, HoldRank[h]) \subseteq Holds /\ IsFiniteSet(Before(holds, HoldRank[h]))
    BY Ids, FS_Subset DEF Before, Held
  <2>2. \A k \in Before(holds, HoldRank[h]) : Rest(holds)[k] \in Int
    BY <2>1 DEF Rest, Remaining, HoldRow
  <2> QED BY <2>1, <2>2, SumInt
<1>3. LeftToCover(holds, d, h) = left
  BY DEF LeftToCover, Rest, Before
<1>4. Rest(holds)[h] = row.amount - row.released /\ After(holds, d)[h] = new.amount - new.released
  BY <1>1 DEF Rest, After, Remaining
<1>5. new = IF row.status # "HELD" \/ left >= Remaining(row) THEN row
            ELSE [row EXCEPT !.released = row.amount - left,
                             !.status = IF left = 0 THEN "RELEASED" ELSE "HELD"]
  BY <1>3 DEF Settled
<1>6. row.released <= row.amount
  OBVIOUS
<1>7. left \in Nat
  <2> HIDE DEF before
  <2> QED BY <1>2
<1> HIDE DEF before, left, row, new
<1>8. CASE left >= Remaining(row)
  <2>1. new = row /\ Remaining(row) = row.amount - row.released
    BY <1>1, <1>5, <1>8 DEF Remaining
  <2>2. After(holds, d)[h] = Least(Rest(holds)[h], left) /\ Rest(holds)[h] \in Nat /\ new.released <= row.amount
    BY <1>1, <1>4, <1>6, <1>7, <1>8, <2>1 DEF Least
  <2>3. new.status = "HELD"
    BY <1>1, <2>1
  <2> QED BY <1>1, <1>2, <2>2, <2>3 DEF before, left, row, new
<1>9. CASE ~(left >= Remaining(row))
  <2> DEFINE status == IF left = 0 THEN "RELEASED" ELSE "HELD"
  <2>1. new = [row EXCEPT !.released = row.amount - left, !.status = status]
    BY <1>1, <1>5, <1>9
  <2>2. new.amount = row.amount /\ new.released = row.amount - left /\ new.status = status
    BY <1>1, <2>1 DEF HoldRow
  <2>3. left < row.amount - row.released
    BY <1>1, <1>7, <1>9 DEF Remaining
  <2>4. After(holds, d)[h] = left /\ Rest(holds)[h] \in Nat /\ new.released <= row.amount
    BY <1>1, <1>4, <1>6, <1>7, <2>2, <2>3
  <2>5. After(holds, d)[h] = Least(Rest(holds)[h], left)
    BY <1>1, <1>4, <1>7, <2>3, <2>4 DEF Least
  <2>6. new.status # "HELD" => left = 0
    BY <2>2
  <2> QED BY <1>1, <1>2, <2>4, <2>5, <2>6 DEF before, left, row, new
<1> QED BY <1>8, <1>9

\* There is a number above all ids.
LEMMA RankBound == \E n \in Nat : \A h \in Holds : HoldRank[h] < n
<1> DEFINE all == SumFunctionOnSet(HoldRank, Holds)
<1>1. \A h \in Holds : HoldRank[h] \in Nat
  BY PayrollAssumption
<1>2. all \in Nat
  BY <1>1, Ids, SumNat
<1>3. ASSUME NEW h \in Holds PROVE HoldRank[h] < all + 1
  <2>1. IsFiniteSet(Holds \ {h})
    BY Ids, FS_Subset
  <2>2. SumFunctionOnSet(HoldRank, Holds \ {h}) \in Nat
    BY <1>1, <2>1, SumNat
  <2>3. all = HoldRank[h] + SumFunctionOnSet(HoldRank, Holds \ {h})
    <3>1. IsFiniteSet(Holds) /\ \A k \in Holds : HoldRank[k] \in Int
      BY <1>1, Ids
    <3> QED BY <3>1, SumRemove
  <2> HIDE DEF all
  <2> QED BY <1>1, <1>2, <2>2, <2>3
<1>4. all + 1 \in Nat
  BY <1>2
<1> QED BY <1>3, <1>4

\* The sum that the loop leaves is the debt or all that was held, whichever is
\* less: by induction on the ids, in their order.
LEMMA LoopLeaves ==
    ASSUME NEW holds \in [Holds -> HoldRow], NEW d \in Nat,
           \A h \in Holds : holds[h].released <= holds[h].amount
    PROVE  /\ SumFunctionOnSet(After(holds, d), Held(holds))
              = Least(SumFunctionOnSet(Rest(holds), Held(holds)), d)
           /\ SumFunctionOnSet(Rest(holds), Held(holds)) \in Nat
<1> DEFINE f == Rest(holds)
           g == After(holds, d)
           S(n) == Before(holds, n)
           left(b) == IF d > b THEN d - b ELSE 0
           Good == {n \in Nat : /\ SumFunctionOnSet(g, S(n)) = Least(SumFunctionOnSet(f, S(n)), d)
                                /\ SumFunctionOnSet(f, S(n)) \in Nat}
<1>1. \A h \in Held(holds) :
        /\ h \in Holds /\ f[h] \in Nat
        /\ g[h] = Least(f[h], left(SumFunctionOnSet(f, S(HoldRank[h]))))
  BY SettledRest DEF Held
<1>2. \A h \in Held(holds) : HoldRank[h] \in Nat
  BY <1>1, PayrollAssumption
<1>3. \A n \in Nat : IsFiniteSet(S(n)) /\ S(n) \subseteq Held(holds)
  BY Ids, FS_Subset DEF Before, Held
<1>4. 0 \in Good
  <2>1. S(0) = {}
    BY <1>2 DEF Before
  <2> QED BY <2>1, SumEmpty DEF Least
<1>5. ASSUME NEW n \in Nat, n \in Good PROVE n + 1 \in Good
  <2>1. CASE \E k \in Held(holds) : HoldRank[k] = n
    <3>1. PICK k \in Held(holds) : HoldRank[k] = n
      BY <2>1
    <3>2. S(n + 1) = S(n) \cup {k}
      <4>1. \A h \in Held(holds) : HoldRank[h] < n + 1 <=> HoldRank[h] < n \/ h = k
        <5>1. \A h \in Held(holds) : HoldRank[h] = n => h = k
          BY <1>1, <3>1, PayrollAssumption
        <5> QED BY <1>2, <3>1, <5>1
      <4> QED BY <3>1, <4>1 DEF Before
    <3>3. k \notin S(n)
      BY <3>1 DEF Before
    <3> DEFINE b == SumFunctionOnSet(f, S(n))
               c == SumFunctionOnSet(g, S(n))
    <3>4. c = Least(b, d) /\ b \in Nat
      BY <1>5
    <3>5. f[k] \in Nat /\ g[k] = Least(f[k], left(b))
      BY <1>1, <3>1
    <3> HIDE DEF f, g, S
    <3>6. SumFunctionOnSet(f, S(n) \cup {k}) = f[k] + b
      <4>1. \A h \in S(n) \cup {k} : f[h] \in Int
        BY <1>1, <1>3
      <4> QED BY <1>3, <3>3, <4>1, SumAddElement
    <3>7. SumFunctionOnSet(g, S(n) \cup {k}) = g[k] + c
      <4>1. \A h \in S(n) \cup {k} : g[h] \in Int
        <5>1. \A h \in Holds : g[h] = holds[h].amount - Settled(holds, d, h).released
          <6>1. \A h \in Holds : Settled(holds, d, h).amount = holds[h].amount
            BY SettledRow
          <6> QED BY <6>1 DEF g, After, Remaining
        <5>2. \A h \in Holds : holds[h].amount \in Nat /\ Settled(holds, d, h).released \in Nat
          BY SettledRow DEF HoldRow
        <5> QED BY <1>1, <1>3, <5>1, <5>2
      <4> QED BY <1>3, <3>3, <4>1, SumAddElement
    <3> HIDE DEF b, c
    <3>8. g[k] + c = Least(f[k] + b, d) /\ f[k] + b \in Nat
      BY <3>4, <3>5 DEF Least
    <3>9. /\ SumFunctionOnSet(g, S(n + 1)) = Least(SumFunctionOnSet(f, S(n + 1)), d)
          /\ SumFunctionOnSet(f, S(n + 1)) \in Nat
      BY <3>2, <3>6, <3>7, <3>8
    <3> QED BY <3>9 DEF Good
  <2>2. CASE ~\E k \in Held(holds) : HoldRank[k] = n
    <3>1. S(n + 1) = S(n)
      BY <1>2, <2>2 DEF Before
    <3> QED BY <1>5, <3>1
  <2> QED BY <2>1, <2>2
<1>6. Nat \subseteq Good
  <2> HIDE DEF Good
  <2> QED BY <1>4, <1>5, NatGood
<1>7. \E n \in Nat : S(n) = Held(holds)
  <2>1. \E n \in Nat : \A h \in Holds : HoldRank[h] < n
    BY RankBound
  <2> QED BY <1>1, <2>1 DEF Before
<1> QED BY <1>6, <1>7

\* The columns of the hold rows that say what is held, after payroll create.
LEMMA HoldsAfter ==
    ASSUME TInv, NEW s \in Sessions, NEW i \in Slips, NEW new \in Holds \cup {0},
           NEW h \in Holds, h # new
    PROVE  LET row == Settled(session[s].holds, session[s].debt, h)
               result == HoldsOf(s, i, new)[h]
           IN  /\ row = session[s].holds[h] => result.released = hold[h].released /\ result.status = hold[h].status
               /\ row # session[s].holds[h] => result.released = row.released /\ result.status = row.status
               /\ result.amount = hold[h].amount
<1> DEFINE seen == session[s].holds[h]
           row == Settled(session[s].holds, session[s].debt, h)
           written == IF row = seen THEN hold[h]
                      ELSE [hold[h] EXCEPT !.released = row.released, !.status = row.status]
           result == HoldsOf(s, i, new)[h]
<1>1. result = IF h \in Untied(s) THEN [written EXCEPT !.slip = i] ELSE written
  BY DEF HoldsOf
<1>2. hold[h] \in HoldRow
  BY DEF TInv, TypeOK
<1> HIDE DEF seen, row, result
<1>3. CASE row = seen
  <2>1. result = hold[h] \/ result = [hold[h] EXCEPT !.slip = i]
    BY <1>1, <1>3
  <2>2. result.released = hold[h].released /\ result.status = hold[h].status /\ result.amount = hold[h].amount
    BY <1>2, <2>1 DEF HoldRow
  <2> QED BY <1>3, <2>2 DEF seen, row, result
<1>4. CASE row # seen
  <2> DEFINE w == [hold[h] EXCEPT !.released = row.released, !.status = row.status]
  <2>1. result = w \/ result = [w EXCEPT !.slip = i]
    BY <1>1, <1>4
  <2>2. result.released = row.released /\ result.status = row.status /\ result.amount = hold[h].amount
    BY <1>2, <2>1 DEF HoldRow
  <2> QED BY <1>4, <2>2 DEF seen, row, result
<1> QED BY <1>3, <1>4

\* The loop never releases more than the amount of a row.
LEMMA SettledWithin ==
    ASSUME NEW holds \in [Holds -> HoldRow], NEW d \in Nat, NEW h \in Holds,
           Settled(holds, d, h) # holds[h]
    PROVE  Settled(holds, d, h).released <= holds[h].amount /\ holds[h].status = "HELD"
<1> DEFINE row == holds[h]
           left == LeftToCover(holds, d, h)
           rest == [k \in Holds |-> Remaining(holds[k])]
           T == {k \in Held(holds) : HoldRank[k] < HoldRank[h]}
<1>1. SumFunctionOnSet(rest, T) \in Int
  <2>1. IsFiniteSet(T) /\ T \subseteq Holds
    BY Ids, FS_Subset DEF Held
  <2>2. \A k \in T : rest[k] \in Int
    BY <2>1 DEF Remaining, HoldRow
  <2> QED BY <2>1, <2>2, SumInt
<1>2. left \in Nat
  <2> DEFINE before == SumFunctionOnSet(rest, T)
  <2>1. left = IF d > before THEN d - before ELSE 0
    BY DEF LeftToCover
  <2>2. before \in Int
    BY <1>1
  <2> HIDE DEF before, left
  <2> QED BY <2>1, <2>2
<1>3. row \in HoldRow /\ row.amount \in Nat
  BY DEF HoldRow
<1> DEFINE status == IF left = 0 THEN "RELEASED" ELSE "HELD"
<1>4. row.status = "HELD" /\ Settled(holds, d, h) = [row EXCEPT !.released = row.amount - left, !.status = status]
  BY DEF Settled
<1> HIDE DEF row, left, status
<1>5. Settled(holds, d, h).released = row.amount - left
  BY <1>3, <1>4 DEF HoldRow
<1>6. row.amount - left <= row.amount
  BY <1>2, <1>3
<1> QED BY <1>4, <1>5, <1>6 DEF row

\* Payroll create keeps releases within amounts.
LEMMA ReleasedPayroll ==
    ASSUME TInv, AloneInv, ReleasedOK, NEW s \in Sessions, NEW i \in Slips, NEW new \in Holds \cup {0},
           CommitPayroll(s, i, new)
    PROVE  ReleasedOK'
<1> SUFFICES ASSUME ~overlapped', NEW h \in Holds PROVE hold'[h].released <= hold'[h].amount
  BY DEF ReleasedOK
<1>1. ~overlapped /\ session[s].op = "payroll" /\ hold' = HoldsOf(s, i, new)
  BY DEF CommitPayroll, End, At
<1>2. CASE h = new
  <2>1. hold'[h] = [NoHold EXCEPT !.status = "HELD", !.amount = AutoHold(session[s].debt), !.slip = i]
    BY <1>1, <1>2 DEF HoldsOf
  <2>2. hold'[h].released = 0 /\ hold'[h].amount = AutoHold(session[s].debt)
    BY <2>1 DEF NoHold
  <2>3. AutoHold(session[s].debt) \in Nat
    <3>1. session[s].debt \in Nat
      BY PayrollAssumption DEF TInv, SessionRow
    <3> QED BY <3>1, AutoHoldNat
  <2> QED BY <2>2, <2>3
<1>3. CASE h # new
  <2> DEFINE row == Settled(session[s].holds, session[s].debt, h)
  <2>1. /\ row = session[s].holds[h] => hold'[h].released = hold[h].released
        /\ row # session[s].holds[h] => hold'[h].released = row.released
        /\ hold'[h].amount = hold[h].amount
    BY <1>1, <1>3, HoldsAfter
  <2>2. hold[h].released <= hold[h].amount
    BY <1>1 DEF ReleasedOK
  <2>3. session[s].holds \in [Holds -> HoldRow] /\ session[s].debt \in Nat
    BY PayrollAssumption DEF TInv, SessionRow
  <2>4. row # session[s].holds[h] =>
            row.released <= session[s].holds[h].amount /\ session[s].holds[h].status = "HELD"
    BY <2>3, SettledWithin
  <2>5. session[s].holds[h].status # "ABSENT" => session[s].holds[h].amount = hold[h].amount
    BY <1>1 DEF AloneInv, Known
  <2> HIDE DEF row
  <2> QED BY <2>1, <2>2, <2>4, <2>5
<1> QED BY <1>2, <1>3

\* Every step keeps releases within amounts.
LEMMA ReleasedNext ==
    ASSUME TInv, AloneInv, ReleasedOK, [Next]_vars
    PROVE  ReleasedOK'
<1>0. overlapped => overlapped'
  BY Calm
<1>1. ASSUME UNCHANGED hold PROVE ReleasedOK'
  BY <1>0, <1>1 DEF ReleasedOK
<1>2. ASSUME NEW s \in Sessions, NEW h \in Holds, CommitHold(s, h) PROVE ReleasedOK'
  <2> DEFINE row == [NoHold EXCEPT !.status = "HELD", !.amount = session[s].amount, !.slip = session[s].id]
  <2>1. hold' = [hold EXCEPT ![h] = row] /\ hold \in [Holds -> HoldRow] /\ session[s].amount \in Nat
    BY <1>2 DEF CommitHold, TInv, TypeOK, SessionRow
  <2>2. row.released = 0 /\ row.amount = session[s].amount
    BY DEF NoHold
  <2> HIDE DEF row
  <2> QED BY <1>0, <2>1, <2>2 DEF ReleasedOK
<1>3. ASSUME NEW h \in Holds, NEW amount \in HoldAmounts, CreateHold(h, amount) PROVE ReleasedOK'
  <2> DEFINE row == [NoHold EXCEPT !.status = "HELD", !.amount = amount]
  <2>1. hold' = [hold EXCEPT ![h] = row] /\ hold \in [Holds -> HoldRow] /\ amount \in Nat
    BY <1>3, PayrollAssumption DEF CreateHold, TInv, TypeOK
  <2>2. row.released = 0 /\ row.amount = amount
    BY DEF NoHold
  <2> HIDE DEF row
  <2> QED BY <1>0, <2>1, <2>2 DEF ReleasedOK
<1>4. ASSUME NEW s \in Sessions, CommitRelease(s) \/ CommitDisburse(s) PROVE ReleasedOK'
  <2> DEFINE i == session[s].id
  <2>1. i \in Holds /\ hold \in [Holds -> HoldRow] /\ hold[i] \in HoldRow
    BY <1>4 DEF CommitRelease, CommitDisburse, At, TInv, TypeOK, RefsOK
  <2>2. \/ hold' = [hold EXCEPT ![i].status = "RELEASED", ![i].released = hold[i].amount]
        \/ hold' = [hold EXCEPT ![i].disbursed = TRUE]
    BY <1>4 DEF CommitRelease, CommitDisburse
  <2> HIDE DEF i
  <2>3. \/ hold'[i] = [hold[i] EXCEPT !.status = "RELEASED", !.released = hold[i].amount]
        \/ hold'[i] = [hold[i] EXCEPT !.disbursed = TRUE]
    BY <2>1, <2>2
  <2>4. \A h \in Holds : h # i => hold'[h] = hold[h]
    BY <2>1, <2>2
  <2>5. hold'[i].amount = hold[i].amount /\ hold'[i].released \in {hold[i].amount, hold[i].released}
        /\ hold[i].amount \in Nat
    BY <2>1, <2>3 DEF HoldRow
  <2> QED BY <1>0, <2>1, <2>4, <2>5 DEF ReleasedOK
<1>5. CASE UNCHANGED vars
  BY <1>1, <1>5 DEF vars, rows
<1>6. CASE Next
  <2>1. Step
    BY <1>6 DEF Next
  <2> QED
    BY <2>1, <1>1, <1>2, <1>3, <1>4, ReleasedPayroll
       DEF Step, Begin, rows, BeginDecide, BeginDeduct, BeginPayroll, BeginRecalc, BeginHold, BeginRelease,
           BeginDisburse, Rollback, LockLoans, CommitDecide, CommitDeduct, CommitRecalc, RequestLoan,
           MarkPaid, PayoutReleased, DebtChanges
<1> QED BY <1>5, <1>6

\* What is held after a payroll that has read what is so.
LEMMA HeldAfter ==
    ASSUME TInv, TInv', ReleasedOK, ~overlapped, NEW s \in Sessions, NEW i \in Slips, NEW new \in Holds \cup {0},
           CommitPayroll(s, i, new), session[s].holds = hold, session[s].debt = debt
    PROVE  HeldTotal' = AutoHold(debt) + Least(HeldTotal, debt)
<1> DEFINE H == Held(hold)
           K == {h \in H : Settled(hold, debt, h).status = "HELD"}
           f == Rest(hold)
           g == After(hold, debt)
           r == Rest(hold')
           auto == AutoHold(debt)
<1>1. hold \in [Holds -> HoldRow] /\ hold' \in [Holds -> HoldRow] /\ debt \in Nat
      /\ \A h \in Holds : hold[h].released <= hold[h].amount
  BY PayrollAssumption DEF TInv, TypeOK, ReleasedOK
<1>2. hold' = HoldsOf(s, i, new)
      /\ (IF auto = 0 THEN new = 0 ELSE new # 0) /\ (new # 0 => hold[new].status = "ABSENT")
  BY NextFree DEF CommitPayroll
<1>3. ASSUME NEW h \in Holds, h # new
      PROVE  hold'[h].status = Settled(hold, debt, h).status /\ r[h] = g[h] /\ r[h] \in Int
  <2> DEFINE row == Settled(hold, debt, h)
  <2>1. /\ row = hold[h] => hold'[h].released = hold[h].released /\ hold'[h].status = hold[h].status
        /\ row # hold[h] => hold'[h].released = row.released /\ hold'[h].status = row.status
        /\ hold'[h].amount = hold[h].amount
    BY <1>2, <1>3, HoldsAfter
  <2>2. row.amount = hold[h].amount
    BY <1>1, SettledRow
  <2>3. r[h] = hold'[h].amount - hold'[h].released /\ g[h] = row.amount - row.released
    BY DEF Rest, After, Remaining
  <2>4. hold'[h].amount \in Nat /\ hold'[h].released \in Nat
    BY <1>1 DEF HoldRow
  <2> HIDE DEF row, r, g
  <2> QED BY <2>1, <2>2, <2>3, <2>4 DEF row
<1>4. /\ SumFunctionOnSet(g, H) = Least(SumFunctionOnSet(f, H), debt)
      /\ SumFunctionOnSet(f, H) \in Nat
  BY <1>1, LoopLeaves
<1>5. \A h \in H : h \in Holds /\ h # new /\ (h \notin K => g[h] = 0)
  <2>1. \A h \in H : h \in Holds /\ h # new
    BY <1>2, Ids DEF Held
  <2>2. \A h \in H : Settled(hold, debt, h).status # "HELD" => g[h] = 0
    BY <1>1, <2>1, SettledRest
  <2> QED BY <2>1, <2>2
<1>6. IsFiniteSet(H) /\ IsFiniteSet(K) /\ K \in SUBSET H
  BY Ids, FS_Subset DEF Held
<1>7. \A h \in H : g[h] \in Int /\ r[h] = g[h]
  <2>1. \A h \in Holds : h # new => r[h] = g[h] /\ r[h] \in Int
    BY <1>3
  <2> HIDE DEF r, g
  <2> QED BY <1>5, <2>1
<1>8. SumFunctionOnSet(r, K) = Least(SumFunctionOnSet(f, H), debt)
  <2> HIDE DEF r, g, H, K, f
  <2>1. SumFunctionOnSet(g, H) = SumFunctionOnSet(g, K)
    BY <1>5, <1>6, <1>7, SumWithin
  <2>2. SumFunctionOnSet(r, K) = SumFunctionOnSet(g, K)
    <3>1. \A h \in K : g[h] \in Int /\ r[h] = g[h]
      BY <1>6, <1>7
    <3> QED BY <1>6, <3>1, SumEqual
  <2> QED BY <1>4, <2>1, <2>2
<1>9. \A h \in Holds : h # new => (hold'[h].status = "HELD" <=> h \in K)
  <2>1. \A h \in Holds : hold[h].status # "HELD" => Settled(hold, debt, h) = hold[h]
    BY <1>1, SettledRow
  <2> QED BY <1>3, <2>1 DEF Held
<1>10. HeldTotal = SumFunctionOnSet(f, H) /\ HeldTotal' = SumFunctionOnSet(r, Held(hold'))
  BY DEF HeldTotal, Rest
<1>11. auto \in Nat
  BY <1>1, AutoHoldNat
<1>12. Least(SumFunctionOnSet(f, H), debt) \in Nat
  <2> HIDE DEF f, H
  <2> QED BY <1>1, <1>4 DEF Least
<1>13. CASE new = 0
  <2>1. Held(hold') = K
    BY <1>6, <1>5, <1>9, <1>13, Ids, ZenonT(30) DEF Held
  <2>2. auto = 0
    BY <1>2, <1>13
  <2> HIDE DEF r, K, f, H, auto
  <2>3. HeldTotal' = 0 + Least(HeldTotal, debt)
    BY <1>8, <1>10, <1>12, <2>1
  <2> QED BY <2>2, <2>3 DEF auto
<1>14. CASE new # 0
  <2>1. new \in Holds /\ new \notin K
    BY <1>5, <1>14
  <2>2. hold'[new] = [NoHold EXCEPT !.status = "HELD", !.amount = auto, !.slip = i]
    BY <1>2, <2>1 DEF HoldsOf
  <2>3. hold'[new].status = "HELD" /\ r[new] = auto
    <3>1. hold'[new].status = "HELD" /\ hold'[new].amount = auto /\ hold'[new].released = 0
      BY <2>2 DEF NoHold
    <3>2. r[new] = auto - 0
      BY <2>1, <3>1 DEF Rest, Remaining
    <3> QED BY <1>11, <3>1, <3>2
  <2>4. Held(hold') = K \cup {new}
    BY <1>5, <1>6, <1>9, <2>1, <2>3 DEF Held
  <2>5. \A h \in K \cup {new} : r[h] \in Int
    BY <1>3, <1>5, <1>6, <1>11, <2>3
  <2> HIDE DEF r, K, f, H, auto
  <2>6. SumFunctionOnSet(r, K \cup {new}) = r[new] + SumFunctionOnSet(r, K)
    BY <1>6, <2>1, <2>5, SumAddElement
  <2>7. HeldTotal' = auto + Least(HeldTotal, debt)
    BY <1>8, <1>10, <2>3, <2>4, <2>6
  <2> QED BY <2>7 DEF auto
<1> QED BY <1>13, <1>14

\* Cutting a payroll frees exactly what is held beyond the open debt and holds the
\* policy's share again, for any holds and any order of their ids
\* (debt-holds.service.ts releaseSettledHolds, buildHoldSnapshotForPayroll).
THEOREM HoldsFollow == Spec => HoldsFollowDebt
<1>1. Init => ReleasedOK
  <2>1. Init => \A h \in Holds : hold[h].released = 0 /\ hold[h].amount = 0
    BY DEF Init, NoHold
  <2> QED BY <2>1 DEF ReleasedOK
<1>2. TInv /\ AloneInv /\ ReleasedOK /\ [Next]_vars => ReleasedOK'
  BY ReleasedNext
<1>3. TInv /\ TInv' /\ AloneInv /\ ReleasedOK /\ [Next]_vars =>
        [\A i \in Slips, s \in Sessions :
            slip[i].status = "ABSENT" /\ slip'[i].status # "ABSENT" /\ ~overlapped'
            /\ At(s, "payroll", "locked") /\ session[s].debt = debt /\ session[s].holds = hold
            => HeldTotal' = AutoHold(debt) + (IF HeldTotal < debt THEN HeldTotal ELSE debt)]_vars
  <2> SUFFICES ASSUME TInv, TInv', AloneInv, ReleasedOK, [Next]_vars, NEW i \in Slips, NEW s \in Sessions,
                      slip[i].status = "ABSENT", slip'[i].status # "ABSENT", ~overlapped',
                      At(s, "payroll", "locked"), session[s].debt = debt, session[s].holds = hold
               PROVE  HeldTotal' = AutoHold(debt) + Least(HeldTotal, debt)
    BY DEF Least
  <2>1. (overlapped => overlapped') /\ (LoansCalm \/ SomePayroll \/ SomeRecalc)
    BY Calm
  <2>2. ~LoansCalm
    BY DEF LoansCalm
  <2>3. ~SomeRecalc
    BY RecalcRow DEF SomeRecalc
  <2>4. PICK t \in Sessions, j \in Slips, new \in Holds \cup {0} : CommitPayroll(t, j, new)
    BY <2>1, <2>2, <2>3 DEF SomePayroll
  <2>5. t = s /\ ~overlapped
    <3>1. Active(t) /\ Active(s)
      BY <2>4 DEF CommitPayroll, At, Active
    <3> QED BY <2>1, <3>1 DEF AloneInv, Alone
  <2> QED BY <2>4, <2>5, HeldAfter
<1> QED BY <1>1, <1>2, <1>3, TInvInit, TInvNext, AloneInit, AloneNext, PTL DEF Spec, HoldsFollowDebt
=============================================================================
