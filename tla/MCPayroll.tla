----------------------------- MODULE MCPayroll -----------------------------
(* TLC instances of Payroll. *)
EXTENDS Payroll, TLC

\* Loans of 5 minor units in instalments of 3: the last one is a part.
MCAmount == [l \in Loans |-> 5]
MCMonthly == [l \in Loans |-> 3]
MCCommission == [p \in Payouts |-> 7]

\* The ids of the holds sort against the order of their creation.
MCHoldRank == [h \in Holds |-> MaxHolds - h]

\* The three ledgers one by one, holds on their way in and on their way out:
\* what they share is the payslip's row, whose columns they write apart.
MCWorkloads == {{"payroll", "recalc", "deduct", "loan", "markPaid"},
                {"payroll", "payout"},
                {"payroll", "hold", "debt"},
                {"payroll", "release", "disburse", "debt"}}

\* No handler compares or orders sessions.
PayrollSymmetry == Permutations(Sessions)
=============================================================================
