SPECIFICATION Spec
CONSTANTS
    Loans = {l1}
    Amount <- MCAmount
    Monthly <- MCMonthly
    PayDowns = {1}
    Payouts = {p1, p2}
    Commission <- MCCommission
    Months = {1, 2}
    MaxSlips = 2
    MaxHolds = 2
    HoldAmounts = {2}
    HoldRank <- MCHoldRank
    Debts = {0, 1, 3}
    Ceiling = NoCeiling
    NoCeiling = NoCeiling
    Sessions = {a, b}
    Workloads <- MCWorkloads
SYMMETRY PayrollSymmetry
INVARIANTS LoanConserved OneInstalmentPerMonth PayslipExact
 
CHECK_DEADLOCK FALSE
