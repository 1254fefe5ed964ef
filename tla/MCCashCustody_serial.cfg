SPECIFICATION Spec
CONSTANTS
    MaxOrders = 3
    MaxBags = 2
    MaxDeposits = 2
    Total <- MCTotal
    Drivers = {d1, d2}
    Amounts = {9, 30}
    Slips = {s1}
    Sessions = {a}
    Operations = {"handover", "upload", "verify", "reject", "approve", "rejectDeposit", "registerSlip"}
    NoDriver = NoDriver
    NoSlip = NoSlip
SYMMETRY CustodySymmetry
INVARIANTS BookedOnce DepositCoversOrders BranchCashMatchesLedger
CHECK_DEADLOCK FALSE
