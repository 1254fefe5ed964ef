SPECIFICATION Spec
CONSTANTS
    MaxOrders = 3
    MaxBags = 2
    MaxDeposits = 2
    Total <- MCTotal
    Drivers = {d1}
    Amounts = {30}
    Slips = {s1}
    Sessions = {a, b, c}
    Operations = {"handover", "approve"}
    NoDriver = NoDriver
    NoSlip = NoSlip
SYMMETRY CustodySymmetry
INVARIANTS CashInOnePlace BagAmountExact
CHECK_DEADLOCK FALSE
