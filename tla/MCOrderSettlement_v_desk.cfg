SPECIFICATION Spec
CONSTANTS
    MaxOrders = 1
    Txns = {t1, t2}
    NoTxn = NoTxn
    Handlers = {"createQuick", "finalizeGateway", "manualMark"}
    Amounts = {1}
    PosMethods = {"ONLINE"}
    DeskMethods = {"CASH"}
    StaffTargets = {"PICKED_UP"}
    InitBalance = 0
    ImmediateDebt = TRUE
    MaxPasses = 2
    MaxSales = 2
SYMMETRY SessionSymmetry
INVARIANTS SettledOnce
CHECK_DEADLOCK FALSE
