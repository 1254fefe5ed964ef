SPECIFICATION Spec
CONSTANTS
    MaxOrders = 2
    Txns = {t1}
    NoTxn = NoTxn
    Handlers = {"createQuick", "posCheckout", "updateOrder", "finalizeGateway", "manualMark", "autoReconcile"}
    Amounts = {1, 2}
    PosMethods = {"ONLINE", "CASH", "DEBT_ON_ACCOUNT", "SUBSCRIPTION_WALLET"}
    DeskMethods = {"CASH"}
    StaffTargets = {"PICKED_UP", "IN_PROGRESS", "OUT_FOR_DELIVERY", "COMPLETED", "CANCELED"}
    InitBalance = 2
    ImmediateDebt = TRUE
    MaxPasses = 2
    MaxSales = 2
SYMMETRY SessionSymmetry
PROPERTIES TerminalIsFinal ReconcilePaysInFull
CHECK_DEADLOCK FALSE
