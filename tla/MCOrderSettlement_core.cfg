SPECIFICATION Spec
CONSTANTS
    MaxOrders = 2
    Txns = {t1, t2}
    NoTxn = NoTxn
    Handlers = {"createQuick", "posCheckout", "updateOrder", "finalizeGateway", "autoReconcile"}
    Amounts = {2}
    PosMethods = {"ONLINE", "DEBT_ON_ACCOUNT"}
    DeskMethods = {"CASH"}
    StaffTargets = {"PICKED_UP", "IN_PROGRESS", "OUT_FOR_DELIVERY", "COMPLETED", "CANCELED"}
    InitBalance = 3
    ImmediateDebt = TRUE
    MaxPasses = 2
    MaxSales = 2
SYMMETRY SessionSymmetry
INVARIANTS SettledOnce WalletDrawnMatchesJournal
PROPERTIES SettlementIsFinal ImplementsContract
CHECK_DEADLOCK FALSE
