SPECIFICATION Spec
CONSTANTS
    MaxOrders = 2
    Txns = {t1, t2}
    NoTxn = NoTxn
    Handlers = {"posCheckout", "updateOrder", "finalizeGateway"}
    Amounts = {1, 2}
    PosMethods = {"ONLINE", "DEBT_ON_ACCOUNT", "SUBSCRIPTION_WALLET"}
    DeskMethods = {"CASH"}
    StaffTargets = {"PICKED_UP", "CANCELED"}
    InitBalance = 1
    ImmediateDebt = TRUE
    MaxPasses = 2
    MaxSales = 2
SYMMETRY SessionSymmetry
INVARIANTS SaleOnce DebtMatchesReceivable RevenueRecognisedOnce 
CHECK_DEADLOCK FALSE
