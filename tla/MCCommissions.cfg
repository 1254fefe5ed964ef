SPECIFICATION LiveSpec
CONSTANTS
    Orders = {o1}
    Drivers = {d1, d2}
    MaxTransfers = 2
    Total <- MCTotal
    Sessions = {a, b}
    Operations = {"assign", "create", "finalize", "cancel", "handover"}
    NoDriver = NoDriver
    Timing <- MCTiming
    Window = 3
    MaxMissed = 2
    ScanLimit = 2
INVARIANTS LedgerFollowsOrders CashFromDebtor CommissionEarnedOnce NothingSlipsThrough
 
CHECK_DEADLOCK FALSE
