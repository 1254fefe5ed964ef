SPECIFICATION LiveSpec
CONSTANTS
    MaxDispatches = 2
    MaxOrders = 2
    Pairs = {c1}
    Pods = {p1, p2}
    Sessions = {a, b}
    BatchLimit = 1
    MaxFaults = 2
    Workloads <- MCWorkloads
    NoPair = NoPair
INVARIANTS ClosedByItsOrder CountedOnce StampsInOrder
PROPERTIES InvoicedIsCompleted
CHECK_DEADLOCK FALSE
