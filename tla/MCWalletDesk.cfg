SPECIFICATION AuditSpec
CONSTANTS
    MaxInvoices = 2
    Total = 2
    MaxSubs = 2
    Price = 1
    Credit = 2
    Term = 2
    Payments = {1}
    Extension = 1
    MaxDays = 3
    MaxRequests = 4
    Sessions = {a, b}
    NewTotals = {1}
    Workloads <- MCWorkloads
SYMMETRY SessionSymmetry
INVARIANTS SubscriptionsSound  
PROPERTIES PaymentSettlesItsTotal
CHECK_DEADLOCK FALSE
