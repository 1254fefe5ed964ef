SPECIFICATION Spec
CONSTANTS
    Drivers = {d, e}
    MaxSerial = 3
    Legacy <- MCLegacy
    Tills = {t, u}
    NoDriver = NoDriver
    Branches = {b, c}
    BranchOf <- MCBranchOf
    Items = {x, y}
    Quantities = {1, 2}
    MaxLevel = 2
    Sales = 2
    MaxPOs = 2
    Ordered <- MCOrdered
    Desks = {p, q}
    MaxRequests = 5
    Workloads <- MCWorkloads
SYMMETRY SupplySymmetry
INVARIANTS   StockExplained 
CHECK_DEADLOCK FALSE
