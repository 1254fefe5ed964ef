SPECIFICATION LiveSpec
CONSTANTS
    Events = {e1, e2}
    Pods = {p1, p2}
    MaxAttempts = 3
    MaxConcurrent = 2
    BatchSize = 1
    MaxFaults = 2
    MaxReplays = 1
INVARIANTS DeliveredWasShipped EmitBound ReshipBound
PROPERTIES EventuallyDelivered
CHECK_DEADLOCK FALSE
