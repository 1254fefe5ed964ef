--------------------------- MODULE MCCashCustody ---------------------------
(* TLC instances of CashCustody. *)
EXTENDS CashCustody, TLC

\* Invoices of 20, 10, 20, ... minor units.
MCTotal == [o \in 1 .. MaxOrders |-> 10 * (1 + (o % 2))]

\* No handler compares or orders drivers, slips or sessions.
CustodySymmetry == Permutations(Sessions) \cup Permutations(Drivers)
                   \cup Permutations(Slips)
=============================================================================
