------------------------- MODULE SettlementContract -------------------------
(***************************************************************************)
(* What the settlement of invoices promises to the rest of the system, with *)
(* no handler, lock or session in it: an invoice is settled against the     *)
(* customer's wallet once and for good, each settlement leaves one history  *)
(* row, and prepaid credit leaves the wallet only by being applied to the   *)
(* invoices settled in the same step.                                       *)
(***************************************************************************)
EXTENDS Integers

CONSTANTS
    Orders,     \* the invoices of the customer
    InitCredit  \* the customer's prepaid credit

VARIABLES
    settled,    \* the invoices settled so far
    times,      \* how many settlement rows each invoice has
    credit,     \* prepaid credit left
    applied     \* prepaid credit applied to invoices

vars == <<settled, times, credit, applied>>

Init ==
    /\ settled = {}
    /\ times = [o \in Orders |-> 0]
    /\ credit = InitCredit
    /\ applied = 0

\* One transaction settles a batch of open invoices with `spent` of the credit.
SettleBatch(batch, spent) ==
    /\ batch \cap settled = {}
    /\ settled' = settled \cup batch
    /\ times' = [o \in Orders |-> IF o \in batch THEN times[o] + 1 ELSE times[o]]
    /\ credit' = credit - spent
    /\ applied' = applied + spent

Next ==
    \E batch \in (SUBSET Orders) \ {{}}, spent \in 0 .. credit :
        SettleBatch(batch, spent)

Spec == Init /\ [][Next]_vars
=============================================================================
