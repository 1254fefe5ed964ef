--------------------------- MODULE MCCommissions ---------------------------
(* TLC instances of Commissions. *)
EXTENDS Commissions, TLC

\* Invoices of the same size: which orders move is what matters.
MCTotal == [o \in Orders |-> 10]

\* The sale waits for collection, the collection for the night.
MCTiming == [m \in Modes |-> IF m = "SALE" THEN "AFTER_COLLECTION" ELSE "END_OF_MONTH"]
=============================================================================
