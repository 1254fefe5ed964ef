------------------------- MODULE MCOrderSettlement -------------------------
(* TLC instances of OrderSettlement. *)
EXTENDS OrderSettlement, TLC

\* Sessions are interchangeable: no handler compares or orders them.
SessionSymmetry == Permutations(Txns)
=============================================================================
