----------------------------- MODULE MCSupply ------------------------------
(* TLC instances of Supply. *)
EXTENDS Supply, TLC

\* One operator has numbers from the old global counter.
MCLegacy == [d \in Drivers |-> IF d = CHOOSE e \in Drivers : TRUE THEN 1 ELSE 0]
MCBranchOf == [f \in Drivers |-> CHOOSE k \in Branches : TRUE]
MCOrdered == [i \in Items |-> 2]

\* Stock movements; sales with their serial numbers; purchase orders.
MCWorkloads == {{"stockIn", "stockOut", "adjust", "stocktake", "transfer"},
                {"sale"}, {"purchase"}}

\* No handler compares or orders tills, desks or items.
SupplySymmetry ==
    Permutations(Tills) \cup Permutations(Desks) \cup Permutations(Items)
=============================================================================
