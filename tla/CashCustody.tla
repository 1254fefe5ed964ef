---------------------------- MODULE CashCustody ----------------------------
(***************************************************************************)
(* The way of cash from a driver to the bank, for one branch:              *)
(*   finance/services/cash.service.ts     confirmHandover: a driver's cash *)
(*                              orders become a custody bag of the manager *)
(*   manager-custody/manager-custody.service.ts   the bag's deposit slip is*)
(*                              uploaded, then verified or rejected        *)
(*   finance/deposits.service.ts, finance/services/debt.service.ts         *)
(*                              a driver deposits cash at the bank himself *)
(*                              and an auditor approves it                 *)
(*   finance/bank-deposits.service.ts     slips registered without a bag   *)
(*                                                                         *)
(* Handlers run concurrently as PostgreSQL READ COMMITTED transactions.  A *)
(* handler is cut after its unlocked reads, and wherever it holds a row    *)
(* lock while it can still be overtaken on another row.                    *)
(*                                                                         *)
(* Amounts are in minor units (0.0001 KWD).                                *)
(***************************************************************************)
EXTENDS Integers, FiniteSets, Functions

CONSTANTS
    MaxOrders,   \* cash orders ever completed (bound)
    MaxBags,     \* custody bags ever opened (bound)
    MaxDeposits, \* deposit requests ever made (bound)
    Total,       \* the invoice total of each order
    Drivers,     \* the drivers of the branch
    Amounts,     \* amounts drivers deposit
    Slips,       \* images of deposit slips
    Sessions,    \* the database sessions that serve requests
    Operations,  \* which operations this deployment exercises
    NoDriver, NoSlip

Orders == 1 .. MaxOrders
Bags == 1 .. MaxBags
Deposits == 1 .. MaxDeposits

\* TOL of applyDriverDepositSettlement: 0.0001 KWD, one minor unit.
Tolerance == 1

AllOperations == {"handover", "upload", "verify", "reject", "approve",
                  "rejectDeposit", "registerSlip"}

ASSUME CustodyAssumption ==
    /\ MaxOrders \in Nat /\ MaxBags \in Nat /\ MaxDeposits \in Nat
    /\ Total \in [Orders -> Nat \ {0}]
    /\ Amounts \subseteq Nat \ {0}
    /\ Operations \subseteq AllOperations
    /\ NoDriver \notin Drivers /\ NoSlip \notin Slips

VARIABLES
    order,      \* the cash orders: who completed them and where the cash is
    bag,        \* ManagerCashCustody rows, with the orders they were made from
    bagGL,      \* CUSTODY_VERIFIED rows of the general ledger, per bag
    log,        \* slip of the BankDepositLog row linked to each bag
    loose,      \* BankDepositLog rows that are linked to no bag
    deposit,    \* Deposit rows, with the orders their approval released
    depositGL,  \* DRIVER_DEPOSIT rows of the general ledger, per deposit
    branchCash, \* Wallet.balance of the branch
    session     \* what each session is doing

bank == <<log, loose>>
vars == <<order, bag, bagGL, bank, deposit, depositGL, branchCash, session>>

BagStatus == {"PENDING_DEPOSIT", "AWAITING_VERIFICATION", "VERIFIED", "REJECTED"}
DepositStatus == {"PENDING", "APPROVED", "REJECTED"}

TotalOf(orders) == SumFunctionOnSet(Total, orders)

NoBag == [status |-> "ABSENT", orders |-> {}, amount |-> TotalOf({}), slip |-> NoSlip]
NoDeposit == [status |-> "ABSENT", driver |-> NoDriver, amount |-> 0, orders |-> {}]
Idle == [op |-> "idle", pc |-> "idle", id |-> 0, seen |-> {}, held |-> {},
         balance |-> 0, slip |-> NoSlip]

Init ==
    /\ order = [o \in Orders |-> [cash |-> "NONE", driver |-> NoDriver]]
    /\ bag = [b \in Bags |-> NoBag]
    /\ bagGL = [b \in Bags |-> 0]
    /\ log = [b \in Bags |-> NoSlip]
    /\ loose = {}
    /\ deposit = [d \in Deposits |-> NoDeposit]
    /\ depositGL = [d \in Deposits |-> 0]
    /\ branchCash = 0
    /\ session = [s \in Sessions |-> Idle]

-----------------------------------------------------------------------------
(* Sessions *)

Begin(s, op, id, seen, slip) ==
    /\ op \in Operations
    /\ session[s].pc = "idle"
    /\ session' = [session EXCEPT ![s] = [Idle EXCEPT !.op = op, !.pc = "read",
                        !.id = id, !.seen = seen, !.slip = slip]]

At(s, op, pc) == session[s].op = op /\ session[s].pc = pc

End(s) == session' = [session EXCEPT ![s] = Idle]

\* A thrown exception, a timeout or a crash: nothing of the transaction stays.
Rollback(s) ==
    /\ session[s].pc # "idle"
    /\ End(s)
    /\ UNCHANGED <<order, bag, bagGL, bank, deposit, depositGL, branchCash>>

\* Order rows an open transaction has updated: another UPDATE waits for it.
Held == UNION {session[s].held : s \in Sessions}

\* The same for a deposit row.
DepositFree(d) ==
    \A s \in Sessions : session[s].op = "approve"
        /\ session[s].pc \in {"updated", "released"} => session[s].id # d

WithDriver(o) == order[o].cash = "DRIVER"

\* Orders COMPLETED, PAID_TO_DRIVER and CASH of a driver.
Pending(d) == {o \in Orders : WithDriver(o) /\ order[o].driver = d}

\* Mutant: updateMany without its condition on cashStatus.
StillWithDriver_All(orders) == orders

\* The rows updateMany finds, under their locks, still PAID_TO_DRIVER.
StillWithDriver(orders) == {o \in orders : WithDriver(o)}

\* The same UPDATE of orders by both ways out of a driver's hands.
ToOffice(orders) ==
    order' = [o \in Orders |-> IF o \in orders THEN [order[o] EXCEPT !.cash = "OFFICE"]
                               ELSE order[o]]

\* A driver completes a cash order (orders are numbered by completedAt).
Collect(o, d) ==
    /\ order[o].cash = "NONE"
    /\ \A p \in Orders : p < o => order[p].cash # "NONE"
    /\ order' = [order EXCEPT ![o] = [cash |-> "DRIVER", driver |-> d]]
    /\ UNCHANGED <<bag, bagGL, bank, deposit, depositGL, branchCash, session>>

-----------------------------------------------------------------------------
(* confirmHandover *)

BeginHandover(s, d, slip) ==
    /\ Pending(d) # {}
    /\ Begin(s, "handover", 0, Pending(d), slip)
    /\ UNCHANGED <<order, bag, bagGL, bank, deposit, depositGL, branchCash>>

\* Mutant: updated.count is not compared with pending.length.
Unmoved_Any(orders) == TRUE

\* Fewer rows updated than read: ConflictException, a Rollback.
Unmoved(orders) == StillWithDriver(orders) = orders

\* The bag holds the orders updateMany moved and the total of those that were
\* read; with a slip it is ready to be verified.
CommitHandover(s, b) ==
    LET seen == session[s].seen
        slip == session[s].slip
    IN  /\ At(s, "handover", "read")
        /\ seen \cap Held = {}
        /\ Unmoved(seen)
        /\ bag[b] = NoBag /\ \A c \in Bags : c < b => bag[c] # NoBag
        /\ ToOffice(StillWithDriver(seen))
        /\ bag' = [bag EXCEPT ![b] =
                [status |-> IF slip = NoSlip THEN "PENDING_DEPOSIT"
                            ELSE "AWAITING_VERIFICATION",
                 orders |-> StillWithDriver(seen), amount |-> TotalOf(seen),
                 slip |-> slip]]
        /\ End(s)
        /\ UNCHANGED <<bagGL, bank, deposit, depositGL, branchCash>>

-----------------------------------------------------------------------------
(* uploadDepositSlip, verifyCustody, rejectCustody *)

\* The statuses each operation accepts, of the row it reads first.
Accepts(op) == IF op = "upload" THEN {"PENDING_DEPOSIT", "REJECTED"}
               ELSE {"AWAITING_VERIFICATION"}

\* Mutant: any bag is accepted.
BeginBag_Any(s, op, b, slip) ==
    /\ bag[b] # NoBag
    /\ Begin(s, op, b, {}, slip)
    /\ UNCHANGED <<order, bag, bagGL, bank, deposit, depositGL, branchCash>>

BeginBag(s, op, b, slip) ==
    /\ bag[b].status \in Accepts(op)
    /\ Begin(s, op, b, {}, slip)
    /\ UNCHANGED <<order, bag, bagGL, bank, deposit, depositGL, branchCash>>

\* The three UPDATEs have no condition on the status they find.
UploadSlip(s) ==
    LET b == session[s].id
    IN  /\ At(s, "upload", "read")
        /\ bag' = [bag EXCEPT ![b].status = "AWAITING_VERIFICATION",
                              ![b].slip = session[s].slip]
        /\ End(s)
        /\ UNCHANGED <<order, bagGL, bank, deposit, depositGL, branchCash>>

RejectBag(s) ==
    LET b == session[s].id
    IN  /\ At(s, "reject", "read")
        /\ bag' = [bag EXCEPT ![b].status = "REJECTED"]
        /\ End(s)
        /\ UNCHANGED <<order, bagGL, bank, deposit, depositGL, branchCash>>

\* The bank-deposit row of a verified bag: the one linked to it, else one with
\* its slip and amount (findFirst takes any), else a new one.  A row that is
\* linked to another bag is left as it is.
LinkDeposit(b) ==
    LET slip == bag[b].slip
        upload == [slip |-> slip, amount |-> bag[b].amount]
        others == {c \in Bags : log[c] = slip /\ bag[c].amount = bag[b].amount}
    IN  \/ /\ log[b] # NoSlip \/ others # {}
           /\ UNCHANGED bank
        \/ /\ log[b] = NoSlip /\ upload \in loose
           /\ log' = [log EXCEPT ![b] = slip]
           /\ loose' = loose \ {upload}
        \/ /\ log[b] = NoSlip /\ others = {} /\ upload \notin loose
           /\ log' = [log EXCEPT ![b] = slip]
           /\ UNCHANGED loose

VerifyBag(s) ==
    LET b == session[s].id
    IN  /\ At(s, "verify", "read")
        /\ bag' = [bag EXCEPT ![b].status = "VERIFIED"]
        /\ bagGL' = [bagGL EXCEPT ![b] = @ + 1]
        /\ LinkDeposit(b)
        /\ End(s)
        /\ UNCHANGED <<order, deposit, depositGL, branchCash>>

\* BankDepositsService.createFromUpload: the coverage check only flags.  (Bound:
\* one unlinked row at a time.)
RegisterSlip(slip, amount) ==
    /\ "registerSlip" \in Operations
    /\ loose = {}
    /\ loose' = {[slip |-> slip, amount |-> amount]}
    /\ UNCHANGED <<order, bag, bagGL, log, deposit, depositGL, branchCash, session>>

-----------------------------------------------------------------------------
(* DepositsService: a driver's own deposit *)

CreateDeposit(d, driver, amount) ==
    /\ {"approve", "rejectDeposit"} \cap Operations # {}
    /\ deposit[d] = NoDeposit /\ \A e \in Deposits : e < d => deposit[e] # NoDeposit
    /\ deposit' = [deposit EXCEPT ![d] = [status |-> "PENDING", driver |-> driver,
                                          amount |-> amount, orders |-> {}]]
    /\ UNCHANGED <<order, bag, bagGL, bank, depositGL, branchCash, session>>

\* updateStatus: the status is checked before the transaction starts.
BeginAudit(s, op, d) ==
    /\ deposit[d].status = "PENDING"
    /\ Begin(s, op, d, {}, NoSlip)
    /\ UNCHANGED <<order, bag, bagGL, bank, deposit, depositGL, branchCash>>

RejectDeposit(s) ==
    LET d == session[s].id
    IN  /\ At(s, "rejectDeposit", "read")
        /\ DepositFree(d)
        /\ deposit' = [deposit EXCEPT ![d].status = "REJECTED"]
        /\ End(s)
        /\ UNCHANGED <<order, bag, bagGL, bank, depositGL, branchCash>>

\* Mutant: an order that does not fit ends nothing and is taken as well.
Released_NoFit(orders, amount) == orders

\* applyDriverDepositSettlement: oldest first, an order that does not fit in what
\* remains is skipped, and the loop ends when nothing remains.
Released(orders, amount) ==
    LET fits(o, rest) == o \in orders /\ rest > 0 /\ Total[o] <= rest + Tolerance
        rest[o \in 0 .. MaxOrders] ==
            IF o = 0 THEN amount
            ELSE IF fits(o, rest[o - 1]) THEN rest[o - 1] - Total[o]
            ELSE rest[o - 1]
    IN  {o \in orders : fits(o, rest[o - 1])}

\* The deposit row is updated (and locked), then the driver's orders are read.
LockDeposit(s) ==
    LET d == session[s].id
    IN  /\ At(s, "approve", "read")
        /\ DepositFree(d)
        /\ session' = [session EXCEPT ![s].pc = "updated",
              ![s].seen = Released(Pending(deposit[d].driver), deposit[d].amount)]
        /\ UNCHANGED <<order, bag, bagGL, bank, deposit, depositGL, branchCash>>

\* updateMany moves those that are still with a driver; the branch wallet is read.
ReleaseOrders(s) ==
    LET seen == session[s].seen
    IN  /\ At(s, "approve", "updated")
        /\ seen \cap Held = {}
        /\ session' = [session EXCEPT ![s].pc = "released",
                          ![s].held = StillWithDriver(seen), ![s].balance = branchCash]
        /\ UNCHANGED <<order, bag, bagGL, bank, deposit, depositGL, branchCash>>

\* Mutant: the balance that was read is forgotten.
NewBalance_Overwrite(s, d) == deposit[d].amount

\* existing.balance.add(amountDecimal): the balance that was read, plus the amount.
NewBalance(s, d) == session[s].balance + deposit[d].amount

\* The branch wallet (which exists) is written, with one row in the ledger.
CommitApproval(s) ==
    LET d == session[s].id
        held == session[s].held
    IN  /\ At(s, "approve", "released")
        /\ ToOffice(held)
        /\ deposit' = [deposit EXCEPT ![d].status = "APPROVED",
                                      ![d].orders = @ \cup held]
        /\ depositGL' = [depositGL EXCEPT ![d] = @ + 1]
        /\ branchCash' = NewBalance(s, d)
        /\ End(s)
        /\ UNCHANGED <<bag, bagGL, bank>>

-----------------------------------------------------------------------------
Next ==
    \/ \E o \in Orders, d \in Drivers : Collect(o, d)
    \/ \E d \in Deposits, driver \in Drivers, amount \in Amounts :
            CreateDeposit(d, driver, amount)
    \/ \E slip \in Slips, amount \in Amounts : RegisterSlip(slip, amount)
    \/ \E s \in Sessions :
        \/ \E d \in Drivers, slip \in Slips \cup {NoSlip} : BeginHandover(s, d, slip)
        \/ \E b \in Bags :
            \/ CommitHandover(s, b)
            \/ \E slip \in Slips : BeginBag(s, "upload", b, slip)
            \/ \E op \in {"verify", "reject"} : BeginBag(s, op, b, NoSlip)
        \/ UploadSlip(s) \/ VerifyBag(s) \/ RejectBag(s)
        \/ \E d \in Deposits, op \in {"approve", "rejectDeposit"} : BeginAudit(s, op, d)
        \/ RejectDeposit(s) \/ LockDeposit(s) \/ ReleaseOrders(s) \/ CommitApproval(s)
        \/ Rollback(s)

Spec == Init /\ [][Next]_vars

-----------------------------------------------------------------------------
(* Properties *)

\* Every variable keeps its type.
TypeOK ==
    /\ order \in [Orders -> [cash : {"NONE", "DRIVER", "OFFICE"},
                             driver : Drivers \cup {NoDriver}]]
    /\ bag \in [Bags -> [status : BagStatus \cup {"ABSENT"}, orders : SUBSET Orders,
                         amount : {TotalOf(S) : S \in SUBSET Orders},
                         slip : Slips \cup {NoSlip}]]
    /\ bagGL \in [Bags -> Nat]
    /\ log \in [Bags -> Slips \cup {NoSlip}]
    /\ loose \subseteq [slip : Slips, amount : Amounts]
    /\ deposit \in [Deposits -> [status : DepositStatus \cup {"ABSENT"},
                                 driver : Drivers \cup {NoDriver}, amount : Nat,
                                 orders : SUBSET Orders]]
    /\ depositGL \in [Deposits -> Nat]
    /\ branchCash \in Nat
    /\ session \in [Sessions ->
            [op : AllOperations \cup {"idle"},
             pc : {"idle", "read", "updated", "released"},
             id : Nat, seen : SUBSET Orders, held : SUBSET Orders,
             balance : Nat, slip : Slips \cup {NoSlip}]]

\* The cash of an order leaves the driver once: it is in one bag, or was released
\* by one deposit, and never in both, whatever handovers and approvals overlap.
CashInOnePlace ==
    /\ \A o \in Orders : order[o].cash = "OFFICE" <=>
            \/ \E b \in Bags : o \in bag[b].orders
            \/ \E d \in Deposits : o \in deposit[d].orders
    /\ \A b, c \in Bags : b # c => bag[b].orders \cap bag[c].orders = {}
    /\ \A d, e \in Deposits : d # e => deposit[d].orders \cap deposit[e].orders = {}
    /\ \A b \in Bags, d \in Deposits : bag[b].orders \cap deposit[d].orders = {}

\* A bag's amount is the cash of exactly the orders that moved into it, although
\* the amount is computed before they are locked.
BagAmountExact == \A b \in Bags : bag[b].amount = TotalOf(bag[b].orders)

\* The general ledger books the settlement of a bag once, when it is verified
\* ("one row per VERIFIED bag").
BookedOnce ==
    \A b \in Bags : bagGL[b] = (IF bag[b].status = "VERIFIED" THEN 1 ELSE 0)

\* A verified bag stays verified: nothing bounces money that is at the bank.
VerifiedIsFinal ==
    [][\A b \in Bags : bag[b].status = "VERIFIED" => bag'[b].status = "VERIFIED"]_vars

\* A verified bag has a row of its own in the log of bank deposits.
VerifiedBagIsLogged ==
    \A b \in Bags : bag[b].status = "VERIFIED" => log[b] # NoSlip

\* A deposit is booked once, when it is approved ("Only pending deposits can be
\* updated").
ApprovedOnce ==
    \A d \in Deposits : depositGL[d] = (IF deposit[d].status = "APPROVED" THEN 1 ELSE 0)

\* The orders a deposit releases are covered by the money deposited, up to the
\* tolerance of one minor unit.
DepositCoversOrders ==
    \A d \in Deposits : TotalOf(deposit[d].orders) <= deposit[d].amount + Tolerance

\* The branch's cash is what the ledger says was deposited ("approved deposit
\* increases cash/bank custody balance").
BranchCashMatchesLedger ==
    branchCash = SumFunctionOnSet([d \in Deposits |-> depositGL[d] * deposit[d].amount],
                                  Deposits)

=============================================================================
