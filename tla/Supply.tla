------------------------------ MODULE Supply -------------------------------
(***************************************************************************)
(* Stock of the branches, purchase orders, and the sales that consume it:  *)
(*   inventory/inventory.service.ts     stockIn, stockOut, adjust,         *)
(*                 transfer, stocktake, applyOrderStockDecrement           *)
(*   purchase-orders/purchase-orders.service.ts   create, send, cancel,    *)
(*                 receive                                                 *)
(* on top of module Serials: the transaction that stamps an invoice also   *)
(* takes its goods from stock.                                             *)
(*                                                                         *)
(* Every operation reads a level and writes the new one as a number, in a  *)
(* transaction but without a lock: it is cut between read and write.       *)
(* `receive` is a chain of transactions: the receipt, one stockIn per      *)
(* line, the status.                                                       *)
(***************************************************************************)
EXTENDS Serials

CONSTANTS
    Branches,
    BranchOf,   \* the branch of each operator
    Items,
    Quantities, \* quantities of a request
    MaxLevel,   \* the largest stock level (bound)
    Sales,      \* stock movements by sales (bound)
    MaxPOs,     \* purchase orders ever created (bound)
    Ordered,    \* quantityOrdered of each line
    Desks,      \* inventory and purchasing requests served at the same time
    MaxRequests, \* requests ever started at the desks (bound)
    Workloads   \* kinds of operations exercised together

POs == 1 .. MaxPOs
StockOps == {"stockIn", "stockOut", "adjust", "stocktake"}
AllOperations == StockOps \cup {"transfer", "sale", "purchase"}

ASSUME SupplyAssumption ==
    /\ Quantities \subseteq Nat \ {0}
    /\ BranchOf \in [Drivers -> Branches]
    /\ MaxLevel \in Nat /\ Sales \in Nat /\ MaxPOs \in Nat /\ MaxRequests \in Nat
    /\ Ordered \in [Items -> Nat \ {0}]
    /\ Workloads \subseteq SUBSET AllOperations

VARIABLES
    level,    \* BranchStockLevel.quantityOnHand
    movement, \* the sum of the StockMovement rows of each level
    po,       \* PurchaseOrder rows: status, branch, quantityReceived per line, the sum
              \* of the receipt lines, and what stockIn booked for it
    desk,     \* what each request has read
    basket,   \* the level each till has read for its goods
    sold,     \* stock movements by sales so far
    asked,    \* desk requests so far
    overlapped,  \* history: two transactions have run at the same time
    interrupted, \* history: purchase orders whose receive stopped half way
    workload

stockVars == <<level, movement, po, desk, basket, sold, asked, overlapped, interrupted, workload>>
vars == <<serialVars, stockVars>>

None == [i \in Items |-> 0]
NoPO == [status |-> "ABSENT", branch |-> "none", received |-> None, receipts |-> None, stocked |-> None]
NoGoods == [branch |-> "none", item |-> "none", seen |-> 0]
Idle == [op |-> "idle", po |-> 0, branch |-> "none", to |-> "none", item |-> "none", quantity |-> 0,
         seen |-> 0, seenTo |-> 0, lines |-> None, read |-> None, left |-> {}, status |-> "ABSENT"]

Init ==
    /\ SerialInit
    /\ level = [b \in Branches |-> None]
    /\ movement = [b \in Branches |-> None]
    /\ po = [p \in POs |-> NoPO]
    /\ desk = [s \in Desks |-> Idle]
    /\ basket = [t \in Tills |-> NoGoods]
    /\ sold = 0
    /\ asked = 0
    /\ overlapped = FALSE
    /\ interrupted = {}
    /\ workload \in Workloads

-----------------------------------------------------------------------------
(* Requests *)

Busy == (\E s \in Desks : desk[s].op # "idle") \/ (\E t \in Tills : till[t].stage # "free")

Begin(s, kind, request) ==
    /\ kind \in workload
    /\ desk[s].op = "idle"
    /\ asked < MaxRequests /\ asked' = asked + 1
    /\ desk' = [desk EXCEPT ![s] = request]
    /\ overlapped' = (overlapped \/ Busy)
    /\ UNCHANGED <<serialVars, level, movement, po, basket, sold, interrupted, workload>>

\* What every later step of a request leaves alone.
Rest == UNCHANGED <<serialVars, basket, sold, asked, overlapped, workload>>

End(s) == desk' = [desk EXCEPT ![s] = Idle]

\* The request has booked a receipt and has more to do.
Receiving(s) == desk[s].lines # None /\ desk[s].op # "receive"

\* An exception, a timeout or a crash.  A receive that has booked its receipt
\* does not undo it.
Abort(s) ==
    /\ desk[s].op # "idle"
    /\ interrupted' = interrupted \cup (IF Receiving(s) THEN {desk[s].po} ELSE {})
    /\ End(s)
    /\ Rest /\ UNCHANGED <<level, movement, po>>

\* A level is written as a number; the movement row carries the difference.  (Only
\* a stocktake can find none, and then writes nothing.)
Book(b, i, seen, new) ==
    /\ new <= MaxLevel
    /\ level' = IF new = seen THEN level ELSE [level EXCEPT ![b][i] = new]
    /\ movement' = [movement EXCEPT ![b][i] = @ + new - seen]

-----------------------------------------------------------------------------
(* Inventory *)

BeginStock(s, op, b, i, q) ==
    Begin(s, op, [Idle EXCEPT !.op = op, !.branch = b, !.item = i, !.quantity = q, !.seen = level[b][i]])

\* Neither stockOut nor adjust may go below zero.
Allowed(op, seen, q) ==
    CASE op = "stockOut" -> seen >= q
      [] op = "adjust" -> seen + q >= 0
      [] OTHER -> TRUE

\* q is a quantity, a signed difference for adjust, a count for stocktake.
NewLevel(op, seen, q) ==
    CASE op \in {"stockIn", "adjust"} -> seen + q
      [] op = "stockOut" -> seen - q
      [] op = "stocktake" -> q

CommitStock(s) ==
    LET r == desk[s]
    IN  /\ r.op \in StockOps
        /\ Allowed(r.op, r.seen, r.quantity)
        /\ Book(r.branch, r.item, r.seen, NewLevel(r.op, r.seen, r.quantity))
        /\ End(s)
        /\ Rest /\ UNCHANGED <<po, interrupted>>

\* transfer reads and checks the source, then reads the destination.
BeginTransfer(s, b, c, i, q) ==
    /\ b # c
    /\ level[b][i] >= q
    /\ Begin(s, "transfer", [Idle EXCEPT !.op = "transfer", !.branch = b, !.to = c, !.item = i,
                                         !.quantity = q, !.seen = level[b][i]])

ReadTarget(s) ==
    /\ desk[s].op = "transfer"
    /\ desk' = [desk EXCEPT ![s].op = "transfer:to", ![s].seenTo = level[desk[s].to][desk[s].item]]
    /\ Rest /\ UNCHANGED <<level, movement, po, interrupted>>

\* Mutant: the destination gets nothing.
Arrived_None(r) == r.seenTo

Arrived(r) == r.seenTo + r.quantity

CommitTransfer(s) ==
    LET r == desk[s]
    IN  /\ r.op = "transfer:to"
        /\ Arrived(r) <= MaxLevel
        /\ level' = [level EXCEPT ![r.branch][r.item] = r.seen - r.quantity, ![r.to][r.item] = Arrived(r)]
        /\ movement' = [movement EXCEPT ![r.branch][r.item] = @ - r.quantity,
                                        ![r.to][r.item] = @ + r.quantity]
        /\ End(s)
        /\ Rest /\ UNCHANGED <<po, interrupted>>

-----------------------------------------------------------------------------
(* Sales *)

BeginSale(t, d, m) ==
    /\ "sale" \in workload
    /\ BeginStamp(t, d, m)
    /\ overlapped' = (overlapped \/ Busy)
    /\ UNCHANGED <<level, movement, po, desk, basket, sold, asked, interrupted, workload>>

\* A completed sale reads the level of its goods at the operator's branch.
ReadGoods(t, i) ==
    LET b == BranchOf[till[t].driver] IN
    /\ till[t].stage = "stamped" /\ basket[t] = NoGoods
    /\ sold < Sales /\ sold' = sold + 1
    /\ basket' = [basket EXCEPT ![t] = [branch |-> b, item |-> i, seen |-> level[b][i]]]
    /\ UNCHANGED <<serialVars, level, movement, po, desk, asked, overlapped, interrupted, workload>>

\* The level may go below zero: a missing hanger never blocks a sale.  Link orders
\* and goods without a stock item take nothing.
CommitSale(t) ==
    /\ CommitStamp(t)
    /\ IF basket[t] = NoGoods THEN UNCHANGED <<level, movement>>
       ELSE Book(basket[t].branch, basket[t].item, basket[t].seen, basket[t].seen - 1)
    /\ basket' = [basket EXCEPT ![t] = NoGoods]
    /\ UNCHANGED <<po, desk, sold, asked, overlapped, interrupted, workload>>

RollbackSale(t) ==
    /\ RollbackStamp(t)
    /\ basket' = [basket EXCEPT ![t] = NoGoods]
    /\ UNCHANGED <<level, movement, po, desk, sold, asked, overlapped, interrupted, workload>>

SaleStep(t) ==
    /\ Stamp(t) \/ StampNext(t)
    /\ UNCHANGED stockVars

Reassign(d, n, e) ==
    /\ "sale" \in workload
    /\ Move(d, n, e)
    /\ UNCHANGED stockVars

-----------------------------------------------------------------------------
(* Purchase orders *)

Created == {p \in POs : po[p].status # "ABSENT"}

\* nextPoNumber counts the orders of the day; the number is unique.
BeginCreate(s, b) ==
    Begin(s, "purchase", [Idle EXCEPT !.op = "create", !.branch = b, !.po = Cardinality(Created) + 1])

CommitCreate(s) ==
    LET p == desk[s].po
    IN  /\ desk[s].op = "create"
        /\ p \in POs \ Created
        /\ po' = [po EXCEPT ![p] = [NoPO EXCEPT !.status = "DRAFT", !.branch = desk[s].branch]]
        /\ End(s)
        /\ Rest /\ UNCHANGED <<level, movement, interrupted>>

BeginSend(s, p) ==
    /\ po[p].status = "DRAFT"
    /\ Begin(s, "purchase", [Idle EXCEPT !.op = "setStatus", !.po = p, !.status = "SENT"])

BeginCancel(s, p) ==
    /\ po[p].status \in {"DRAFT", "SENT", "PARTIALLY_RECEIVED"}
    /\ po[p].received = None
    /\ Begin(s, "purchase", [Idle EXCEPT !.op = "setStatus", !.po = p, !.status = "CANCELLED"])

\* send, cancel and the end of receive update by id.
SetStatus(s) ==
    /\ desk[s].op = "setStatus"
    /\ po' = [po EXCEPT ![desk[s].po].status = desk[s].status]
    /\ End(s)
    /\ Rest /\ UNCHANGED <<level, movement, interrupted>>

Fits(p, lines) == \A i \in Items : po[p].received[i] + lines[i] <= Ordered[i]

Receivable(p) == po[p].status \in {"SENT", "PARTIALLY_RECEIVED"}

BeginReceive(s, p, lines) ==
    /\ Receivable(p)
    /\ lines # None
    /\ Fits(p, lines)
    /\ Begin(s, "purchase", [Idle EXCEPT !.op = "receive", !.po = p, !.branch = po[p].branch,
                                  !.lines = lines, !.read = po[p].received])

\* One transaction: the receipt with its lines, and quantityReceived from the lines
\* read before it.
BookReceipt(s) ==
    LET r == desk[s]
    IN  /\ r.op = "receive"
        /\ po' = [po EXCEPT
                    ![r.po].received = [i \in Items |-> IF r.lines[i] = 0 THEN @[i]
                                                        ELSE r.read[i] + r.lines[i]],
                    ![r.po].receipts = [i \in Items |-> @[i] + r.lines[i]]]
        /\ desk' = [desk EXCEPT ![s].op = "stocking", ![s].left = {i \in Items : r.lines[i] > 0}]
        /\ Rest /\ UNCHANGED <<level, movement, interrupted>>

\* stockIn for a line, in a transaction of its own.
ReadLine(s, i) ==
    /\ desk[s].op = "stocking" /\ i \in desk[s].left
    /\ desk' = [desk EXCEPT ![s].op = "stockIn:po", ![s].item = i, ![s].seen = level[desk[s].branch][i]]
    /\ Rest /\ UNCHANGED <<level, movement, po, interrupted>>

\* Mutant: a line stays on the list after its stockIn.
Remaining_All(s) == desk[s].left

Remaining(s) == desk[s].left \ {desk[s].item}

CommitLine(s) ==
    LET r == desk[s]
    IN  /\ r.op = "stockIn:po"
        /\ Book(r.branch, r.item, r.seen, r.seen + r.lines[r.item])
        /\ po' = [po EXCEPT ![r.po].stocked[r.item] = @ + r.lines[r.item]]
        /\ desk' = [desk EXCEPT ![s].op = "stocking", ![s].left = Remaining(s)]
        /\ Rest /\ UNCHANGED interrupted

Complete(p, lines) == \A i \in Items : po[p].received[i] >= Ordered[i]

\* The status from the lines as they are now; SetStatus writes it.
ReadStatus(s) ==
    /\ desk[s].op = "stocking" /\ desk[s].left = {}
    /\ desk' = [desk EXCEPT ![s].op = "setStatus",
                            ![s].status = IF Complete(desk[s].po, desk[s].lines) THEN "RECEIVED"
                                          ELSE "PARTIALLY_RECEIVED"]
    /\ Rest /\ UNCHANGED <<level, movement, po, interrupted>>

-----------------------------------------------------------------------------

DeskNext(s) ==
    \/ Abort(s)
    \/ \E op \in StockOps, b \in Branches, i \in Items, q \in Quantities : BeginStock(s, op, b, i, q)
    \/ \E b \in Branches, i \in Items, q \in Quantities : BeginStock(s, "adjust", b, i, -q)
    \/ \E b \in Branches, i \in Items : BeginStock(s, "stocktake", b, i, 0)
    \/ CommitStock(s)
    \/ \E b, c \in Branches, i \in Items, q \in Quantities : BeginTransfer(s, b, c, i, q)
    \/ ReadTarget(s) \/ CommitTransfer(s)
    \/ \E b \in Branches : BeginCreate(s, b)
    \/ CommitCreate(s)
    \/ \E p \in POs : BeginSend(s, p) \/ BeginCancel(s, p)
    \/ SetStatus(s)
    \/ \E p \in POs, lines \in [Items -> Quantities \cup {0}] : BeginReceive(s, p, lines)
    \/ BookReceipt(s)
    \/ \E i \in Items : ReadLine(s, i)
    \/ CommitLine(s) \/ ReadStatus(s)

TillNext(t) ==
    \/ \E d \in Drivers, m \in Numbers \cup {0} : BeginSale(t, d, m)
    \/ SaleStep(t)
    \/ \E i \in Items : ReadGoods(t, i)
    \/ CommitSale(t) \/ RollbackSale(t)

Next ==
    \/ \E s \in Desks : DeskNext(s)
    \/ \E t \in Tills : TillNext(t)
    \/ \E d, e \in Drivers, n \in Numbers : Reassign(d, n, e)

Spec == Init /\ [][Next]_vars

-----------------------------------------------------------------------------
(* Properties *)

PORow == [status : {"ABSENT", "DRAFT", "SENT", "PARTIALLY_RECEIVED", "RECEIVED", "CANCELLED"},
          branch : Branches \cup {"none"}, received : [Items -> Nat], receipts : [Items -> Nat],
          stocked : [Items -> Nat]]

\* Every row keeps its type, and no line of a purchase order ever says more was
\* received than ordered, also when deliveries overlap.
TypeOK ==
    /\ SerialTypeOK
    /\ level \in [Branches -> [Items -> Int]]
    /\ movement \in [Branches -> [Items -> Int]]
    /\ po \in [POs -> PORow]
    /\ \A p \in POs, i \in Items : po[p].received[i] <= Ordered[i]
    /\ overlapped \in BOOLEAN
    /\ interrupted \subseteq POs
    /\ workload \in Workloads

\* The movement rows add up to the level they explain.  As long as transactions do
\* not overlap: two that do read the same level, and the second write drops the
\* first.
LevelIsMovements == ~overlapped => level = movement

\* A level goes below zero by sales only, also when transactions overlap: stockOut,
\* adjust and transfer write what their own check allowed.
OnlySalesGoBelowZero ==
    \A b \in Branches, i \in Items : level[b][i] < 0 => sold > 0

\* A stock level is what its movements say, and negative only by sales.
StockExplained == LevelIsMovements /\ OnlySalesGoBelowZero

\* A line's quantityReceived is the sum of its receipt lines and, unless a receive
\* is under way or stopped half way, is in stock.  As long as requests do not
\* overlap.
StockFollowsReceipts ==
    ~overlapped => \A p \in POs :
        /\ po[p].received = po[p].receipts
        /\ (\A i \in Items : po[p].stocked[i] <= po[p].receipts[i])
        /\ p \in interrupted \/ (\E s \in Desks : desk[s].po = p /\ Receiving(s))
           \/ po[p].stocked = po[p].receipts

\* The status of a purchase order says what its lines say: RECEIVED when all of it
\* has come, PARTIALLY_RECEIVED when some has, nothing in the other states.  Unless
\* a receive is under way or stopped half way (an order that was received in full
\* then stays SENT: it can neither receive nor be cancelled).  As long as requests
\* do not overlap.
StatusFollowsLines ==
    ~overlapped => \A p \in POs :
        p \in interrupted \/ (\E s \in Desks : desk[s].po = p /\ Receiving(s))
        \/ po[p].status = (IF po[p].received = None
                           THEN (IF po[p].status \in {"RECEIVED", "PARTIALLY_RECEIVED"} THEN "SENT"
                                 ELSE po[p].status)
                           ELSE IF \A i \in Items : po[p].received[i] = Ordered[i] THEN "RECEIVED"
                           ELSE "PARTIALLY_RECEIVED")

\* A purchase order's lines, receipts, stock and status tell the same story.
PurchaseExplained == StockFollowsReceipts /\ StatusFollowsLines

\* "No transition can leave RECEIVED or CANCELLED", which overlapping requests break:
\* send, cancel and receive check the status they read and update by id.
ClosedIsFinalAlways ==
    [][\A p \in POs : po[p].status \in {"RECEIVED", "CANCELLED"}
          => po'[p].status = po[p].status]_vars
=============================================================================
