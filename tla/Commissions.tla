---------------------------- MODULE Commissions ----------------------------
(***************************************************************************)
(* Commission on the orders of DebtTransfer:                               *)
(*   commissions/commission-earning.cron.ts      every ten minutes: earn on*)
(*                        what was completed or collected in the last half *)
(*                        hour, release what waited for collection         *)
(*   commissions/commission-earning.service.ts   earnForOrder,             *)
(*                        earnForJournalPayment, the two releases          *)
(*                                                                         *)
(* One active rule per mode.  The earner is the driver who first owed the  *)
(* order, so the module is composed with the transfers that move orders.   *)
(* A payout becomes PAID in module Payroll.                                *)
(***************************************************************************)
EXTENDS DebtTransfer

CONSTANTS
    Timing,    \* payoutTiming of the SALE and of the COLLECTION rule
    Window,    \* ticks of the look-back: SCAN_MINUTES / 10
    MaxMissed, \* ticks in a row the process may miss (restart, deploy)
    ScanLimit  \* take: 500

Modes == {"SALE", "COLLECTION"}
Timings == {"IMMEDIATE", "AFTER_COLLECTION", "END_OF_MONTH"}

ASSUME CommissionAssumption ==
    /\ Timing \in [Modes -> Timings]
    /\ Window \in Nat /\ MaxMissed \in Nat /\ ScanLimit \in Nat

VARIABLES
    payout, \* CommissionPayout rows: mode, order (or the order's payment), earner, status
    owed,   \* does the journal (account 1300) still show a balance on the order
    age,    \* ticks since the order was completed, and since its debt was paid
    missed  \* ticks missed in a row

commissionVars == <<payout, owed, age, missed>>
vars == <<transferVars, commissionVars>>

\* age 0 is "not yet"; it stops counting once it is out of the window.
Tock(n) == IF n = 0 \/ n > Window THEN n ELSE n + 1

Init ==
    /\ TransferInit
    /\ payout = {}
    /\ owed = [o \in Orders |-> FALSE]
    /\ age = [m \in Modes |-> [o \in Orders |-> 0]]
    /\ missed = 0

\* The driver keeps the cash, or the customer's debt is on account 1300.
CompleteOrder(o, owes) ==
    /\ Complete(o, IF owes THEN "NONE" ELSE "PAID_TO_DRIVER")
    /\ owed' = [owed EXCEPT ![o] = owes]
    /\ age' = [age EXCEPT !["SALE"][o] = 1]
    /\ UNCHANGED <<payout, missed>>

\* A PAYMENT entry of the journal clears the order's debt.
CollectDebt(o) ==
    /\ owed[o]
    /\ owed' = [owed EXCEPT ![o] = FALSE]
    /\ age' = [age EXCEPT !["COLLECTION"][o] = 1]
    /\ UNCHANGED <<payout, missed, transferVars>>

-----------------------------------------------------------------------------
(* The cron *)

\* Mutant: the look-back is one tick shorter.
InWindow_Short(m, o) == age[m][o] \in 1 .. Window - 1

InWindow(m, o) == age[m][o] \in 1 .. Window

\* take: 500, in no stated order.
Taken(S) == IF Cardinality(S) <= ScanLimit THEN {S} ELSE kSubset(ScanLimit, S)

\* Mutant: the driver of today earns, not the one who first owed the order.
Earner_Current(o) == order[o].driver

\* transferredFromDriverId ?? driverId
Earner(o) == OriginalDriver(o)

FirstStatus(m) == IF Timing[m] = "IMMEDIATE" THEN "RELEASED" ELSE "PENDING"

\* The rows inserted for these orders; the unique index (source, rule, earner)
\* turns a replay into a skip.
Earned(m, orders) ==
    {[mode |-> m, order |-> o, earner |-> Earner(o), status |-> FirstStatus(m)] :
        o \in {p \in orders : ~\E r \in payout :
                    r.mode = m /\ r.order = p /\ r.earner = Earner(p)}}

\* Mutant: the releases look for the payments' payouts instead of the sales'.
ReleaseAfterCollection_Collections(rows) ==
    {IF /\ r.mode = "COLLECTION" /\ r.status = "PENDING"
        /\ Timing["COLLECTION"] = "AFTER_COLLECTION"
        /\ ~owed[r.order]
     THEN [r EXCEPT !.status = "RELEASED"] ELSE r : r \in rows}

\* PENDING SALE payouts whose order has nothing open on account 1300.
ReleaseAfterCollection(rows) ==
    {IF /\ r.mode = "SALE" /\ r.status = "PENDING"
        /\ Timing["SALE"] = "AFTER_COLLECTION"
        /\ ~owed[r.order]
     THEN [r EXCEPT !.status = "RELEASED"] ELSE r : r \in rows}

\* One pass: completed orders, then journal payments, then the releases.
Scan ==
    \E sales \in Taken({o \in Orders : order[o].status = "COMPLETED" /\ InWindow("SALE", o)}),
       collections \in Taken({o \in Orders : InWindow("COLLECTION", o)}) :
        payout' = ReleaseAfterCollection(payout \cup Earned("SALE", sales)
                                                \cup Earned("COLLECTION", collections))

\* Ten minutes later, with the process up.
TickScan ==
    /\ Scan
    /\ age' = [m \in Modes |-> [o \in Orders |-> Tock(age[m][o])]]
    /\ missed' = 0
    /\ UNCHANGED <<owed, transferVars>>

\* Ten minutes later; the process was restarting, or the last pass still ran.
TickMissed ==
    /\ missed < MaxMissed
    /\ missed' = missed + 1
    /\ age' = [m \in Modes |-> [o \in Orders |-> Tock(age[m][o])]]
    /\ UNCHANGED <<payout, owed, transferVars>>

\* The nightly job: every END_OF_MONTH payout that is still PENDING.
ScanEndOfMonth ==
    /\ \E r \in payout : r.status = "PENDING" /\ Timing[r.mode] = "END_OF_MONTH"
    /\ payout' = {IF r.status = "PENDING" /\ Timing[r.mode] = "END_OF_MONTH"
                  THEN [r EXCEPT !.status = "RELEASED"] ELSE r : r \in payout}
    /\ UNCHANGED <<owed, age, missed, transferVars>>

Next ==
    \/ TransferNext /\ UNCHANGED commissionVars
    \/ \E o \in Orders : (\E owes \in BOOLEAN : CompleteOrder(o, owes)) \/ CollectDebt(o)
    \/ TickScan \/ TickMissed \/ ScanEndOfMonth

Spec == Init /\ [][Next]_vars

\* The scheduler keeps firing both crons.
Fairness == WF_vars(TickScan) /\ WF_vars(ScanEndOfMonth)
LiveSpec == Spec /\ Fairness

-----------------------------------------------------------------------------
(* Properties *)

PayoutRow == [mode : Modes, order : Orders, earner : Drivers,
              status : {"PENDING", "RELEASED"}]

\* Every row keeps its type (schema.prisma: CommissionPayout).
TypeOK ==
    /\ TransferTypeOK
    /\ payout \subseteq PayoutRow
    /\ owed \in [Orders -> BOOLEAN]
    /\ age \in [Modes -> [Orders -> 0 .. Window + 1]]
    /\ missed \in 0 .. MaxMissed

\* A sale earns one commission, and a collection one, although the cron sees
\* the order several times and its debt may move to another driver between two
\* passes; overlapping requests do no harm unless assignDriver overtakes the
\* completion.
CommissionEarnedOnce ==
    ~reassigned =>
        \A r, q \in payout : r.mode = q.mode /\ r.order = q.order => r = q

\* The look-back bridges the passes a restart misses: an order that has left the
\* window has earned its commission.
NothingSlipsThrough ==
    \A m \in Modes, o \in Orders :
        age[m][o] > Window => \E r \in payout : r.mode = m /\ r.order = o

\* Once nothing is owed on a completed order its sale commission is released.
SaleCommissionReleased ==
    \A o \in Orders :
        (order[o].status = "COMPLETED" /\ ~owed[o])
            ~> (\E r \in payout : r.mode = "SALE" /\ r.order = o /\ r.status = "RELEASED")
=============================================================================
