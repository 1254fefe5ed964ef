------------------------------ MODULE Serials ------------------------------
(***************************************************************************)
(* The serial numbers <prefix>-<n> of invoices, one stream per operator:   *)
(*   serials/serial-counter.service.ts   stampOrderSerial, incrementCounter*)
(*   serials/serial-gap.service.ts       scanGaps                          *)
(*   orders/orders.service.ts            the transactions that stamp       *)
(*                                                                         *)
(* A stamp reads the largest number among the operator's own orders and    *)
(* the counter row, raises the counter to that floor when it is behind,    *)
(* and increments it, all in the transaction that inserts the order.  The  *)
(* reads take no lock; the counter row is locked from the first write to   *)
(* it until the transaction ends.                                          *)
(***************************************************************************)
EXTENDS Integers, FiniteSets

CONSTANTS
    Drivers,   \* operators with a driverPrefix
    MaxSerial, \* the largest number ever issued (bound)
    Legacy,    \* numbers issued to each operator under the old global counter
    Tills,     \* order transactions that run at the same time
    NoDriver

Numbers == 1 .. MaxSerial

ASSUME SerialsAssumption ==
    /\ MaxSerial \in Nat
    /\ Legacy \in [Drivers -> 0 .. MaxSerial]
    /\ NoDriver \notin Drivers

VARIABLES
    holder,  \* holder[d][n]: Order.driverId of the order with serial number d-n
    counter, \* SerialCounter rows OU_<userId>, 0 when there is none
    till     \* what each order transaction has read and stamped

serialVars == <<holder, counter, till>>

Free == [stage |-> "free", driver |-> NoDriver, max |-> 0, current |-> 0, first |-> 0, value |-> 0]

SerialInit ==
    /\ holder = [d \in Drivers |-> [n \in Numbers |-> IF n <= Legacy[d] THEN d ELSE NoDriver]]
    /\ counter = [d \in Drivers |-> 0]
    /\ till = [t \in Tills |-> Free]

Issued(d) == {n \in Numbers : holder[d][n] # NoDriver}

\* The numbers of orders that are still with the operator who issued them.
Own(d) == {n \in Numbers : holder[d][n] = d}

\* maxSerialSuffixForOperator
IsMaxSuffix(m, d) == (m = 0 /\ Own(d) = {}) \/ (m \in Own(d) /\ \A n \in Own(d) : n <= m)

\* The two reads of stampOrderSerial.  (A counter read later than the orders is
\* only newer, and then it is not behind the floor.)
BeginStamp(t, d, m) ==
    /\ till[t].stage = "free"
    /\ IsMaxSuffix(m, d)
    /\ till' = [till EXCEPT ![t] = [stage |-> "read", driver |-> d, max |-> m, current |-> counter[d],
                                     first |-> 0, value |-> 0]]
    /\ UNCHANGED <<holder, counter>>

\* Another transaction has written the counter row and not ended.
Locked(d) == \E t \in Tills : till[t].stage = "stamped" /\ till[t].driver = d

\* The number after the floor was written (if the read counter was behind) and
\* incremented.
Stamped(t) ==
    IF till[t].max > till[t].current THEN till[t].max + 1 ELSE counter[till[t].driver] + 1

\* Mutant: no unique index on Order.serialNumber.
Unique_None(d, n) == n \in Numbers

\* schema.prisma: serialNumber is unique; a second order d-n fails the transaction.
Unique(d, n) == n \in Numbers \ Issued(d)

\* order.create with the number follows at once.
Stamp(t) ==
    /\ till[t].stage = "read"
    /\ ~Locked(till[t].driver)
    /\ Unique(till[t].driver, Stamped(t))
    /\ till' = [till EXCEPT ![t].stage = "stamped", ![t].first = Stamped(t), ![t].value = Stamped(t)]
    /\ UNCHANGED <<holder, counter>>

\* A payment bundle stamps its next order in the same transaction, which reads
\* its own writes.
StampNext(t) ==
    /\ till[t].stage = "stamped"
    /\ Unique(till[t].driver, till[t].value + 1)
    /\ till' = [till EXCEPT ![t].value = @ + 1]
    /\ UNCHANGED <<holder, counter>>

CommitStamp(t) ==
    LET d == till[t].driver
    IN  /\ till[t].stage = "stamped"
        /\ holder' = [holder EXCEPT ![d] =
                [n \in Numbers |-> IF n \in till[t].first .. till[t].value THEN d ELSE holder[d][n]]]
        /\ counter' = [counter EXCEPT ![d] = till[t].value]
        /\ till' = [till EXCEPT ![t] = Free]

\* Mutant: the counter is incremented outside of the order's transaction.
RollbackStamp_Counted(t) ==
    /\ till[t].stage # "free"
    /\ counter' = [d \in Drivers |-> IF till[t].stage = "stamped" /\ till[t].driver = d
                                     THEN till[t].value ELSE counter[d]]
    /\ till' = [till EXCEPT ![t] = Free]
    /\ UNCHANGED holder

\* An exception (a taken number too), a timeout or a crash.
RollbackStamp(t) ==
    /\ till[t].stage # "free"
    /\ till' = [till EXCEPT ![t] = Free]
    /\ UNCHANGED <<holder, counter>>

\* assignDriver or a debt transfer: the order keeps its number.
Move(d, n, e) ==
    /\ holder[d][n] # NoDriver /\ holder[d][n] # e
    /\ holder' = [holder EXCEPT ![d][n] = e]
    /\ UNCHANGED <<counter, till>>

SerialNext ==
    \/ \E t \in Tills :
        \/ \E d \in Drivers, m \in Numbers \cup {0} : BeginStamp(t, d, m)
        \/ Stamp(t) \/ StampNext(t) \/ CommitStamp(t) \/ RollbackStamp(t)
    \/ \E d, e \in Drivers, n \in Numbers : Move(d, n, e)

SerialSpec == SerialInit /\ [][SerialNext]_serialVars

-----------------------------------------------------------------------------
(* Properties *)

TillRow == [stage : {"free", "read", "stamped"}, driver : Drivers \cup {NoDriver},
            max : 0 .. MaxSerial, current : 0 .. MaxSerial,
            first : 0 .. MaxSerial, value : 0 .. MaxSerial]

SerialTypeOK ==
    /\ holder \in [Drivers -> [Numbers -> Drivers \cup {NoDriver}]]
    /\ counter \in [Drivers -> 0 .. MaxSerial]
    /\ till \in [Tills -> TillRow]

\* serial-gap.service.ts: a gap in an operator's stream can only appear if an order
\* was deleted.  Orders are never deleted here, and transactions that overlap,
\* fail or write a stale floor leave no gap: the numbers issued are 1 to the
\* largest.
NoGaps == \A d \in Drivers : \A n \in Issued(d) : \A m \in 1 .. n : m \in Issued(d)

\* Once an operator has a counter row, no number in use is above it: a stale floor
\* may be written under the lock, but it does not survive the transaction.
CounterCoversSerials ==
    \A d \in Drivers : counter[d] # 0 => \A n \in Issued(d) : n <= counter[d]

\* What a transaction has stamped is still unused when it commits, and nobody else
\* has stamped it: two orders never share a serial number.
NumbersFresh ==
    \A t \in Tills : till[t].stage = "stamped" =>
        /\ (till[t].first .. till[t].value) \cap Issued(till[t].driver) = {}
        /\ \A u \in Tills \ {t} : till[u].stage = "stamped" => till[u].driver # till[t].driver

\* scanGaps counts an operator's own orders only, so it also reports the numbers
\* of orders that moved to another driver.
ScanIsClean ==
    \A d \in Drivers : \A n \in Numbers :
        n <= counter[d] \/ (\E m \in Own(d) : n <= m) => n \in Own(d)
=============================================================================
