---------------------------- MODULE SupplyProofs ----------------------------
(***************************************************************************)
(* Serial numbers.  For any number of operators, order transactions and    *)
(* numbers: the serial numbers of an operator have no gap, no two orders   *)
(* share one, and the counter covers them, although a stamp may start from *)
(* a stale floor.  NoGaps is not inductive: the commit issues numbers that *)
(* were chosen some steps before.  SInv adds where they came from: the     *)
(* maximum a till has read is the number of an order (ReadOK), what it has *)
(* stamped follows the last number in use and nobody else can stamp for    *)
(* the same operator (StampedOK), and a counter that exists is itself in   *)
(* use (CounterOK).  The tills of module Supply stamp as module Serials    *)
(* says, so this holds where stock, purchase orders and sales run side by  *)
(* side.                                                                   *)
(*                                                                         *)
(* Stock and purchase orders.  For any number of branches, items, desks,   *)
(* tills, quantities and purchase orders: StockExplained and               *)
(* PurchaseExplained.  Three invariants, one on top of the other.  TInv    *)
(* holds whatever overlaps: what each request may rely on (RequestOK), and *)
(* that a level was read below zero after a sale only.  StockInv adds, as  *)
(* long as transactions have not overlapped, that at most one runs (Alone) *)
(* and that the level it has read is the one it overwrites (SeenOK).       *)
(* PurchaseInv adds what a receive knows of its purchase order between its *)
(* transactions (ReceiveOK).                                               *)
(***************************************************************************)
EXTENDS Supply, FiniteSetTheorems, TLAPS

-----------------------------------------------------------------------------
(* Serial numbers: the inductive invariant *)

ReadOK(t) ==
    till[t].stage = "read" => /\ till[t].driver \in Drivers
                              /\ till[t].max # 0 => till[t].max \in Issued(till[t].driver)

StampedOK(t) ==
    till[t].stage = "stamped" =>
        /\ till[t].driver \in Drivers
        /\ 1 <= till[t].first /\ till[t].first <= till[t].value
        /\ \A n \in Issued(till[t].driver) : n < till[t].first
        /\ \A n \in Numbers : n < till[t].first => n \in Issued(till[t].driver)

OneStamper ==
    \A t, u \in Tills : t # u /\ till[t].stage = "stamped" /\ till[u].stage = "stamped"
                        => till[t].driver # till[u].driver

CounterOK(d) ==
    counter[d] # 0 => counter[d] \in Issued(d) /\ \A n \in Issued(d) : n <= counter[d]

SInv ==
    /\ SerialTypeOK
    /\ NoGaps
    /\ \A d \in Drivers : CounterOK(d)
    /\ \A t \in Tills : ReadOK(t) /\ StampedOK(t)
    /\ OneStamper

-----------------------------------------------------------------------------

\* A free till satisfies what is said of tills.
LEMMA FreeType == Free \in TillRow /\ Free.stage = "free"
BY SerialsAssumption DEF Free, TillRow

\* The number a stamp takes is the one after the last number in use: a stale floor
\* that is not collides with the unique index.
LEMMA StampedIsNext ==
    ASSUME SInv, NEW t \in Tills, till[t].stage = "read",
           Unique(till[t].driver, Stamped(t))
    PROVE  /\ till[t].driver \in Drivers
           /\ Stamped(t) \in Numbers
           /\ \A n \in Issued(till[t].driver) : n < Stamped(t)
           /\ \A n \in Numbers : n < Stamped(t) => n \in Issued(till[t].driver)
<1> DEFINE d == till[t].driver  x == Stamped(t)
<1>1. d \in Drivers /\ (till[t].max # 0 => till[t].max \in Issued(d))
  BY DEF SInv, ReadOK
<1>2. x \in Numbers /\ x \notin Issued(d)
  BY DEF Unique
<1>3. Issued(d) \subseteq Numbers /\ Numbers \subseteq Nat
  BY SerialsAssumption DEF Issued, Numbers
<1>4. till[t] \in TillRow /\ counter[d] \in 0 .. MaxSerial
  BY <1>1 DEF SInv, SerialTypeOK
<1>5. \A n \in Issued(d) : \A m \in 1 .. n : m \in Issued(d)
  BY <1>1 DEF SInv, NoGaps
<1>6. \A n \in Issued(d) : n < x
  <2> SUFFICES ASSUME NEW n \in Issued(d), ~(n < x) PROVE FALSE
    OBVIOUS
  <2>1. n \in Nat /\ x \in Nat /\ 1 <= x
    BY <1>2, <1>3, SerialsAssumption DEF Numbers
  <2>2. x \in 1 .. n
    BY <2>1
  <2> QED BY <2>2, <1>5, <1>2
<1>7. x = till[t].max + 1 \/ x = counter[d] + 1
  BY DEF Stamped
<1>8. ASSUME NEW c \in 0 .. MaxSerial, x = c + 1, c # 0 => c \in Issued(d)
      PROVE  \A n \in Numbers : n < x => n \in Issued(d)
  <2> SUFFICES ASSUME NEW n \in Numbers, n < x PROVE n \in Issued(d)
    OBVIOUS
  <2>1. n \in 1 .. c /\ c # 0
    BY <1>8, SerialsAssumption DEF Numbers
  <2> QED BY <2>1, <1>5, <1>8
<1>9. till[t].max \in 0 .. MaxSerial
  BY <1>4 DEF TillRow
<1>10. counter[d] # 0 => counter[d] \in Issued(d)
  BY <1>1 DEF SInv, CounterOK
<1>11. \A n \in Numbers : n < x => n \in Issued(d)
  BY <1>7, <1>8, <1>9, <1>10, <1>1, <1>4
<1> QED BY <1>1, <1>2, <1>6, <1>11

-----------------------------------------------------------------------------
(* One step per action *)

\* No order transaction runs and the numbers in use are the legacy ones.
LEMMA InitSInv == SerialInit => SInv
<1> SUFFICES ASSUME SerialInit PROVE SInv
  OBVIOUS
<1> USE SerialsAssumption
<1>1. SerialTypeOK
  <2>1. holder \in [Drivers -> [Numbers -> Drivers \cup {NoDriver}]]
    BY DEF SerialInit
  <2>2. counter \in [Drivers -> 0 .. MaxSerial]
    BY DEF SerialInit
  <2>3. till \in [Tills -> TillRow]
    BY FreeType DEF SerialInit
  <2> QED BY <2>1, <2>2, <2>3 DEF SerialTypeOK
<1>2. \A d \in Drivers : Issued(d) = {n \in Numbers : n <= Legacy[d]}
  BY DEF SerialInit, Issued
<1>3. NoGaps
  BY <1>2 DEF NoGaps, Numbers
<1>4. \A d \in Drivers : CounterOK(d)
  BY DEF SerialInit, CounterOK
<1>5. \A t \in Tills : till[t].stage = "free"
  BY FreeType DEF SerialInit
<1>6. \A t \in Tills : ReadOK(t) /\ StampedOK(t)
  BY <1>5 DEF ReadOK, StampedOK
<1>7. OneStamper
  BY <1>5 DEF OneStamper
<1> QED BY <1>1, <1>3, <1>4, <1>6, <1>7 DEF SInv

\* A step that changes one till, and neither orders nor counters.
LEMMA OneTill ==
    ASSUME SInv, NEW t \in Tills, NEW r \in TillRow,
           till' = [till EXCEPT ![t] = r], UNCHANGED <<holder, counter>>,
           r.stage = "read" => /\ r.driver \in Drivers
                               /\ r.max # 0 => r.max \in Issued(r.driver),
           r.stage = "stamped" => /\ r.driver \in Drivers
                                  /\ 1 <= r.first /\ r.first <= r.value
                                  /\ \A n \in Issued(r.driver) : n < r.first
                                  /\ \A n \in Numbers : n < r.first => n \in Issued(r.driver)
                                  /\ \A u \in Tills \ {t} : till[u].stage = "stamped"
                                                            => till[u].driver # r.driver
    PROVE  SInv'
<1>1. \A u \in Tills : till'[u] = IF u = t THEN r ELSE till[u]
  BY DEF SInv, SerialTypeOK
<1>2. SerialTypeOK'
  BY DEF SInv, SerialTypeOK
<1>3. \A d : Issued(d)' = Issued(d)
  BY DEF Issued
<1>4. NoGaps'
  BY <1>3 DEF SInv, NoGaps
<1>5. \A d \in Drivers : CounterOK(d)'
  BY <1>3 DEF SInv, CounterOK
<1>6. \A u \in Tills : ReadOK(u)'
  BY <1>1, <1>3 DEF SInv, ReadOK
<1>7. \A u \in Tills : StampedOK(u)'
  BY <1>1, <1>3 DEF SInv, StampedOK
<1>8. OneStamper'
  BY <1>1 DEF SInv, OneStamper
<1> QED BY <1>2, <1>4, <1>5, <1>6, <1>7, <1>8 DEF SInv

\* The reads of a stamp.
LEMMA BeginStampSInv ==
    ASSUME SInv, NEW t \in Tills, NEW d \in Drivers, NEW m \in Numbers \cup {0}, BeginStamp(t, d, m)
    PROVE  SInv'
<1> DEFINE r == [stage |-> "read", driver |-> d, max |-> m, current |-> counter[d],
                 first |-> 0, value |-> 0]
<1>1. counter[d] \in 0 .. MaxSerial /\ m \in 0 .. MaxSerial
  BY SerialsAssumption DEF SInv, SerialTypeOK, Numbers
<1>2. r \in TillRow /\ r.stage = "read" /\ r.driver = d /\ r.max = m
  BY <1>1, SerialsAssumption DEF TillRow
<1>3. m # 0 => m \in Issued(d)
  BY SerialsAssumption DEF BeginStamp, IsMaxSuffix, Own, Issued
<1>4. till' = [till EXCEPT ![t] = r] /\ UNCHANGED <<holder, counter>>
  BY DEF BeginStamp
<1> HIDE DEF r
<1> QED BY <1>2, <1>3, <1>4, OneTill

\* The writes of the first stamp.
LEMMA StampSInv ==
    ASSUME SInv, NEW t \in Tills, Stamp(t)
    PROVE  SInv'
<1> DEFINE r == [till[t] EXCEPT !.stage = "stamped", !.first = Stamped(t), !.value = Stamped(t)]
<1>1. till[t].stage = "read" /\ Unique(till[t].driver, Stamped(t)) /\ ~Locked(till[t].driver)
  BY DEF Stamp
<1>2. /\ till[t].driver \in Drivers
      /\ Stamped(t) \in Numbers
      /\ \A n \in Issued(till[t].driver) : n < Stamped(t)
      /\ \A n \in Numbers : n < Stamped(t) => n \in Issued(till[t].driver)
  BY <1>1, StampedIsNext
<1>3. till[t] \in TillRow
  BY DEF SInv, SerialTypeOK
<1>4. Stamped(t) \in 0 .. MaxSerial /\ 1 <= Stamped(t) /\ Stamped(t) <= Stamped(t)
  BY <1>2, SerialsAssumption DEF Numbers
<1>5. /\ r \in TillRow /\ r.stage = "stamped" /\ r.driver = till[t].driver
      /\ r.first = Stamped(t) /\ r.value = Stamped(t)
  BY <1>3, <1>4 DEF TillRow
<1>6. till' = [till EXCEPT ![t] = r] /\ UNCHANGED <<holder, counter>>
  BY <1>3 DEF Stamp
<1>7. \A u \in Tills \ {t} : till[u].stage = "stamped" => till[u].driver # till[t].driver
  BY <1>1 DEF Locked
<1> HIDE DEF r
<1> QED BY <1>2, <1>4, <1>5, <1>6, <1>7, OneTill

\* The next order of a bundle.
LEMMA StampNextSInv ==
    ASSUME SInv, NEW t \in Tills, StampNext(t)
    PROVE  SInv'
<1> DEFINE r == [till[t] EXCEPT !.value = @ + 1]
<1>1. till[t].stage = "stamped" /\ till[t].value + 1 \in Numbers
  BY DEF StampNext, Unique
<1>2. till[t] \in TillRow /\ StampedOK(t) /\ OneStamper
  BY DEF SInv, SerialTypeOK
<1>3. /\ till[t].value \in 0 .. MaxSerial /\ till[t].first \in 0 .. MaxSerial
      /\ till[t].value + 1 \in 0 .. MaxSerial
  BY <1>1, <1>2, SerialsAssumption DEF TillRow, Numbers
<1>4. /\ r \in TillRow /\ r.stage = "stamped" /\ r.driver = till[t].driver
      /\ r.first = till[t].first /\ r.value = till[t].value + 1
  BY <1>1, <1>2, <1>3 DEF TillRow
<1>5. till[t].first <= till[t].value + 1
  BY <1>1, <1>2, <1>3, SerialsAssumption DEF StampedOK
<1>6. till' = [till EXCEPT ![t] = r] /\ UNCHANGED <<holder, counter>>
  BY <1>2 DEF StampNext
<1>7. \A u \in Tills \ {t} : till[u].stage = "stamped" => till[u].driver # till[t].driver
  BY <1>1, <1>2 DEF OneStamper
<1> HIDE DEF r
<1> QED BY <1>1, <1>2, <1>4, <1>5, <1>6, <1>7, OneTill DEF StampedOK

\* A transaction that ends without effect.
LEMMA RollbackStampSInv ==
    ASSUME SInv, NEW t \in Tills, RollbackStamp(t)
    PROVE  SInv'
BY FreeType, OneTill DEF RollbackStamp

\* The numbers of a till come into use.
LEMMA CommitStampSInv ==
    ASSUME SInv, NEW t \in Tills, CommitStamp(t)
    PROVE  SInv'
<1> USE SerialsAssumption
<1>0. /\ till[t].stage = "stamped" /\ StampedOK(t) /\ till[t] \in TillRow
      /\ till[t].driver \in Drivers
      /\ till[t].first \in 0 .. MaxSerial /\ till[t].value \in 0 .. MaxSerial
  BY DEF CommitStamp, SInv, StampedOK, SerialTypeOK, TillRow
<1>1. PICK d \in Drivers, f, v \in 0 .. MaxSerial :
          d = till[t].driver /\ f = till[t].first /\ v = till[t].value
  BY <1>0
<1>2. 1 <= f /\ f <= v /\ (\A n \in Issued(d) : n < f) /\ \A n \in Numbers : n < f => n \in Issued(d)
  BY <1>0, <1>1 DEF StampedOK
<1>3. f .. v \subseteq Numbers /\ v \in f .. v /\ Numbers \subseteq Nat
  BY <1>1, <1>2 DEF Numbers
<1>4. /\ holder' = [holder EXCEPT ![d] =
              [n \in Numbers |-> IF n \in f .. v THEN d ELSE holder[d][n]]]
      /\ counter' = [counter EXCEPT ![d] = v]
      /\ till' = [till EXCEPT ![t] = Free]
  BY <1>1 DEF CommitStamp
<1>5. SerialTypeOK
  BY DEF SInv
<1>6. SerialTypeOK'
  <2>1. [n \in Numbers |-> IF n \in f .. v THEN d ELSE holder[d][n]] \in [Numbers -> Drivers \cup {NoDriver}]
    BY <1>1, <1>5 DEF SerialTypeOK
  <2>2. holder' \in [Drivers -> [Numbers -> Drivers \cup {NoDriver}]]
    BY <2>1, <1>1, <1>4, <1>5 DEF SerialTypeOK
  <2>3. counter' \in [Drivers -> 0 .. MaxSerial]
    BY <1>1, <1>4, <1>5 DEF SerialTypeOK
  <2>4. till' \in [Tills -> TillRow]
    BY FreeType, <1>4, <1>5 DEF SerialTypeOK
  <2> QED BY <2>2, <2>3, <2>4 DEF SerialTypeOK
<1>7. Issued(d)' = Issued(d) \cup f .. v
  <2>1. \A n \in Numbers : holder'[d][n] = IF n \in f .. v THEN d ELSE holder[d][n]
    BY <1>1, <1>4, <1>5 DEF SerialTypeOK
  <2>2. d # NoDriver
    BY <1>1
  <2> QED BY <2>1, <2>2, <1>3 DEF Issued
<1>8. \A e \in Drivers : e # d => Issued(e)' = Issued(e) /\ counter'[e] = counter[e]
  BY <1>1, <1>4, <1>5 DEF Issued, SerialTypeOK
<1>9. NoGaps'
  <2> SUFFICES ASSUME NEW e \in Drivers, NEW n \in Issued(e)', NEW m \in 1 .. n
               PROVE  m \in Issued(e)'
    BY DEF NoGaps
  <2>1. CASE e # d
    BY <2>1, <1>8 DEF SInv, NoGaps
  <2>2. CASE e = d /\ n \in Issued(d)
    BY <2>2, <1>7 DEF SInv, NoGaps
  <2>3. CASE e = d /\ n \in f .. v
    <3>1. m \in Numbers
      BY <2>3, <1>1 DEF Numbers
    <3>2. m < f \/ m \in f .. v
      BY <2>3, <1>1
    <3> QED BY <3>1, <3>2, <2>3, <1>2, <1>7
  <2> QED BY <2>1, <2>2, <2>3, <1>7
<1>10. ASSUME NEW e \in Drivers PROVE CounterOK(e)'
  <2>1. CASE e # d
    BY <2>1, <1>8 DEF SInv, CounterOK
  <2>2. CASE e = d
    <3>1. counter'[d] = v
      BY <1>1, <1>4, <1>5 DEF SerialTypeOK
    <3>2. \A n \in Issued(d) : n <= v
      BY <1>1, <1>2, <1>3 DEF Issued
    <3>3. \A n \in f .. v : n <= v
      BY <1>1
    <3> QED BY <3>1, <3>2, <3>3, <2>2, <1>3, <1>7 DEF CounterOK
  <2> QED BY <2>1, <2>2
<1>11. \A u \in Tills : till'[u] = IF u = t THEN Free ELSE till[u]
  BY <1>4, <1>5 DEF SerialTypeOK
<1>12. ASSUME NEW u \in Tills PROVE ReadOK(u)' /\ StampedOK(u)'
  <2>1. CASE u = t
    BY <2>1, <1>11, FreeType DEF ReadOK, StampedOK
  <2>2. CASE u # t /\ till[u].stage = "read"
    <3>1. till'[u] = till[u] /\ till[u].driver \in Drivers
      BY <2>2, <1>11 DEF SInv, ReadOK
    <3>2. \A e \in Drivers : Issued(e) \subseteq Issued(e)'
      BY <1>7, <1>8
    <3>3. till[u].max # 0 => till[u].max \in Issued(till[u].driver)
      BY <2>2 DEF SInv, ReadOK
    <3> QED BY <2>2, <3>1, <3>2, <3>3 DEF ReadOK, StampedOK
  <2>3. CASE u # t /\ till[u].stage = "stamped"
    <3>1. till'[u] = till[u] /\ till[u].driver \in Drivers /\ till[u].driver # d
      BY <2>3, <1>0, <1>1, <1>11 DEF SInv, StampedOK, OneStamper
    <3>2. \A e \in Drivers : e # d => Issued(e)' = Issued(e)
      BY <1>8
    <3>3. StampedOK(u)
      BY DEF SInv
    <3> QED BY <2>3, <3>1, <3>2, <3>3 DEF ReadOK, StampedOK
  <2>4. CASE u # t /\ till[u].stage \notin {"read", "stamped"}
    BY <2>4, <1>11 DEF ReadOK, StampedOK
  <2> QED BY <2>1, <2>2, <2>3, <2>4
<1>13. OneStamper'
  BY <1>11, FreeType DEF SInv, OneStamper
<1> QED BY <1>6, <1>9, <1>10, <1>12, <1>13 DEF SInv

\* An order moves: its number stays in use.
LEMMA MoveSInv ==
    ASSUME SInv, NEW d \in Drivers, NEW e \in Drivers, NEW n \in Numbers, Move(d, n, e)
    PROVE  SInv'
<1>1. SerialTypeOK
  BY DEF SInv
<1>2. holder' = [holder EXCEPT ![d][n] = e] /\ counter' = counter /\ till' = till
  BY DEF Move
<1>3. SerialTypeOK'
  BY <1>1, <1>2 DEF SerialTypeOK
<1>4. \A c \in Drivers, m \in Numbers :
          holder'[c][m] = IF c = d /\ m = n THEN e ELSE holder[c][m]
  BY <1>1, <1>2 DEF SerialTypeOK
<1>5. holder[d][n] # NoDriver /\ e # NoDriver
  BY SerialsAssumption DEF Move
<1>6. \A c \in Drivers : Issued(c)' = Issued(c)
  BY <1>4, <1>5 DEF Issued
<1>7. NoGaps'
  BY <1>6 DEF SInv, NoGaps
<1>8. \A c \in Drivers : CounterOK(c)'
  BY <1>2, <1>6 DEF SInv, CounterOK
<1>9. \A t \in Tills : ReadOK(t)'
  BY <1>2, <1>6 DEF SInv, ReadOK
<1>10. \A t \in Tills : StampedOK(t)'
  BY <1>2, <1>6 DEF SInv, StampedOK
<1>11. OneStamper'
  BY <1>2 DEF SInv, OneStamper
<1> QED BY <1>3, <1>7, <1>8, <1>9, <1>10, <1>11 DEF SInv

\* SInv is inductive.
LEMMA StepSInv == SInv /\ [SerialNext]_serialVars => SInv'
<1> SUFFICES ASSUME SInv, [SerialNext]_serialVars PROVE SInv'
  OBVIOUS
<1>1. CASE UNCHANGED serialVars
  BY <1>1 DEF serialVars, SInv, SerialTypeOK, NoGaps, CounterOK, ReadOK, StampedOK, OneStamper, Issued
<1>2. CASE SerialNext
  BY <1>2, BeginStampSInv, StampSInv, StampNextSInv, CommitStampSInv, RollbackStampSInv, MoveSInv
     DEF SerialNext
<1> QED BY <1>1, <1>2

-----------------------------------------------------------------------------
(* Theorems *)

\* What the inductive invariant says, as the runs check it.
LEMMA SInvGives == SInv => SerialTypeOK /\ NoGaps /\ CounterCoversSerials /\ NumbersFresh
<1> SUFFICES ASSUME SInv PROVE CounterCoversSerials /\ NumbersFresh
  BY DEF SInv
<1>1. CounterCoversSerials
  BY DEF SInv, CounterOK, CounterCoversSerials
<1>2. ASSUME NEW t \in Tills, till[t].stage = "stamped"
      PROVE  (till[t].first .. till[t].value) \cap Issued(till[t].driver) = {}
  <2>1. \A n \in Issued(till[t].driver) : n < till[t].first /\ n \in Nat
    BY <1>2, SerialsAssumption DEF SInv, StampedOK, Issued, Numbers
  <2>2. till[t].first \in Nat /\ till[t].value \in Nat
    BY SerialsAssumption DEF SInv, SerialTypeOK, TillRow
  <2> QED BY <2>1, <2>2
<1>3. NumbersFresh
  BY <1>2 DEF SInv, OneStamper, NumbersFresh
<1> QED BY <1>1, <1>3

\* stampOrderSerial, under any interleaving of order transactions, failures and
\* moved orders, leaves no gap in an operator's numbers, gives no number twice and
\* keeps the counter row at the last number.
THEOREM SerialsCorrect ==
    SerialSpec => [](SerialTypeOK /\ NoGaps /\ CounterCoversSerials /\ NumbersFresh)
<1>1. SerialInit => SInv
  BY InitSInv
<1>2. SInv /\ [SerialNext]_serialVars => SInv'
  BY StepSInv
<1> QED BY <1>1, <1>2, SInvGives, PTL DEF SerialSpec

-----------------------------------------------------------------------------
(* Supply implements Serials *)

\* The desks leave the serial numbers alone.
LEMMA DeskKeepsSerials ==
    ASSUME NEW s \in Desks, DeskNext(s)
    PROVE  UNCHANGED serialVars
<1>1. ASSUME NEW kind, NEW request, Begin(s, kind, request) PROVE UNCHANGED serialVars
  BY <1>1 DEF Begin
<1>2. CASE Abort(s) \/ CommitStock(s) \/ ReadTarget(s) \/ CommitTransfer(s)
  BY <1>2 DEF Abort, CommitStock, ReadTarget, CommitTransfer, Rest
<1>3. CASE CommitCreate(s) \/ SetStatus(s) \/ BookReceipt(s) \/ CommitLine(s) \/ ReadStatus(s)
  BY <1>3 DEF CommitCreate, SetStatus, BookReceipt, CommitLine, ReadStatus, Rest
<1>4. CASE \E i \in Items : ReadLine(s, i)
  BY <1>4 DEF ReadLine, Rest
<1>5. ASSUME NEW op, NEW b, NEW i, NEW q, BeginStock(s, op, b, i, q) PROVE UNCHANGED serialVars
  BY <1>1, <1>5 DEF BeginStock
<1>6. CASE \E b, c \in Branches, i \in Items, q \in Quantities : BeginTransfer(s, b, c, i, q)
  BY <1>1, <1>6 DEF BeginTransfer
<1>7. CASE \E b \in Branches : BeginCreate(s, b)
  BY <1>1, <1>7 DEF BeginCreate
<1>8. CASE \E p \in POs : BeginSend(s, p) \/ BeginCancel(s, p)
  BY <1>1, <1>8 DEF BeginSend, BeginCancel
<1>9. CASE \E p \in POs, lines \in [Items -> Quantities \cup {0}] : BeginReceive(s, p, lines)
  BY <1>1, <1>9 DEF BeginReceive
<1> QED BY <1>2, <1>3, <1>4, <1>5, <1>6, <1>7, <1>8, <1>9 DEF DeskNext

\* A step of a till is a step of Serials, or reads the level of the goods.
LEMMA TillIsSerial ==
    ASSUME NEW t \in Tills, TillNext(t)
    PROVE  [SerialNext]_serialVars
<1>1. CASE \E d \in Drivers, m \in Numbers \cup {0} : BeginSale(t, d, m)
  BY <1>1 DEF BeginSale, SerialNext
<1>2. CASE SaleStep(t)
  BY <1>2 DEF SaleStep, SerialNext
<1>3. CASE \E i \in Items : ReadGoods(t, i)
  BY <1>3 DEF ReadGoods
<1>4. CASE CommitSale(t) \/ RollbackSale(t)
  BY <1>4 DEF CommitSale, RollbackSale, SerialNext
<1> QED BY <1>1, <1>2, <1>3, <1>4 DEF TillNext

\* Every behaviour of Supply is one of Serials.
THEOREM SupplyImplementsSerials == Spec => SerialSpec
<1>1. Init => SerialInit
  BY DEF Init
<1>2. ASSUME [Next]_vars PROVE [SerialNext]_serialVars
  <2>1. CASE UNCHANGED vars
    BY <2>1 DEF vars
  <2>2. CASE \E s \in Desks : DeskNext(s)
    BY <2>2, DeskKeepsSerials
  <2>3. CASE \E t \in Tills : TillNext(t)
    BY <2>3, TillIsSerial
  <2>4. CASE \E d, e \in Drivers, n \in Numbers : Reassign(d, n, e)
    BY <2>4 DEF Reassign, SerialNext
  <2> QED BY <1>2, <2>1, <2>2, <2>3, <2>4 DEF Next
<1> QED BY <1>1, <1>2, PTL DEF Spec, SerialSpec

\* So sales that overlap, fail or lose their goods leave no gap in an operator's
\* serial numbers and never give a number twice.
THEOREM SupplyNumbers == Spec => [](NoGaps /\ CounterCoversSerials /\ NumbersFresh)
BY SupplyImplementsSerials, SerialsCorrect, PTL

\* What is proved of the serial numbers, for the steps below.
LEMMA SupplySInv == Spec => []SInv
<1>1. SerialInit => SInv
  BY InitSInv
<1>2. SInv /\ [SerialNext]_serialVars => SInv'
  BY StepSInv
<1>3. SerialSpec => []SInv
  BY <1>1, <1>2, PTL DEF SerialSpec
<1> QED BY <1>3, SupplyImplementsSerials, PTL

-----------------------------------------------------------------------------
(* Stock and purchase orders: what holds whatever overlaps *)

OpenStatus == {"DRAFT", "SENT", "PARTIALLY_RECEIVED", "RECEIVED", "CANCELLED"}
LevelOps == StockOps \cup {"transfer", "transfer:to", "stockIn:po"}
ReceiveOps == {"receive", "stocking", "stockIn:po"}
DeskOps == LevelOps \cup ReceiveOps \cup {"idle", "create", "setStatus"}
DeskRow == [op : DeskOps, po : Nat, branch : Branches \cup {"none"},
            to : Branches \cup {"none"}, item : Items \cup {"none"}, quantity : Int,
            seen : Int, seenTo : Int, lines : [Items -> Nat], read : [Items -> Nat],
            left : SUBSET Items, status : OpenStatus \cup {"ABSENT"}]
Goods == [branch : Branches \cup {"none"}, item : Items \cup {"none"}, seen : Int]

\* What a request may rely on: the rows it names exist, a transfer was checked
\* against the level it read and a receive against what was ordered.
RequestOK(r) ==
    /\ r.op \in LevelOps => r.branch \in Branches /\ r.item \in Items
    /\ r.op \in {"transfer", "transfer:to"} =>
          r.to \in Branches /\ r.to # r.branch /\ r.quantity \in Nat /\ r.quantity <= r.seen
    /\ r.op \in {"stockIn", "stocktake"} => r.quantity \in Nat
    /\ r.op \in ReceiveOps \cup {"create"} => r.branch \in Branches
    /\ r.op = "receive" => \A i \in Items : r.read[i] + r.lines[i] <= Ordered[i]
    /\ r.op = "stockIn:po" => r.item \in r.left
    /\ r.op \in ReceiveOps => r.lines # None
    /\ r.lines # None => r.op \in ReceiveOps \cup {"setStatus"}
    /\ r.op = "setStatus" => r.status # "ABSENT"
    /\ r.op = "setStatus" /\ r.lines # None => r.left = {}
    /\ r.op = "setStatus" /\ r.lines = None => r.status \in {"SENT", "CANCELLED"}

NamesPO(r) == r.op \in ReceiveOps \cup {"setStatus"}

DeskOK(s) ==
    /\ RequestOK(desk[s])
    /\ NamesPO(desk[s]) => desk[s].po \in POs /\ po[desk[s].po].status # "ABSENT"
    /\ desk[s].seen < 0 \/ desk[s].seenTo < 0 => sold > 0

BasketOK(t) ==
    basket[t] # NoGoods =>
        basket[t].branch \in Branches /\ basket[t].item \in Items /\ sold > 0

POsOK ==
    \A p \in POs : /\ po[p].status # "ABSENT" => po[p].branch \in Branches
                   /\ \A i \in Items : po[p].received[i] <= Ordered[i]

Levels == [Branches -> [Items -> Int]]

TInv ==
    /\ level \in Levels /\ movement \in Levels
    /\ po \in [POs -> PORow] /\ desk \in [Desks -> DeskRow] /\ basket \in [Tills -> Goods]
    /\ sold \in Nat /\ overlapped \in BOOLEAN /\ interrupted \subseteq POs
    /\ workload \in Workloads
    /\ POsOK
    /\ \A s \in Desks : DeskOK(s)
    /\ \A t \in Tills : BasketOK(t)
    /\ OnlySalesGoBelowZero

\* The idle request, and the empty rows.
LEMMA IdleRow ==
    /\ None \in [Items -> Nat] /\ NoPO \in PORow /\ NoGoods \in Goods
    /\ Idle \in DeskRow /\ RequestOK(Idle) /\ Idle.op = "idle" /\ Idle.lines = None
    /\ Idle.seen = 0 /\ Idle.seenTo = 0
<1>1. None \in [Items -> Nat]
  BY DEF None
<1>2. NoPO \in PORow /\ NoGoods \in Goods
  BY <1>1 DEF NoPO, PORow, NoGoods, Goods
<1>3. /\ Idle.op = "idle" /\ Idle.lines = None /\ Idle.seen = 0 /\ Idle.seenTo = 0
  BY DEF Idle
<1>4. Idle \in DeskRow
  BY <1>1 DEF Idle, DeskRow, DeskOps, LevelOps
<1>5. RequestOK(Idle)
  BY <1>3 DEF RequestOK, LevelOps, ReceiveOps, StockOps
<1> QED BY <1>1, <1>2, <1>3, <1>4, <1>5

\* A step of a request, with the purchase orders and levels it writes.
LEMMA DeskTInv ==
    ASSUME TInv, NEW s \in Desks, NEW r \in DeskRow,
           desk' = [desk EXCEPT ![s] = r],
           RequestOK(r), NamesPO(r) => r.po \in POs /\ po'[r.po].status # "ABSENT",
           r.seen < 0 \/ r.seenTo < 0 => sold > 0,
           level' \in Levels, movement' \in Levels, OnlySalesGoBelowZero',
           po' \in [POs -> PORow], POsOK',
           \A p \in POs : po[p].status # "ABSENT" => po'[p].status # "ABSENT",
           overlapped' \in BOOLEAN, interrupted' \subseteq POs,
           UNCHANGED <<basket, sold, workload>>
    PROVE  TInv'
<1>1. \A u \in Desks : desk'[u] = IF u = s THEN r ELSE desk[u]
  BY DEF TInv
<1>2. desk' \in [Desks -> DeskRow] /\ sold' = sold /\ basket' = basket
  BY DEF TInv
<1>3. ASSUME NEW u \in Desks PROVE DeskOK(u)'
  <2>1. CASE u = s
    BY <2>1, <1>1, <1>2 DEF DeskOK
  <2>2. CASE u # s
    <3>1. desk'[u] = desk[u] /\ DeskOK(u)
      BY <2>2, <1>1 DEF TInv
    <3> QED BY <3>1, <1>2 DEF DeskOK
  <2> QED BY <2>1, <2>2
<1>4. \A t \in Tills : BasketOK(t)'
  BY <1>2 DEF TInv, BasketOK
<1> QED BY <1>2, <1>3, <1>4 DEF TInv

\* A step of a request that only reads.
LEMMA DeskReadsTInv ==
    ASSUME TInv, NEW s \in Desks, NEW r \in DeskRow,
           desk' = [desk EXCEPT ![s] = r],
           RequestOK(r), NamesPO(r) => r.po \in POs /\ po[r.po].status # "ABSENT",
           r.seen < 0 \/ r.seenTo < 0 => sold > 0,
           overlapped' \in BOOLEAN, interrupted' \subseteq POs,
           UNCHANGED <<level, movement, po, basket, sold, workload>>
    PROVE  TInv'
<1>1. level' \in Levels /\ movement' \in Levels /\ po' \in [POs -> PORow]
  BY DEF TInv
<1>2. OnlySalesGoBelowZero' /\ POsOK'
  BY DEF TInv, OnlySalesGoBelowZero, POsOK
<1>3. /\ \A p \in POs : po[p].status # "ABSENT" => po'[p].status # "ABSENT"
      /\ NamesPO(r) => r.po \in POs /\ po'[r.po].status # "ABSENT"
  OBVIOUS
<1> QED BY <1>1, <1>2, <1>3, DeskTInv

\* The first step of a request.
LEMMA BeginTInv ==
    ASSUME TInv, NEW s \in Desks, NEW kind, NEW r \in DeskRow, Begin(s, kind, r),
           RequestOK(r), NamesPO(r) => r.po \in POs /\ po[r.po].status # "ABSENT",
           r.seen < 0 \/ r.seenTo < 0 => sold > 0
    PROVE  TInv'
<1>1. desk' = [desk EXCEPT ![s] = r] /\ overlapped' \in BOOLEAN
  BY DEF Begin, Busy, TInv
<1>2. interrupted' \subseteq POs /\ UNCHANGED <<level, movement, po, basket, sold, workload>>
  BY DEF Begin, TInv
<1> QED BY <1>1, <1>2, DeskReadsTInv

\* A level is written and its movement row appended.
LEMMA BookEffect ==
    ASSUME level \in Levels, movement \in Levels,
           NEW b \in Branches, NEW i \in Items, NEW seen \in Int, NEW new \in Int,
           Book(b, i, seen, new)
    PROVE  /\ level' \in Levels /\ movement' \in Levels
           /\ \A c \in Branches, j \in Items :
                 /\ level'[c][j] = IF c = b /\ j = i /\ new # seen THEN new ELSE level[c][j]
                 /\ movement'[c][j] = IF c = b /\ j = i THEN movement[c][j] + new - seen
                                      ELSE movement[c][j]
<1>1. movement' = [movement EXCEPT ![b][i] = @ + new - seen]
  BY DEF Book
<1>2. movement[b][i] \in Int /\ movement[b][i] + new - seen \in Int
  BY DEF Levels
<1>3. /\ movement' \in Levels
      /\ \A c \in Branches, j \in Items :
            movement'[c][j] = IF c = b /\ j = i THEN movement[c][j] + new - seen ELSE movement[c][j]
  BY <1>1, <1>2 DEF Levels
<1>4. CASE new = seen
  <2>1. level' = level
    BY <1>4 DEF Book
  <2> QED BY <2>1, <1>3, <1>4
<1>5. CASE new # seen
  <2>1. level' = [level EXCEPT ![b][i] = new]
    BY <1>5 DEF Book
  <2>2. /\ level' \in Levels
        /\ \A c \in Branches, j \in Items : level'[c][j] = IF c = b /\ j = i THEN new ELSE level[c][j]
    BY <2>1 DEF Levels
  <2> QED BY <2>2, <1>3, <1>5
<1> QED BY <1>4, <1>5

\* A level that is written keeps the levels above zero, unless a sale has been made.
LEMMA BookAboveZero ==
    ASSUME level \in Levels, movement \in Levels, OnlySalesGoBelowZero,
           NEW b \in Branches, NEW i \in Items, NEW seen \in Int, NEW new \in Int,
           Book(b, i, seen, new), sold' = sold, new < 0 => sold > 0
    PROVE  OnlySalesGoBelowZero'
BY BookEffect DEF OnlySalesGoBelowZero

-----------------------------------------------------------------------------
(* One step per action *)

\* The rows of a request are what TInv says they are.
LEMMA DeskTypes ==
    ASSUME TInv, NEW s \in Desks
    PROVE  /\ desk[s] \in DeskRow /\ DeskOK(s)
           /\ desk[s].op \in DeskOps /\ desk[s].po \in Nat
           /\ desk[s].quantity \in Int /\ desk[s].seen \in Int /\ desk[s].seenTo \in Int
           /\ desk[s].lines \in [Items -> Nat] /\ desk[s].read \in [Items -> Nat]
           /\ desk[s].left \subseteq Items
BY DEF TInv, DeskRow

\* The levels are integers; one below zero had a sale.
LEMMA LevelTypes ==
    ASSUME TInv, NEW b \in Branches, NEW i \in Items
    PROVE  level[b][i] \in Int /\ (level[b][i] < 0 => sold > 0)
BY DEF TInv, Levels, OnlySalesGoBelowZero

\* The idle request relies on nothing.
LEMMA IdleOK ==
    /\ Idle \in DeskRow /\ RequestOK(Idle) /\ ~NamesPO(Idle)
    /\ ~(Idle.seen < 0 \/ Idle.seenTo < 0)
<1>1. ~NamesPO(Idle)
  BY IdleRow DEF NamesPO, ReceiveOps
<1> QED BY <1>1, IdleRow

\* An exception, a timeout or a crash.
LEMMA AbortTInv ==
    ASSUME TInv, NEW s \in Desks, Abort(s)
    PROVE  TInv'
<1>1. Receiving(s) => desk[s].po \in POs
  BY DeskTypes DEF Receiving, DeskOK, RequestOK, NamesPO
<1>2. interrupted' \subseteq POs
  BY <1>1 DEF Abort, TInv
<1>3. desk' = [desk EXCEPT ![s] = Idle] /\ UNCHANGED <<level, movement, po, basket, sold, workload>>
  BY DEF Abort, End, Rest
<1>4. overlapped' \in BOOLEAN
  BY DEF Abort, Rest, TInv
<1> QED BY <1>2, <1>3, <1>4, IdleOK, DeskReadsTInv

\* stockIn, stockOut, adjust and stocktake read the level.
LEMMA BeginStockTInv ==
    ASSUME TInv, NEW s \in Desks, NEW op \in StockOps, NEW b \in Branches, NEW i \in Items, NEW q \in Int,
           op \in {"stockIn", "stocktake"} => q \in Nat, BeginStock(s, op, b, i, q)
    PROVE  TInv'
<1> DEFINE r == [Idle EXCEPT !.op = op, !.branch = b, !.item = i, !.quantity = q, !.seen = level[b][i]]
<1>1. level[b][i] \in Int /\ (level[b][i] < 0 => sold > 0)
  BY LevelTypes
<1>2. /\ r.op = op /\ r.branch = b /\ r.item = i /\ r.quantity = q /\ r.seen = level[b][i]
      /\ r.seenTo = 0 /\ r.lines = None
  BY IdleRow DEF DeskRow
<1>3. r \in DeskRow
  BY <1>1, IdleRow DEF DeskRow, DeskOps, LevelOps
<1>4. Begin(s, op, r)
  BY DEF BeginStock
<1> HIDE DEF r
<1>5. RequestOK(r) /\ ~NamesPO(r)
  BY <1>2 DEF RequestOK, NamesPO, ReceiveOps, StockOps
<1> QED BY <1>1, <1>2, <1>3, <1>4, <1>5, BeginTInv

\* stockIn, stockOut, adjust and stocktake write it: below zero only what was there.
LEMMA CommitStockTInv ==
    ASSUME TInv, NEW s \in Desks, CommitStock(s)
    PROVE  TInv'
<1>0. desk[s] \in DeskRow /\ DeskOK(s) /\ desk[s].op \in StockOps
  BY DeskTypes DEF CommitStock
<1>1. PICK op \in StockOps, b \in Branches, i \in Items, seen \in Int, q \in Int :
          /\ op = desk[s].op /\ b = desk[s].branch /\ i = desk[s].item
          /\ seen = desk[s].seen /\ q = desk[s].quantity
  BY <1>0, DeskTypes DEF DeskOK, RequestOK, LevelOps
<1>2. /\ Allowed(op, seen, q) /\ Book(b, i, seen, NewLevel(op, seen, q))
      /\ op \in {"stockIn", "stocktake"} => q \in Nat
      /\ seen < 0 => sold > 0
  BY <1>0, <1>1 DEF CommitStock, DeskOK, RequestOK
<1>3. PICK new \in Int : new = NewLevel(op, seen, q) /\ (new < 0 => seen < 0)
  <2>1. CASE op = "stockIn"
    BY <2>1, <1>2 DEF NewLevel
  <2>2. CASE op = "stocktake"
    BY <2>2, <1>2 DEF NewLevel
  <2>3. CASE op = "adjust"
    BY <2>3, <1>2 DEF NewLevel, Allowed
  <2>4. CASE op = "stockOut"
    BY <2>4, <1>2 DEF NewLevel, Allowed
  <2> QED BY <2>1, <2>2, <2>3, <2>4 DEF StockOps
<1>4. level \in Levels /\ movement \in Levels /\ OnlySalesGoBelowZero /\ sold' = sold
  BY DEF TInv, CommitStock, Rest
<1>5. level' \in Levels /\ movement' \in Levels /\ OnlySalesGoBelowZero'
  BY <1>2, <1>3, <1>4, BookEffect, BookAboveZero
<1>6. desk' = [desk EXCEPT ![s] = Idle] /\ UNCHANGED <<po, basket, sold, workload>>
  BY DEF CommitStock, End, Rest
<1>7. /\ po' \in [POs -> PORow] /\ POsOK' /\ overlapped' \in BOOLEAN /\ interrupted' \subseteq POs
      /\ \A p \in POs : po[p].status # "ABSENT" => po'[p].status # "ABSENT"
  BY DEF CommitStock, Rest, TInv, POsOK
<1> QED BY <1>5, <1>6, <1>7, IdleOK, DeskTInv

\* A transfer reads its source, which must have enough.
LEMMA BeginTransferTInv ==
    ASSUME TInv, NEW s \in Desks, NEW b \in Branches, NEW c \in Branches, NEW i \in Items,
           NEW q \in Quantities, BeginTransfer(s, b, c, i, q)
    PROVE  TInv'
<1> DEFINE r == [Idle EXCEPT !.op = "transfer", !.branch = b, !.to = c, !.item = i,
                             !.quantity = q, !.seen = level[b][i]]
<1>1. level[b][i] \in Int /\ (level[b][i] < 0 => sold > 0) /\ q \in Nat
  BY LevelTypes, SupplyAssumption
<1>2. /\ r.op = "transfer" /\ r.branch = b /\ r.to = c /\ r.item = i /\ r.quantity = q
      /\ r.seen = level[b][i] /\ r.seenTo = 0 /\ r.lines = None
  BY IdleRow DEF DeskRow
<1>3. r \in DeskRow
  <2>1. "transfer" \in DeskOps /\ q \in Int
    BY <1>1 DEF DeskOps, LevelOps
  <2> QED BY <2>1, <1>1, IdleRow DEF DeskRow
<1>4. Begin(s, "transfer", r) /\ b # c /\ q <= level[b][i]
  BY <1>1 DEF BeginTransfer
<1> HIDE DEF r
<1>5. RequestOK(r) /\ ~NamesPO(r)
  BY <1>1, <1>2, <1>4 DEF RequestOK, NamesPO, ReceiveOps, StockOps, LevelOps
<1> QED BY <1>1, <1>2, <1>3, <1>4, <1>5, BeginTInv

\* A transfer reads its destination.
LEMMA ReadTargetTInv ==
    ASSUME TInv, NEW s \in Desks, ReadTarget(s)
    PROVE  TInv'
<1> DEFINE x == level[desk[s].to][desk[s].item]
           r == [desk[s] EXCEPT !.op = "transfer:to", !.seenTo = x]
<1>0. desk[s] \in DeskRow /\ DeskOK(s) /\ desk[s].op = "transfer"
  BY DeskTypes DEF ReadTarget
<1>1. /\ desk[s].branch \in Branches /\ desk[s].item \in Items /\ desk[s].to \in Branches
      /\ desk[s].to # desk[s].branch /\ desk[s].quantity \in Nat /\ desk[s].quantity <= desk[s].seen
      /\ desk[s].lines = None /\ (desk[s].seen < 0 => sold > 0)
  BY <1>0 DEF DeskOK, RequestOK, LevelOps, ReceiveOps
<1>2. x \in Int /\ (x < 0 => sold > 0)
  BY <1>1, LevelTypes
<1>3. /\ r.op = "transfer:to" /\ r.seenTo = x
      /\ r.branch = desk[s].branch /\ r.to = desk[s].to /\ r.item = desk[s].item
      /\ r.quantity = desk[s].quantity /\ r.seen = desk[s].seen /\ r.lines = desk[s].lines
  BY <1>0 DEF DeskRow
<1>4. r \in DeskRow
  BY <1>0, <1>2 DEF DeskRow, DeskOps, LevelOps
<1>5. desk' = [desk EXCEPT ![s] = r]
  BY <1>0 DEF ReadTarget, DeskRow
<1>6. /\ UNCHANGED <<level, movement, po, basket, sold, workload>>
      /\ overlapped' \in BOOLEAN /\ interrupted' \subseteq POs
  BY DEF ReadTarget, Rest, TInv
<1> HIDE DEF r, x
<1>7. RequestOK(r) /\ ~NamesPO(r)
  BY <1>1, <1>3 DEF RequestOK, NamesPO, ReceiveOps, StockOps, LevelOps
<1> QED BY <1>1, <1>2, <1>3, <1>4, <1>5, <1>6, <1>7, DeskReadsTInv

\* The rows of a transfer.
LEMMA TransferRow ==
    ASSUME TInv, NEW s \in Desks, CommitTransfer(s)
    PROVE  \E b, c \in Branches, i \in Items, seen \in Int, seenTo \in Int, q \in Nat :
              /\ b = desk[s].branch /\ c = desk[s].to /\ i = desk[s].item /\ b # c
              /\ seen = desk[s].seen /\ seenTo = desk[s].seenTo /\ q = desk[s].quantity /\ q <= seen
<1>1. DeskOK(s) /\ desk[s].op = "transfer:to"
  BY DeskTypes DEF CommitTransfer
<1> QED BY <1>1, DeskTypes DEF DeskOK, RequestOK, LevelOps

\* A transfer writes both levels, as numbers, and both movement rows.
LEMMA TransferEffect ==
    ASSUME TInv, NEW s \in Desks, CommitTransfer(s)
    PROVE  /\ level' \in Levels /\ movement' \in Levels
           /\ \A d \in Branches, j \in Items :
                 level'[d][j] = IF d = desk[s].branch /\ j = desk[s].item
                                THEN desk[s].seen - desk[s].quantity
                                ELSE IF d = desk[s].to /\ j = desk[s].item
                                THEN desk[s].seenTo + desk[s].quantity ELSE level[d][j]
           /\ \A d \in Branches, j \in Items :
                 movement'[d][j] = IF d = desk[s].branch /\ j = desk[s].item
                                   THEN movement[d][j] - desk[s].quantity
                                   ELSE IF d = desk[s].to /\ j = desk[s].item
                                   THEN movement[d][j] + desk[s].quantity ELSE movement[d][j]
<1>0. PICK b, c \in Branches, i \in Items, seen \in Int, seenTo \in Int, q \in Nat :
          /\ b = desk[s].branch /\ c = desk[s].to /\ i = desk[s].item /\ b # c
          /\ seen = desk[s].seen /\ seenTo = desk[s].seenTo /\ q = desk[s].quantity /\ q <= seen
  BY TransferRow
<1>1. level \in Levels /\ movement \in Levels
  BY DEF TInv
<1>2. PICK x, y, m, n \in Int : /\ x = seen - q /\ y = seenTo + q
                               /\ m = movement[b][i] - q /\ n = movement[c][i] + q
  <2>1. movement[b][i] \in Int /\ movement[c][i] \in Int
    BY <1>1 DEF Levels
  <2>2. /\ seen - q \in Int /\ seenTo + q \in Int
        /\ movement[b][i] - q \in Int /\ movement[c][i] + q \in Int
    BY <2>1
  <2> QED BY <2>2
<1>3. /\ level' = [level EXCEPT ![b][i] = x, ![c][i] = y]
      /\ movement' = [movement EXCEPT ![b][i] = m, ![c][i] = n]
  <2>1. level' = [level EXCEPT ![b][i] = x, ![c][i] = y]
    BY <1>0, <1>2 DEF CommitTransfer, Arrived
  <2>2. movement' = [movement EXCEPT ![b][i] = @ - q, ![c][i] = @ + q]
    BY <1>0 DEF CommitTransfer
  <2>3. movement' = [movement EXCEPT ![b][i] = m, ![c][i] = n]
    BY <2>2, <1>0, <1>1, <1>2 DEF Levels
  <2> QED BY <2>1, <2>3
<1>4. /\ level' \in Levels
      /\ \A d \in Branches, j \in Items :
            level'[d][j] = IF d = b /\ j = i THEN x ELSE IF d = c /\ j = i THEN y ELSE level[d][j]
  BY <1>0, <1>1, <1>3 DEF Levels
<1>5. /\ movement' \in Levels
      /\ \A d \in Branches, j \in Items :
            movement'[d][j] = IF d = b /\ j = i THEN m ELSE IF d = c /\ j = i THEN n
                              ELSE movement[d][j]
  BY <1>0, <1>1, <1>3 DEF Levels
<1>6. \A d \in Branches, j \in Items :
          level'[d][j] = IF d = b /\ j = i THEN seen - q
                         ELSE IF d = c /\ j = i THEN seenTo + q ELSE level[d][j]
  BY <1>2, <1>4
<1>7. \A d \in Branches, j \in Items :
          movement'[d][j] = IF d = b /\ j = i THEN movement[d][j] - q
                            ELSE IF d = c /\ j = i THEN movement[d][j] + q ELSE movement[d][j]
  BY <1>2, <1>5
<1> QED BY <1>0, <1>4, <1>5, <1>6, <1>7

\* A transfer leaves its source above zero, and its destination unless a sale was made.
LEMMA CommitTransferTInv ==
    ASSUME TInv, NEW s \in Desks, CommitTransfer(s)
    PROVE  TInv'
<1>0. PICK b, c \in Branches, i \in Items, seen \in Int, seenTo \in Int, q \in Nat :
          /\ b = desk[s].branch /\ c = desk[s].to /\ i = desk[s].item /\ b # c
          /\ seen = desk[s].seen /\ seenTo = desk[s].seenTo /\ q = desk[s].quantity /\ q <= seen
  BY TransferRow
<1>1. /\ level' \in Levels /\ movement' \in Levels
      /\ \A d \in Branches, j \in Items :
            level'[d][j] = IF d = b /\ j = i THEN seen - q
                           ELSE IF d = c /\ j = i THEN seenTo + q ELSE level[d][j]
  BY <1>0, TransferEffect
<1>2. seenTo < 0 => sold > 0
  BY <1>0, DeskTypes DEF DeskOK
<1>3. sold' = sold
  BY DEF CommitTransfer, Rest
<1>4. OnlySalesGoBelowZero'
  <2> SUFFICES ASSUME NEW d \in Branches, NEW j \in Items, level'[d][j] < 0 PROVE sold > 0
    BY <1>3 DEF OnlySalesGoBelowZero
  <2> QED BY <1>0, <1>1, <1>2, LevelTypes
<1>5. desk' = [desk EXCEPT ![s] = Idle] /\ UNCHANGED <<po, basket, sold, workload>>
  BY DEF CommitTransfer, End, Rest
<1>6. /\ po' \in [POs -> PORow] /\ POsOK' /\ overlapped' \in BOOLEAN /\ interrupted' \subseteq POs
      /\ \A p \in POs : po[p].status # "ABSENT" => po'[p].status # "ABSENT"
  BY DEF CommitTransfer, Rest, TInv, POsOK
<1> QED BY <1>1, <1>4, <1>5, <1>6, IdleOK, DeskTInv

\* A purchase order is created with the number after those that exist.
LEMMA BeginCreateTInv ==
    ASSUME TInv, NEW s \in Desks, NEW b \in Branches, BeginCreate(s, b)
    PROVE  TInv'
<1> DEFINE n == Cardinality(Created) + 1
           r == [Idle EXCEPT !.op = "create", !.branch = b, !.po = n]
<1>1. n \in Nat
  <2>1. IsFiniteSet(POs) /\ Created \subseteq POs
    BY FS_Interval, SupplyAssumption DEF POs, Created
  <2>2. Cardinality(Created) \in Nat
    BY <2>1, FS_Subset, FS_CardinalityType
  <2> QED BY <2>2
<1> HIDE DEF n
<1>2. /\ r.op = "create" /\ r.branch = b /\ r.seen = 0 /\ r.seenTo = 0 /\ r.lines = None
  BY IdleRow DEF DeskRow
<1>3. r \in DeskRow
  <2>1. "create" \in DeskOps
    BY DEF DeskOps
  <2> QED BY <2>1, <1>1, IdleRow DEF DeskRow
<1>4. Begin(s, "purchase", r)
  BY DEF BeginCreate, n
<1> HIDE DEF r
<1>5. RequestOK(r) /\ ~NamesPO(r)
  BY <1>2 DEF RequestOK, NamesPO, ReceiveOps, StockOps, LevelOps
<1> QED BY <1>2, <1>3, <1>4, <1>5, BeginTInv

\* send and cancel have checked the status of the order they name.
LEMMA BeginSetStatusTInv ==
    ASSUME TInv, NEW s \in Desks, NEW p \in POs, BeginSend(s, p) \/ BeginCancel(s, p)
    PROVE  TInv'
<1>1. ASSUME NEW x \in {"SENT", "CANCELLED"}, po[p].status # "ABSENT",
             Begin(s, "purchase", [Idle EXCEPT !.op = "setStatus", !.po = p, !.status = x])
      PROVE  TInv'
  <2> DEFINE r == [Idle EXCEPT !.op = "setStatus", !.po = p, !.status = x]
  <2>1. /\ r.op = "setStatus" /\ r.po = p /\ r.status = x
        /\ r.seen = 0 /\ r.seenTo = 0 /\ r.lines = None
    BY IdleRow DEF DeskRow
  <2>2. r \in DeskRow
    <3>1. "setStatus" \in DeskOps /\ p \in Nat /\ x \in OpenStatus
      BY SupplyAssumption DEF DeskOps, OpenStatus, POs
    <3> QED BY <3>1, IdleRow DEF DeskRow
  <2>3. Begin(s, "purchase", r)
    BY <1>1
  <2> HIDE DEF r
  <2>4. RequestOK(r)
    BY <2>1 DEF RequestOK, ReceiveOps, StockOps, LevelOps
  <2> QED BY <2>1, <2>2, <2>3, <2>4, <1>1, BeginTInv
<1>2. CASE BeginSend(s, p)
  BY <1>1, <1>2 DEF BeginSend
<1>3. CASE BeginCancel(s, p)
  BY <1>1, <1>3 DEF BeginCancel
<1> QED BY <1>2, <1>3

\* A receive has checked its lines against what was ordered.
LEMMA BeginReceiveTInv ==
    ASSUME TInv, NEW s \in Desks, NEW p \in POs, NEW lines \in [Items -> Quantities \cup {0}],
           BeginReceive(s, p, lines)
    PROVE  TInv'
<1> DEFINE r == [Idle EXCEPT !.op = "receive", !.po = p, !.branch = po[p].branch,
                             !.lines = lines, !.read = po[p].received]
<1>1. /\ po[p].status # "ABSENT" /\ lines # None /\ Begin(s, "purchase", r)
      /\ \A i \in Items : po[p].received[i] + lines[i] <= Ordered[i]
  BY DEF BeginReceive, Receivable, Fits
<1>2. po[p].branch \in Branches /\ po[p].received \in [Items -> Nat]
  BY <1>1 DEF TInv, POsOK, PORow
<1>3. lines \in [Items -> Nat] /\ p \in Nat /\ "receive" \in DeskOps
  <2>1. Quantities \cup {0} \subseteq Nat
    BY SupplyAssumption
  <2>2. lines \in [Items -> Nat]
    BY <2>1
  <2>3. p \in Nat
    BY SupplyAssumption DEF POs
  <2> QED BY <2>2, <2>3 DEF DeskOps, ReceiveOps
<1>4. /\ r.op = "receive" /\ r.po = p /\ r.branch = po[p].branch /\ r.lines = lines
      /\ r.read = po[p].received /\ r.seen = 0 /\ r.seenTo = 0
  BY IdleRow DEF DeskRow
<1>5. r \in DeskRow
  BY <1>2, <1>3, IdleRow DEF DeskRow
<1> HIDE DEF r
<1>6. RequestOK(r)
  BY <1>1, <1>2, <1>4 DEF RequestOK, ReceiveOps, StockOps, LevelOps
<1> QED BY <1>1, <1>4, <1>5, <1>6, BeginTInv

\* The step that changes one purchase order row.
LEMMA OnePO ==
    ASSUME TInv, NEW p \in POs, NEW row \in PORow, po' = [po EXCEPT ![p] = row],
           row.status # "ABSENT", row.branch \in Branches,
           \A i \in Items : row.received[i] <= Ordered[i]
    PROVE  /\ po' \in [POs -> PORow] /\ POsOK'
           /\ \A x \in POs : po'[x] = IF x = p THEN row ELSE po[x]
           /\ \A x \in POs : po[x].status # "ABSENT" => po'[x].status # "ABSENT"
<1>1. po \in [POs -> PORow]
  BY DEF TInv
<1>2. po' \in [POs -> PORow] /\ \A x \in POs : po'[x] = IF x = p THEN row ELSE po[x]
  BY <1>1
<1>3. POsOK'
  BY <1>2 DEF TInv, POsOK
<1> QED BY <1>2, <1>3

\* The new purchase order: nothing received.
LEMMA CommitCreateTInv ==
    ASSUME TInv, NEW s \in Desks, CommitCreate(s)
    PROVE  TInv'
<1>0. PICK p \in POs, b \in Branches : p = desk[s].po /\ b = desk[s].branch
  BY DeskTypes DEF CommitCreate, DeskOK, RequestOK
<1> DEFINE row == [NoPO EXCEPT !.status = "DRAFT", !.branch = b]
<1>1. row \in PORow /\ row.status = "DRAFT" /\ row.branch = b /\ row.received = None
  BY IdleRow DEF PORow, NoPO
<1>2. po' = [po EXCEPT ![p] = row]
  BY <1>0 DEF CommitCreate
<1> HIDE DEF row
<1>3. \A i \in Items : row.received[i] <= Ordered[i]
  BY <1>1, SupplyAssumption DEF None
<1>4. /\ po' \in [POs -> PORow] /\ POsOK'
      /\ \A x \in POs : po[x].status # "ABSENT" => po'[x].status # "ABSENT"
  BY <1>1, <1>2, <1>3, OnePO
<1>5. desk' = [desk EXCEPT ![s] = Idle] /\ UNCHANGED <<level, movement, basket, sold, workload>>
  BY DEF CommitCreate, End, Rest
<1>6. /\ level' \in Levels /\ movement' \in Levels /\ OnlySalesGoBelowZero'
      /\ overlapped' \in BOOLEAN /\ interrupted' \subseteq POs
  BY <1>5 DEF CommitCreate, Rest, TInv, OnlySalesGoBelowZero
<1> QED BY <1>4, <1>5, <1>6, IdleOK, DeskTInv

\* The status is updated by id.
LEMMA SetStatusTInv ==
    ASSUME TInv, NEW s \in Desks, SetStatus(s)
    PROVE  TInv'
<1>0. PICK p \in POs, x \in OpenStatus :
          p = desk[s].po /\ x = desk[s].status /\ po[p].status # "ABSENT"
  BY DeskTypes DEF SetStatus, DeskOK, RequestOK, NamesPO, DeskRow
<1> DEFINE row == [po[p] EXCEPT !.status = x]
<1>1. po[p] \in PORow /\ po[p].branch \in Branches /\ \A i \in Items : po[p].received[i] <= Ordered[i]
  BY <1>0 DEF TInv, POsOK
<1>2. row \in PORow /\ row.status = x /\ row.branch = po[p].branch /\ row.received = po[p].received
  BY <1>1 DEF PORow, OpenStatus
<1>3. po' = [po EXCEPT ![p] = row]
  BY <1>0, <1>1 DEF SetStatus
<1>4. x # "ABSENT"
  BY DEF OpenStatus
<1> HIDE DEF row
<1>5. /\ po' \in [POs -> PORow] /\ POsOK'
      /\ \A y \in POs : po[y].status # "ABSENT" => po'[y].status # "ABSENT"
  BY <1>1, <1>2, <1>3, <1>4, OnePO
<1>6. desk' = [desk EXCEPT ![s] = Idle] /\ UNCHANGED <<level, movement, basket, sold, workload>>
  BY DEF SetStatus, End, Rest
<1>7. /\ level' \in Levels /\ movement' \in Levels /\ OnlySalesGoBelowZero'
      /\ overlapped' \in BOOLEAN /\ interrupted' \subseteq POs
  BY <1>6 DEF SetStatus, Rest, TInv, OnlySalesGoBelowZero
<1> QED BY <1>5, <1>6, <1>7, IdleOK, DeskTInv

\* The receipt and the quantities received, and the lines left to stock.
LEMMA ReceiptEffect ==
    ASSUME TInv, NEW s \in Desks, BookReceipt(s)
    PROVE  \E p \in POs, row \in PORow, r \in DeskRow :
              /\ p = desk[s].po /\ desk[s].op = "receive"
              /\ po' = [po EXCEPT ![p] = row]
              /\ row.status = po[p].status /\ row.branch = po[p].branch
              /\ row.stocked = po[p].stocked
              /\ \A i \in Items : row.receipts[i] = po[p].receipts[i] + desk[s].lines[i]
              /\ \A i \in Items : row.received[i] = IF desk[s].lines[i] = 0 THEN po[p].received[i]
                                                    ELSE desk[s].read[i] + desk[s].lines[i]
              /\ desk' = [desk EXCEPT ![s] = r]
              /\ r.op = "stocking" /\ r.left = {i \in Items : desk[s].lines[i] > 0}
              /\ r.po = p /\ r.branch = desk[s].branch /\ r.lines = desk[s].lines
              /\ r.seen = desk[s].seen /\ r.seenTo = desk[s].seenTo
<1>0. /\ desk[s] \in DeskRow /\ DeskOK(s) /\ desk[s].op = "receive"
      /\ desk[s].lines \in [Items -> Nat] /\ desk[s].read \in [Items -> Nat]
  BY DeskTypes DEF BookReceipt
<1>1. PICK p \in POs : p = desk[s].po
  BY <1>0 DEF DeskOK, NamesPO, ReceiveOps
<1>2. /\ po \in [POs -> PORow] /\ po[p] \in PORow /\ desk \in [Desks -> DeskRow]
      /\ po[p].received \in [Items -> Nat] /\ po[p].receipts \in [Items -> Nat]
  BY DEF TInv, PORow
<1>3. PICK got \in [Items -> Nat] :
          got = [i \in Items |-> IF desk[s].lines[i] = 0 THEN po[p].received[i]
                                 ELSE desk[s].read[i] + desk[s].lines[i]]
  <2>1. \A i \in Items : (IF desk[s].lines[i] = 0 THEN po[p].received[i]
                          ELSE desk[s].read[i] + desk[s].lines[i]) \in Nat
    BY <1>0, <1>2
  <2> QED BY <2>1
<1>4. PICK sum \in [Items -> Nat] : sum = [i \in Items |-> po[p].receipts[i] + desk[s].lines[i]]
  <2>1. \A i \in Items : po[p].receipts[i] + desk[s].lines[i] \in Nat
    BY <1>0, <1>2
  <2> QED BY <2>1
<1>5. PICK left \in SUBSET Items : left = {i \in Items : desk[s].lines[i] > 0}
  OBVIOUS
<1> DEFINE row == [po[p] EXCEPT !.received = got, !.receipts = sum]
           r == [desk[s] EXCEPT !.op = "stocking", !.left = left]
<1>6. po' = [po EXCEPT ![p] = row]
  BY <1>1, <1>2, <1>3, <1>4 DEF BookReceipt, PORow
<1>7. desk' = [desk EXCEPT ![s] = r]
  BY <1>0, <1>2, <1>5 DEF BookReceipt, DeskRow
<1>8. /\ row \in PORow /\ row.status = po[p].status /\ row.branch = po[p].branch
      /\ row.stocked = po[p].stocked /\ row.received = got /\ row.receipts = sum
  BY <1>2 DEF PORow
<1>9. r \in DeskRow
  <2>1. "stocking" \in DeskOps
    BY DEF DeskOps, ReceiveOps
  <2> QED BY <2>1, <1>0 DEF DeskRow
<1>10. /\ r.op = "stocking" /\ r.left = left /\ r.po = desk[s].po /\ r.branch = desk[s].branch
       /\ r.lines = desk[s].lines /\ r.seen = desk[s].seen /\ r.seenTo = desk[s].seenTo
  BY <1>0 DEF DeskRow
<1> HIDE DEF row, r
<1>11. /\ \A i \in Items : row.receipts[i] = po[p].receipts[i] + desk[s].lines[i]
       /\ \A i \in Items : row.received[i] = IF desk[s].lines[i] = 0 THEN po[p].received[i]
                                             ELSE desk[s].read[i] + desk[s].lines[i]
  BY <1>3, <1>4, <1>8
<1> USE <1>8, <1>9
<1> WITNESS p \in POs, row \in PORow, r \in DeskRow
<1> QED BY <1>0, <1>1, <1>5, <1>6, <1>7, <1>8, <1>10, <1>11

\* No line says more was received than ordered: what was read was checked, and a
\* line that overlapped is overwritten.
LEMMA BookReceiptTInv ==
    ASSUME TInv, NEW s \in Desks, BookReceipt(s)
    PROVE  TInv'
<1>1. PICK p \in POs, row \in PORow, r \in DeskRow :
              /\ p = desk[s].po /\ desk[s].op = "receive"
              /\ po' = [po EXCEPT ![p] = row]
              /\ row.status = po[p].status /\ row.branch = po[p].branch
              /\ \A i \in Items : row.received[i] = IF desk[s].lines[i] = 0 THEN po[p].received[i]
                                                    ELSE desk[s].read[i] + desk[s].lines[i]
              /\ desk' = [desk EXCEPT ![s] = r]
              /\ r.op = "stocking"
              /\ r.po = p /\ r.branch = desk[s].branch /\ r.lines = desk[s].lines
              /\ r.seen = desk[s].seen /\ r.seenTo = desk[s].seenTo
  BY ReceiptEffect
<1>2. /\ desk[s].branch \in Branches /\ desk[s].lines # None
      /\ \A i \in Items : desk[s].read[i] + desk[s].lines[i] <= Ordered[i]
      /\ po[p].status # "ABSENT"
      /\ desk[s].seen < 0 \/ desk[s].seenTo < 0 => sold > 0
  BY <1>1, DeskTypes DEF DeskOK, RequestOK, NamesPO, ReceiveOps
<1>3. po[p].branch \in Branches /\ \A i \in Items : po[p].received[i] <= Ordered[i]
  BY <1>2 DEF TInv, POsOK
<1>4. /\ row.status # "ABSENT" /\ row.branch \in Branches
      /\ \A i \in Items : row.received[i] <= Ordered[i]
  BY <1>1, <1>2, <1>3
<1>5. /\ po' \in [POs -> PORow] /\ POsOK'
      /\ \A x \in POs : po'[x] = IF x = p THEN row ELSE po[x]
      /\ \A x \in POs : po[x].status # "ABSENT" => po'[x].status # "ABSENT"
  BY <1>1, <1>4, OnePO
<1>6. RequestOK(r) /\ r.po \in POs /\ po'[r.po].status # "ABSENT"
  <2>1. RequestOK(r)
    BY <1>1, <1>2 DEF RequestOK, ReceiveOps, StockOps, LevelOps
  <2> QED BY <2>1, <1>1, <1>4, <1>5
<1>7. UNCHANGED <<level, movement, basket, sold, workload, overlapped, interrupted>>
  BY DEF BookReceipt, Rest
<1>8. /\ level' \in Levels /\ movement' \in Levels /\ OnlySalesGoBelowZero'
      /\ overlapped' \in BOOLEAN /\ interrupted' \subseteq POs
  BY <1>7 DEF TInv, OnlySalesGoBelowZero
<1>9. desk' = [desk EXCEPT ![s] = r] /\ (r.seen < 0 \/ r.seenTo < 0 => sold > 0)
  BY <1>1, <1>2
<1> QED BY <1>5, <1>6, <1>7, <1>8, <1>9, DeskTInv

\* stockIn of a line reads the level.
LEMMA ReadLineTInv ==
    ASSUME TInv, NEW s \in Desks, NEW i \in Items, ReadLine(s, i)
    PROVE  TInv'
<1>0. /\ desk[s] \in DeskRow /\ DeskOK(s) /\ desk[s].op = "stocking" /\ i \in desk[s].left
  BY DeskTypes DEF ReadLine
<1>1. /\ desk[s].branch \in Branches /\ desk[s].lines # None /\ desk[s].po \in POs
      /\ po[desk[s].po].status # "ABSENT" /\ (desk[s].seenTo < 0 => sold > 0)
  BY <1>0 DEF DeskOK, RequestOK, NamesPO, ReceiveOps
<1>2. PICK x \in Int : x = level[desk[s].branch][i] /\ (x < 0 => sold > 0)
  BY <1>1, LevelTypes
<1> DEFINE r == [desk[s] EXCEPT !.op = "stockIn:po", !.item = i, !.seen = x]
<1>3. desk' = [desk EXCEPT ![s] = r]
  BY <1>0, <1>2 DEF ReadLine, DeskRow, TInv
<1>4. /\ r.op = "stockIn:po" /\ r.item = i /\ r.seen = x /\ r.po = desk[s].po
      /\ r.branch = desk[s].branch /\ r.lines = desk[s].lines /\ r.left = desk[s].left
      /\ r.seenTo = desk[s].seenTo
  BY <1>0 DEF DeskRow
<1>5. r \in DeskRow
  <2>1. "stockIn:po" \in DeskOps
    BY DEF DeskOps, ReceiveOps
  <2> QED BY <2>1, <1>0 DEF DeskRow
<1> HIDE DEF r
<1>6. RequestOK(r)
  BY <1>0, <1>1, <1>4 DEF RequestOK, ReceiveOps, StockOps, LevelOps
<1>7. /\ UNCHANGED <<level, movement, po, basket, sold, workload>>
      /\ overlapped' \in BOOLEAN /\ interrupted' \subseteq POs
  BY DEF ReadLine, Rest, TInv
<1>8. /\ r.po \in POs /\ po[r.po].status # "ABSENT"
      /\ r.seen < 0 \/ r.seenTo < 0 => sold > 0
  BY <1>1, <1>2, <1>4
<1> QED BY <1>3, <1>5, <1>6, <1>7, <1>8, DeskReadsTInv

\* The rows of a stockIn for a line.
LEMMA LineRow ==
    ASSUME TInv, NEW s \in Desks, CommitLine(s)
    PROVE  \E p \in POs, i \in Items, b \in Branches, n \in Nat, x \in Int :
              /\ p = desk[s].po /\ i = desk[s].item /\ b = desk[s].branch /\ i \in desk[s].left
              /\ n = desk[s].lines[i] /\ x = desk[s].seen
<1>1. /\ DeskOK(s) /\ desk[s].op = "stockIn:po"
      /\ desk[s].lines \in [Items -> Nat] /\ desk[s].seen \in Int
  BY DeskTypes DEF CommitLine
<1>2. PICK p \in POs, i \in Items, b \in Branches :
          p = desk[s].po /\ i = desk[s].item /\ b = desk[s].branch /\ i \in desk[s].left
  BY <1>1 DEF DeskOK, RequestOK, NamesPO, ReceiveOps, LevelOps
<1>3. PICK n \in Nat, x \in Int : n = desk[s].lines[i] /\ x = desk[s].seen
  BY <1>1
<1> QED BY <1>2, <1>3

\* A line is in stock, is added to what was stocked and leaves the list.
LEMMA LineEffect ==
    ASSUME TInv, NEW s \in Desks, CommitLine(s)
    PROVE  \E row \in PORow, r \in DeskRow :
              /\ desk[s].op = "stockIn:po"
              /\ Book(desk[s].branch, desk[s].item, desk[s].seen,
                      desk[s].seen + desk[s].lines[desk[s].item])
              /\ po' = [po EXCEPT ![desk[s].po] = row]
              /\ row.status = po[desk[s].po].status /\ row.branch = po[desk[s].po].branch
              /\ row.received = po[desk[s].po].received /\ row.receipts = po[desk[s].po].receipts
              /\ \A j \in Items : row.stocked[j] = po[desk[s].po].stocked[j]
                     + (IF j = desk[s].item THEN desk[s].lines[desk[s].item] ELSE 0)
              /\ desk' = [desk EXCEPT ![s] = r]
              /\ r.op = "stocking" /\ r.left = desk[s].left \ {desk[s].item}
              /\ r.po = desk[s].po /\ r.branch = desk[s].branch /\ r.lines = desk[s].lines
              /\ r.seen = desk[s].seen /\ r.seenTo = desk[s].seenTo
<1>0. /\ desk[s] \in DeskRow /\ desk[s].op = "stockIn:po" /\ desk[s].left \subseteq Items
  BY DeskTypes DEF CommitLine
<1>1. PICK p \in POs, i \in Items, b \in Branches, n \in Nat, x \in Int :
          /\ p = desk[s].po /\ i = desk[s].item /\ b = desk[s].branch
          /\ n = desk[s].lines[i] /\ x = desk[s].seen
  BY LineRow
<1>3. /\ po \in [POs -> PORow] /\ po[p] \in PORow /\ desk \in [Desks -> DeskRow]
      /\ po[p].stocked \in [Items -> Nat]
  BY DEF TInv, PORow
<1>4. PICK m \in Nat : m = po[p].stocked[i] + n
  BY <1>3
<1> DEFINE put == [po[p].stocked EXCEPT ![i] = m]
           row == [po[p] EXCEPT !.stocked = put]
           r == [desk[s] EXCEPT !.op = "stocking", !.left = desk[s].left \ {i}]
<1>5. put \in [Items -> Nat] /\ \A j \in Items : put[j] = IF j = i THEN m ELSE po[p].stocked[j]
  BY <1>3
<1>6. po' = [po EXCEPT ![p] = row]
  BY <1>1, <1>3, <1>4 DEF CommitLine, PORow
<1>7. desk' = [desk EXCEPT ![s] = r]
  BY <1>0, <1>1, <1>3 DEF CommitLine, DeskRow, Remaining
<1>8. Book(b, i, x, x + n)
  BY <1>1 DEF CommitLine
<1> HIDE DEF put
<1>9. /\ row \in PORow /\ row.status = po[p].status /\ row.branch = po[p].branch
      /\ row.stocked = put /\ row.received = po[p].received /\ row.receipts = po[p].receipts
  BY <1>3, <1>5 DEF PORow
<1>10. r \in DeskRow
  <2>1. "stocking" \in DeskOps /\ desk[s].left \ {i} \subseteq Items
    BY <1>0 DEF DeskOps, ReceiveOps
  <2> QED BY <2>1, <1>0 DEF DeskRow
<1>11. /\ r.op = "stocking" /\ r.left = desk[s].left \ {i} /\ r.po = desk[s].po
       /\ r.branch = desk[s].branch /\ r.lines = desk[s].lines
       /\ r.seen = desk[s].seen /\ r.seenTo = desk[s].seenTo
  BY <1>0 DEF DeskRow
<1> HIDE DEF row, r
<1>12. \A j \in Items : row.stocked[j] = po[p].stocked[j] + (IF j = i THEN n ELSE 0)
  BY <1>3, <1>4, <1>5, <1>9
<1> USE <1>9, <1>10
<1> WITNESS row \in PORow, r \in DeskRow
<1> QED BY <1>0, <1>1, <1>6, <1>7, <1>8, <1>11, <1>12

\* stockIn of a line writes the level.
LEMMA CommitLineTInv ==
    ASSUME TInv, NEW s \in Desks, CommitLine(s)
    PROVE  TInv'
<1>0. PICK p \in POs, i \in Items, b \in Branches, n \in Nat, x \in Int :
          /\ p = desk[s].po /\ i = desk[s].item /\ b = desk[s].branch
          /\ n = desk[s].lines[i] /\ x = desk[s].seen
  BY LineRow
<1>1. PICK row \in PORow, r \in DeskRow :
          /\ desk[s].op = "stockIn:po" /\ Book(b, i, x, x + n)
          /\ po' = [po EXCEPT ![p] = row]
          /\ row.status = po[p].status /\ row.branch = po[p].branch
          /\ row.received = po[p].received
          /\ desk' = [desk EXCEPT ![s] = r]
          /\ r.op = "stocking" /\ r.po = p /\ r.branch = b /\ r.lines = desk[s].lines
          /\ r.seen = x /\ r.seenTo = desk[s].seenTo
  BY <1>0, LineEffect
<1>2. /\ desk[s].lines # None /\ po[p].status # "ABSENT" /\ (x < 0 => sold > 0)
      /\ desk[s].seenTo < 0 => sold > 0
  BY <1>0, <1>1, DeskTypes DEF DeskOK, RequestOK, NamesPO, ReceiveOps
<1>3. /\ row.status # "ABSENT" /\ row.branch \in Branches
      /\ \A j \in Items : row.received[j] <= Ordered[j]
  BY <1>1, <1>2 DEF TInv, POsOK
<1>4. /\ po' \in [POs -> PORow] /\ POsOK'
      /\ \A y \in POs : po'[y] = IF y = p THEN row ELSE po[y]
      /\ \A y \in POs : po[y].status # "ABSENT" => po'[y].status # "ABSENT"
  BY <1>1, <1>3, OnePO
<1>5. RequestOK(r) /\ r.po \in POs /\ po'[r.po].status # "ABSENT"
  <2>1. RequestOK(r)
    BY <1>1, <1>2 DEF RequestOK, ReceiveOps, StockOps, LevelOps
  <2> QED BY <2>1, <1>1, <1>3, <1>4
<1>6. UNCHANGED <<basket, sold, workload, overlapped, interrupted>>
  BY DEF CommitLine, Rest
<1>7. overlapped' \in BOOLEAN /\ interrupted' \subseteq POs
  BY <1>6 DEF TInv
<1>8. level' \in Levels /\ movement' \in Levels /\ OnlySalesGoBelowZero'
  <2>1. level \in Levels /\ movement \in Levels /\ OnlySalesGoBelowZero /\ sold' = sold
    BY <1>6 DEF TInv
  <2>2. PICK new \in Int : new = x + n /\ (new < 0 => sold > 0)
    BY <1>2
  <2>3. Book(b, i, x, new)
    BY <2>2, <1>1
  <2> QED BY <2>1, <2>2, <2>3, BookEffect, BookAboveZero
<1>9. desk' = [desk EXCEPT ![s] = r] /\ (r.seen < 0 \/ r.seenTo < 0 => sold > 0)
  BY <1>1, <1>2
<1> QED BY <1>4, <1>5, <1>6, <1>7, <1>8, <1>9, DeskTInv

\* The row of the request that reads the new status.
LEMMA StatusEffect ==
    ASSUME TInv, NEW s \in Desks, ReadStatus(s)
    PROVE  \E r \in DeskRow :
              /\ desk[s].op = "stocking" /\ desk[s].left = {}
              /\ desk' = [desk EXCEPT ![s] = r]
              /\ r.op = "setStatus" /\ r.po = desk[s].po /\ r.lines = desk[s].lines /\ r.left = {}
              /\ r.seen = desk[s].seen /\ r.seenTo = desk[s].seenTo
              /\ r.status = IF \A i \in Items : po[desk[s].po].received[i] >= Ordered[i]
                            THEN "RECEIVED" ELSE "PARTIALLY_RECEIVED"
<1>0. desk[s] \in DeskRow /\ desk[s].op = "stocking" /\ desk[s].left = {}
  BY DeskTypes DEF ReadStatus
<1>1. PICK x \in {"RECEIVED", "PARTIALLY_RECEIVED"} :
          x = IF \A i \in Items : po[desk[s].po].received[i] >= Ordered[i]
              THEN "RECEIVED" ELSE "PARTIALLY_RECEIVED"
  OBVIOUS
<1> DEFINE r == [desk[s] EXCEPT !.op = "setStatus", !.status = x]
<1>2. desk' = [desk EXCEPT ![s] = r]
  <2>1. desk' = [desk EXCEPT ![s].op = "setStatus", ![s].status = x]
    BY <1>1 DEF ReadStatus, Complete
  <2> QED BY <2>1, <1>0 DEF TInv, DeskRow
<1>3. r \in DeskRow
  <2>1. "setStatus" \in DeskOps /\ x \in OpenStatus
    BY DEF DeskOps, OpenStatus
  <2> QED BY <2>1, <1>0 DEF DeskRow
<1>4. /\ r.op = "setStatus" /\ r.po = desk[s].po /\ r.lines = desk[s].lines /\ r.left = desk[s].left
      /\ r.seen = desk[s].seen /\ r.seenTo = desk[s].seenTo /\ r.status = x
  BY <1>0 DEF DeskRow
<1> HIDE DEF r
<1> USE <1>3
<1> WITNESS r \in DeskRow
<1> QED BY <1>0, <1>1, <1>2, <1>4

\* The end of a receive reads the lines as they are now.
LEMMA ReadStatusTInv ==
    ASSUME TInv, NEW s \in Desks, ReadStatus(s)
    PROVE  TInv'
<1>1. PICK r \in DeskRow :
              /\ desk[s].op = "stocking"
              /\ desk' = [desk EXCEPT ![s] = r]
              /\ r.op = "setStatus" /\ r.po = desk[s].po /\ r.lines = desk[s].lines /\ r.left = {}
              /\ r.seen = desk[s].seen /\ r.seenTo = desk[s].seenTo
              /\ r.status \in {"RECEIVED", "PARTIALLY_RECEIVED"}
  BY StatusEffect
<1>2. /\ desk[s].lines # None /\ desk[s].po \in POs /\ po[desk[s].po].status # "ABSENT"
      /\ desk[s].seen < 0 \/ desk[s].seenTo < 0 => sold > 0
  BY <1>1, DeskTypes DEF DeskOK, RequestOK, NamesPO, ReceiveOps
<1>3. RequestOK(r)
  BY <1>1, <1>2 DEF RequestOK, ReceiveOps, StockOps, LevelOps
<1>4. /\ UNCHANGED <<level, movement, po, basket, sold, workload>>
      /\ overlapped' \in BOOLEAN /\ interrupted' \subseteq POs
  BY DEF ReadStatus, Rest, TInv
<1> QED BY <1>1, <1>2, <1>3, <1>4, DeskReadsTInv

\* A step of a till: its basket, and the levels it writes.
LEMMA TillTInv ==
    ASSUME TInv, NEW t \in Tills, NEW g \in Goods,
           basket' = [basket EXCEPT ![t] = g],
           g # NoGoods => g.branch \in Branches /\ g.item \in Items /\ sold' > 0,
           sold' \in Nat, sold <= sold',
           level' \in Levels, movement' \in Levels, OnlySalesGoBelowZero',
           overlapped' \in BOOLEAN, UNCHANGED <<po, desk, interrupted, workload>>
    PROVE  TInv'
<1>1. \A u \in Tills : basket'[u] = IF u = t THEN g ELSE basket[u]
  BY DEF TInv
<1>2. sold \in Nat /\ basket' \in [Tills -> Goods] /\ POsOK'
  BY DEF TInv, POsOK
<1>3. sold > 0 => sold' > 0
  BY <1>2
<1>4. \A u \in Tills : BasketOK(u)'
  BY <1>1, <1>3 DEF TInv, BasketOK
<1>5. \A s \in Desks : DeskOK(s)'
  BY <1>3 DEF TInv, DeskOK
<1> QED BY <1>2, <1>4, <1>5 DEF TInv

\* A step of a till that leaves the stock alone.
LEMMA TillReadsTInv ==
    ASSUME TInv, overlapped' \in BOOLEAN,
           UNCHANGED <<level, movement, basket, sold, po, desk, interrupted, workload>>
    PROVE  TInv'
BY DEF TInv, POsOK, DeskOK, BasketOK, OnlySalesGoBelowZero

\* The goods of a sale: the operator's branch, the level as it is now.
LEMMA ReadGoodsTInv ==
    ASSUME TInv, SInv, NEW t \in Tills, NEW i \in Items, ReadGoods(t, i)
    PROVE  TInv'
<1>1. till[t].driver \in Drivers
  BY DEF SInv, StampedOK, ReadGoods
<1>2. PICK b \in Branches, x \in Int : b = BranchOf[till[t].driver] /\ x = level[b][i]
  BY <1>1, SupplyAssumption, LevelTypes
<1> DEFINE g == [branch |-> b, item |-> i, seen |-> x]
<1>3. g \in Goods /\ g.branch = b /\ g.item = i
  BY DEF Goods
<1>4. basket' = [basket EXCEPT ![t] = g]
  BY <1>2 DEF ReadGoods
<1> HIDE DEF g
<1>5. sold \in Nat /\ sold' = sold + 1
  BY DEF ReadGoods, TInv
<1>6. sold' \in Nat /\ sold <= sold' /\ sold' > 0
  BY <1>5
<1>7. UNCHANGED <<level, movement, po, desk, overlapped, interrupted, workload>>
  BY DEF ReadGoods
<1>8. level' \in Levels /\ movement' \in Levels /\ overlapped' \in BOOLEAN
  BY <1>7 DEF TInv
<1>9. OnlySalesGoBelowZero'
  BY <1>6 DEF OnlySalesGoBelowZero
<1> QED BY <1>3, <1>4, <1>6, <1>7, <1>8, <1>9, TillTInv

\* A sale takes one from the level that it read.
LEMMA SaleBook ==
    ASSUME TInv, NEW t \in Tills, CommitSale(t), basket[t] # NoGoods
    PROVE  \E b \in Branches, i \in Items, x \in Int :
              /\ b = basket[t].branch /\ i = basket[t].item /\ x = basket[t].seen
              /\ Book(b, i, x, x - 1) /\ sold > 0
<1>1. basket[t] \in Goods /\ BasketOK(t)
  BY DEF TInv
<1>2. basket[t].branch \in Branches /\ basket[t].item \in Items /\ basket[t].seen \in Int /\ sold > 0
  BY <1>1 DEF BasketOK, Goods
<1>3. Book(basket[t].branch, basket[t].item, basket[t].seen, basket[t].seen - 1)
  BY DEF CommitSale
<1> QED BY <1>2, <1>3

\* A sale may leave the level below zero.
LEMMA CommitSaleTInv ==
    ASSUME TInv, NEW t \in Tills, CommitSale(t)
    PROVE  TInv'
<1>1. /\ basket' = [basket EXCEPT ![t] = NoGoods] /\ sold' = sold
      /\ UNCHANGED <<po, desk, overlapped, interrupted, workload>>
  BY DEF CommitSale
<1>2. level' \in Levels /\ movement' \in Levels /\ OnlySalesGoBelowZero'
  <2>1. CASE basket[t] = NoGoods
    <3>1. UNCHANGED <<level, movement, sold>>
      BY <2>1 DEF CommitSale
    <3> QED BY <3>1 DEF TInv, OnlySalesGoBelowZero
  <2>2. CASE basket[t] # NoGoods
    <3>1. PICK b \in Branches, i \in Items, x \in Int : Book(b, i, x, x - 1) /\ sold > 0
      BY <2>2, SaleBook
    <3>2. PICK new \in Int : new = x - 1
      OBVIOUS
    <3>3. level \in Levels /\ movement \in Levels /\ OnlySalesGoBelowZero
      BY DEF TInv
    <3>4. Book(b, i, x, new)
      BY <3>1, <3>2
    <3> QED BY <3>1, <3>3, <3>4, <1>1, BookEffect, BookAboveZero
  <2> QED BY <2>1, <2>2
<1>3. sold' \in Nat /\ sold <= sold' /\ overlapped' \in BOOLEAN /\ NoGoods \in Goods
  BY <1>1, IdleRow DEF TInv
<1> QED BY <1>1, <1>2, <1>3, TillTInv

\* A sale that fails gives its goods back unread.
LEMMA RollbackSaleTInv ==
    ASSUME TInv, NEW t \in Tills, RollbackSale(t)
    PROVE  TInv'
<1>1. /\ basket' = [basket EXCEPT ![t] = NoGoods]
      /\ UNCHANGED <<level, movement, po, desk, sold, overlapped, interrupted, workload>>
  BY DEF RollbackSale
<1>2. /\ level' \in Levels /\ movement' \in Levels /\ overlapped' \in BOOLEAN /\ NoGoods \in Goods
      /\ OnlySalesGoBelowZero'
  BY <1>1, IdleRow DEF TInv, OnlySalesGoBelowZero
<1>3. sold' \in Nat /\ sold <= sold'
  BY <1>1 DEF TInv
<1> QED BY <1>1, <1>2, <1>3, TillTInv

\* Nothing is in stock, no order exists, nobody is at work.
LEMMA InitTInv == Init => TInv
<1> SUFFICES ASSUME Init PROVE TInv
  OBVIOUS
<1>1. /\ level = [b \in Branches |-> None] /\ movement = [b \in Branches |-> None]
      /\ po = [p \in POs |-> NoPO] /\ desk = [s \in Desks |-> Idle]
      /\ basket = [t \in Tills |-> NoGoods]
      /\ sold = 0 /\ overlapped = FALSE /\ interrupted = {} /\ workload \in Workloads
  BY DEF Init
<1>2. None \in [Items -> Int] /\ \A i \in Items : None[i] = 0
  BY DEF None
<1>3. level \in Levels /\ movement \in Levels /\ OnlySalesGoBelowZero
  BY <1>1, <1>2 DEF Levels, OnlySalesGoBelowZero
<1>4. /\ po \in [POs -> PORow] /\ desk \in [Desks -> DeskRow] /\ basket \in [Tills -> Goods]
  BY <1>1, IdleRow
<1>5. NoPO.status = "ABSENT" /\ NoPO.received = None
  BY DEF NoPO
<1>6. POsOK
  <2> SUFFICES ASSUME NEW p \in POs PROVE po[p].status = "ABSENT" /\ \A i \in Items : po[p].received[i] <= Ordered[i]
    BY DEF POsOK
  <2>1. po[p] = NoPO
    BY <1>1
  <2> QED BY <2>1, <1>2, <1>5, SupplyAssumption
<1>7. \A s \in Desks : DeskOK(s)
  BY <1>1, IdleOK DEF DeskOK
<1>8. \A t \in Tills : BasketOK(t)
  BY <1>1 DEF BasketOK
<1> QED BY <1>1, <1>3, <1>4, <1>6, <1>7, <1>8 DEF TInv

\* TInv is inductive, next to what is known of the serial numbers.
LEMMA StepTInv == TInv /\ SInv /\ [Next]_vars => TInv'
<1> SUFFICES ASSUME TInv, SInv, [Next]_vars PROVE TInv'
  OBVIOUS
<1>1. CASE UNCHANGED vars
  BY <1>1, TillReadsTInv DEF vars, stockVars, TInv
<1>2. ASSUME NEW s \in Desks, DeskNext(s) PROVE TInv'
  <2>1. CASE Abort(s)
    BY <2>1, AbortTInv
  <2>2. ASSUME NEW op \in StockOps, NEW b \in Branches, NEW i \in Items, NEW q \in Quantities,
               BeginStock(s, op, b, i, q)
        PROVE TInv'
    <3>1. q \in Nat /\ q \in Int
      BY SupplyAssumption
    <3> QED BY <2>2, <3>1, BeginStockTInv
  <2>3. ASSUME NEW b \in Branches, NEW i \in Items, NEW q \in Quantities,
               BeginStock(s, "adjust", b, i, -q)
        PROVE TInv'
    <3>1. PICK m \in Int : m = -q
      BY SupplyAssumption
    <3>2. "adjust" \in StockOps /\ "adjust" \notin {"stockIn", "stocktake"}
      BY DEF StockOps
    <3> QED BY <2>3, <3>1, <3>2, BeginStockTInv
  <2>4. ASSUME NEW b \in Branches, NEW i \in Items, BeginStock(s, "stocktake", b, i, 0) PROVE TInv'
    <3>1. "stocktake" \in StockOps
      BY DEF StockOps
    <3> QED BY <2>4, <3>1, BeginStockTInv
  <2>5. CASE CommitStock(s) \/ ReadTarget(s) \/ CommitTransfer(s)
    BY <2>5, CommitStockTInv, ReadTargetTInv, CommitTransferTInv
  <2>6. CASE \E b, c \in Branches, i \in Items, q \in Quantities : BeginTransfer(s, b, c, i, q)
    BY <2>6, BeginTransferTInv
  <2>7. CASE \E b \in Branches : BeginCreate(s, b)
    BY <2>7, BeginCreateTInv
  <2>8. CASE CommitCreate(s) \/ SetStatus(s) \/ BookReceipt(s) \/ CommitLine(s) \/ ReadStatus(s)
    BY <2>8, CommitCreateTInv, SetStatusTInv, BookReceiptTInv, CommitLineTInv, ReadStatusTInv
  <2>9. CASE \E p \in POs : BeginSend(s, p) \/ BeginCancel(s, p)
    BY <2>9, BeginSetStatusTInv
  <2>10. CASE \E p \in POs, lines \in [Items -> Quantities \cup {0}] : BeginReceive(s, p, lines)
    BY <2>10, BeginReceiveTInv
  <2>11. CASE \E i \in Items : ReadLine(s, i)
    BY <2>11, ReadLineTInv
  <2> QED BY <1>2, <2>1, <2>2, <2>3, <2>4, <2>5, <2>6, <2>7, <2>8, <2>9, <2>10, <2>11 DEF DeskNext
<1>3. ASSUME NEW t \in Tills, TillNext(t) PROVE TInv'
  <2>1. CASE \E d \in Drivers, m \in Numbers \cup {0} : BeginSale(t, d, m)
    BY <2>1, TillReadsTInv DEF BeginSale, TInv, Busy
  <2>2. CASE SaleStep(t)
    BY <2>2, TillReadsTInv DEF SaleStep, stockVars, TInv
  <2>3. CASE \E i \in Items : ReadGoods(t, i)
    BY <2>3, ReadGoodsTInv
  <2>4. CASE CommitSale(t) \/ RollbackSale(t)
    BY <2>4, CommitSaleTInv, RollbackSaleTInv
  <2> QED BY <1>3, <2>1, <2>2, <2>3, <2>4 DEF TillNext
<1>4. CASE \E d, e \in Drivers, n \in Numbers : Reassign(d, n, e)
  BY <1>4, TillReadsTInv DEF Reassign, stockVars, TInv
<1> QED BY <1>1, <1>2, <1>3, <1>4 DEF Next

\* The type of the rows and the bound on the lines, for any number of everything.
THEOREM SupplyTypes == Spec => []TypeOK
<1>1. TInv /\ SInv => TypeOK
  BY DEF TInv, SInv, POsOK, TypeOK, Levels
<1> QED BY <1>1, InitTInv, StepTInv, SupplySInv, PTL DEF Spec

-----------------------------------------------------------------------------
(* Stock: one transaction at a time *)

BusyDesk(s) == desk[s].op # "idle"
BusyTill(t) == till[t].stage # "free"

Alone ==
    /\ \A s, r \in Desks : BusyDesk(s) /\ BusyDesk(r) => s = r
    /\ \A t, u \in Tills : BusyTill(t) /\ BusyTill(u) => t = u
    /\ \A s \in Desks, t \in Tills : ~(BusyDesk(s) /\ BusyTill(t))
    /\ \A t \in Tills : basket[t] # NoGoods => BusyTill(t)

\* The level that was read is the one that is overwritten.
SeenOK ==
    /\ \A s \in Desks :
        /\ desk[s].op \in LevelOps => desk[s].seen = level[desk[s].branch][desk[s].item]
        /\ desk[s].op = "transfer:to" => desk[s].seenTo = level[desk[s].to][desk[s].item]
    /\ \A t \in Tills :
        basket[t] # NoGoods => basket[t].seen = level[basket[t].branch][basket[t].item]

StockInv == ~overlapped => Alone /\ SeenOK /\ level = movement

\* Nobody but s is at work.
OnlyDesk(s) ==
    /\ \A u \in Desks \ {s} : desk[u].op = "idle"
    /\ \A t \in Tills : till[t].stage = "free" /\ basket[t] = NoGoods

\* Nobody but t is at work.
OnlyTill(t) ==
    /\ \A s \in Desks : desk[s].op = "idle"
    /\ \A u \in Tills \ {t} : till[u].stage = "free" /\ basket[u] = NoGoods

\* A request that has begun, without an overlap, is alone.
LEMMA DeskAlone ==
    ASSUME StockInv, ~overlapped, NEW s \in Desks, BusyDesk(s) \/ ~Busy
    PROVE  OnlyDesk(s)
BY DEF StockInv, Alone, BusyDesk, BusyTill, Busy, OnlyDesk

\* So is a sale.
LEMMA TillAlone ==
    ASSUME StockInv, ~overlapped, NEW t \in Tills, BusyTill(t) \/ ~Busy
    PROVE  OnlyTill(t) /\ (basket[t] # NoGoods => BusyTill(t))
BY DEF StockInv, Alone, BusyDesk, BusyTill, Busy, OnlyTill

\* A step of a request.
LEMMA DeskStockInv ==
    ASSUME TInv, NEW s \in Desks, NEW r, desk' = [desk EXCEPT ![s] = r],
           UNCHANGED <<till, basket>>,
           ~overlapped' => /\ OnlyDesk(s)
                           /\ r.op \in LevelOps => r.seen = level'[r.branch][r.item]
                           /\ r.op = "transfer:to" => r.seenTo = level'[r.to][r.item]
                           /\ level' = movement'
    PROVE  StockInv'
<1> SUFFICES ASSUME ~overlapped' PROVE Alone' /\ SeenOK' /\ level' = movement'
  BY DEF StockInv
<1>1. \A u \in Desks : desk'[u] = IF u = s THEN r ELSE desk[u]
  BY DEF TInv
<1>2. "idle" \notin LevelOps
  BY DEF LevelOps, StockOps
<1>3. Alone'
  BY <1>1 DEF Alone, OnlyDesk, BusyDesk, BusyTill
<1>4. SeenOK'
  BY <1>1, <1>2 DEF SeenOK, OnlyDesk
<1> QED BY <1>3, <1>4

\* A step of a till.
LEMMA TillStockInv ==
    ASSUME TInv, NEW t \in Tills, NEW g, basket' = [basket EXCEPT ![t] = g],
           UNCHANGED desk, \A u \in Tills \ {t} : till'[u] = till[u],
           ~overlapped' => /\ OnlyTill(t)
                           /\ g # NoGoods => /\ till'[t].stage # "free"
                                             /\ g.seen = level'[g.branch][g.item]
                           /\ level' = movement'
    PROVE  StockInv'
<1> SUFFICES ASSUME ~overlapped' PROVE Alone' /\ SeenOK' /\ level' = movement'
  BY DEF StockInv
<1>1. \A u \in Tills : basket'[u] = IF u = t THEN g ELSE basket[u]
  BY DEF TInv
<1>2. "idle" \notin LevelOps
  BY DEF LevelOps, StockOps
<1>3. Alone'
  BY <1>1 DEF Alone, OnlyTill, BusyDesk, BusyTill
<1>4. SeenOK'
  BY <1>1, <1>2 DEF SeenOK, OnlyTill
<1> QED BY <1>3, <1>4

\* A level written from what it was keeps the sum of its movements.
LEMMA BookBalances ==
    ASSUME TInv, NEW b \in Branches, NEW i \in Items, NEW seen \in Int, NEW new \in Int,
           Book(b, i, seen, new), level = movement, seen = level[b][i]
    PROVE  level' = movement'
<1>1. level \in Levels /\ movement \in Levels
  BY DEF TInv
<1>2. /\ level' \in Levels /\ movement' \in Levels
      /\ \A c \in Branches, j \in Items :
            /\ level'[c][j] = IF c = b /\ j = i /\ new # seen THEN new ELSE level[c][j]
            /\ movement'[c][j] = IF c = b /\ j = i THEN movement[c][j] + new - seen
                                 ELSE movement[c][j]
  BY <1>1, BookEffect
<1>3. \A c \in Branches, j \in Items : level'[c][j] = movement'[c][j]
  BY <1>1, <1>2 DEF Levels
<1> QED BY <1>2, <1>3 DEF Levels

-----------------------------------------------------------------------------
(* One step per kind of action *)

\* A request that begins, and one that only reads: the level it reads is the level.
LEMMA BeginStockInv ==
    ASSUME TInv, StockInv, NEW s \in Desks, NEW kind, NEW r, Begin(s, kind, r),
           r.op \in LevelOps => r.seen = level[r.branch][r.item], r.op # "transfer:to"
    PROVE  StockInv'
<1>1. /\ desk' = [desk EXCEPT ![s] = r] /\ overlapped' = (overlapped \/ Busy)
      /\ UNCHANGED <<till, basket, level, movement>>
  BY DEF Begin, serialVars
<1>2. ~overlapped' => OnlyDesk(s) /\ level = movement
  BY <1>1, DeskAlone DEF StockInv
<1> QED BY <1>1, <1>2, DeskStockInv

\* A step of a request that began before and leaves the levels alone.
LEMMA ReadStockInv ==
    ASSUME TInv, StockInv, NEW s \in Desks, NEW r, desk' = [desk EXCEPT ![s] = r], Rest, BusyDesk(s),
           UNCHANGED <<level, movement>>,
           ~overlapped => /\ r.op \in LevelOps => r.seen = level[r.branch][r.item]
                          /\ r.op = "transfer:to" => r.seenTo = level[r.to][r.item]
    PROVE  StockInv'
<1>1. UNCHANGED <<till, basket, overlapped>>
  BY DEF Rest, serialVars
<1>2. ~overlapped => OnlyDesk(s) /\ level = movement
  BY DeskAlone DEF StockInv
<1> QED BY <1>1, <1>2, DeskStockInv

\* A step of a request that writes the level it read.
LEMMA BookStockInv ==
    ASSUME TInv, StockInv, NEW s \in Desks, NEW r, desk' = [desk EXCEPT ![s] = r], Rest, BusyDesk(s),
           r.op \notin LevelOps, r.op # "transfer:to",
           NEW b \in Branches, NEW i \in Items, NEW seen \in Int, NEW new \in Int,
           Book(b, i, seen, new), ~overlapped => seen = level[b][i]
    PROVE  StockInv'
<1>1. UNCHANGED <<till, basket, overlapped>>
  BY DEF Rest, serialVars
<1>2. ~overlapped => OnlyDesk(s) /\ level = movement
  BY DeskAlone DEF StockInv
<1>3. ~overlapped => level' = movement'
  BY <1>2, BookBalances
<1> QED BY <1>1, <1>2, <1>3, DeskStockInv

\* The level a request has read is still the level.
LEMMA SeenIsLevel ==
    ASSUME StockInv, ~overlapped, NEW s \in Desks
    PROVE  /\ desk[s].op \in LevelOps => desk[s].seen = level[desk[s].branch][desk[s].item]
           /\ desk[s].op = "transfer:to" => desk[s].seenTo = level[desk[s].to][desk[s].item]
           /\ level = movement
BY DEF StockInv, SeenOK

\* The idle request has read no level.
LEMMA IdleSeesNothing == Idle.op \notin LevelOps /\ Idle.op # "transfer:to"
BY IdleRow DEF LevelOps, StockOps

\* stockIn, stockOut, adjust and stocktake.
LEMMA StockOpsStockInv ==
    ASSUME TInv, StockInv, NEW s \in Desks,
           CommitStock(s) \/ \E op \in StockOps, b \in Branches, i \in Items, q \in Int :
                                 BeginStock(s, op, b, i, q)
    PROVE  StockInv'
<1>1. ASSUME NEW op \in StockOps, NEW b \in Branches, NEW i \in Items, NEW q \in Int,
             BeginStock(s, op, b, i, q)
      PROVE  StockInv'
  <2> DEFINE r == [Idle EXCEPT !.op = op, !.branch = b, !.item = i, !.quantity = q, !.seen = level[b][i]]
  <2>1. r.op = op /\ r.branch = b /\ r.item = i /\ r.seen = level[b][i]
    BY IdleRow DEF DeskRow
  <2>2. Begin(s, op, r) /\ op # "transfer:to"
    BY <1>1 DEF BeginStock, StockOps
  <2> HIDE DEF r
  <2> QED BY <2>1, <2>2, BeginStockInv
<1>2. CASE CommitStock(s)
  <2>1. PICK b \in Branches, i \in Items, seen \in Int :
            /\ desk[s].op \in StockOps /\ b = desk[s].branch /\ i = desk[s].item /\ seen = desk[s].seen
            /\ Book(b, i, seen, NewLevel(desk[s].op, seen, desk[s].quantity))
    BY <1>2, DeskTypes DEF CommitStock, DeskOK, RequestOK, LevelOps
  <2>2. PICK new \in Int : new = NewLevel(desk[s].op, seen, desk[s].quantity)
    BY <2>1, DeskTypes DEF NewLevel, StockOps
  <2>3. Book(b, i, seen, new) /\ (~overlapped => seen = level[b][i]) /\ BusyDesk(s)
    BY <2>1, <2>2, SeenIsLevel DEF LevelOps, BusyDesk, StockOps
  <2>4. desk' = [desk EXCEPT ![s] = Idle] /\ Rest
    BY <1>2 DEF CommitStock, End
  <2> QED BY <2>3, <2>4, IdleSeesNothing, BookStockInv
<1> QED BY <1>1, <1>2

\* The three steps of a transfer.
LEMMA TransferStockInv ==
    ASSUME TInv, StockInv, NEW s \in Desks,
           \/ \E b, c \in Branches, i \in Items, q \in Quantities : BeginTransfer(s, b, c, i, q)
           \/ ReadTarget(s) \/ CommitTransfer(s)
    PROVE  StockInv'
<1>1. ASSUME NEW b \in Branches, NEW c \in Branches, NEW i \in Items, NEW q \in Quantities,
             BeginTransfer(s, b, c, i, q)
      PROVE  StockInv'
  <2> DEFINE r == [Idle EXCEPT !.op = "transfer", !.branch = b, !.to = c, !.item = i,
                               !.quantity = q, !.seen = level[b][i]]
  <2>1. r.op = "transfer" /\ r.branch = b /\ r.item = i /\ r.seen = level[b][i]
    BY IdleRow DEF DeskRow
  <2>2. Begin(s, "transfer", r)
    BY <1>1 DEF BeginTransfer
  <2> HIDE DEF r
  <2> QED BY <2>1, <2>2, BeginStockInv
<1>2. CASE ReadTarget(s)
  <2> DEFINE x == level[desk[s].to][desk[s].item]
             r == [desk[s] EXCEPT !.op = "transfer:to", !.seenTo = x]
  <2>1. desk[s] \in DeskRow /\ desk[s].op = "transfer"
    BY <1>2, DeskTypes DEF ReadTarget
  <2>2. /\ r.op = "transfer:to" /\ r.seenTo = level[r.to][r.item]
        /\ r.branch = desk[s].branch /\ r.item = desk[s].item /\ r.seen = desk[s].seen
    BY <2>1 DEF DeskRow
  <2>3. desk' = [desk EXCEPT ![s] = r]
    BY <1>2, <2>1 DEF ReadTarget, DeskRow
  <2>4. ~overlapped => desk[s].seen = level[desk[s].branch][desk[s].item]
    BY <2>1, SeenIsLevel DEF LevelOps
  <2>5. Rest /\ BusyDesk(s) /\ UNCHANGED <<level, movement>>
    BY <1>2, <2>1 DEF ReadTarget, BusyDesk
  <2> HIDE DEF r, x
  <2> QED BY <2>2, <2>3, <2>4, <2>5, ReadStockInv
<1>3. CASE CommitTransfer(s)
  <2>1. desk[s].op = "transfer:to" /\ desk' = [desk EXCEPT ![s] = Idle] /\ Rest
    BY <1>3 DEF CommitTransfer, End
  <2>2. UNCHANGED <<till, basket, overlapped>>
    BY <2>1 DEF Rest, serialVars
  <2>3. ~overlapped => OnlyDesk(s)
    BY <2>1, DeskAlone DEF BusyDesk
  <2>4. ASSUME ~overlapped PROVE level' = movement'
    <3>1. PICK b, c \in Branches, i \in Items, seen \in Int, seenTo \in Int, q \in Nat :
              /\ b = desk[s].branch /\ c = desk[s].to /\ i = desk[s].item /\ b # c
              /\ seen = desk[s].seen /\ seenTo = desk[s].seenTo /\ q = desk[s].quantity
      BY <1>3, TransferRow
    <3>2. level = movement /\ seen = level[b][i] /\ seenTo = level[c][i]
      BY <2>1, <2>4, <3>1, SeenIsLevel DEF LevelOps
    <3>3. /\ level' \in Levels /\ movement' \in Levels
          /\ \A d \in Branches, j \in Items :
                level'[d][j] = IF d = b /\ j = i THEN seen - q
                               ELSE IF d = c /\ j = i THEN seenTo + q ELSE level[d][j]
          /\ \A d \in Branches, j \in Items :
                movement'[d][j] = IF d = b /\ j = i THEN movement[d][j] - q
                                  ELSE IF d = c /\ j = i THEN movement[d][j] + q ELSE movement[d][j]
      BY <1>3, <3>1, TransferEffect
    <3>4. \A d \in Branches, j \in Items : level'[d][j] = movement'[d][j]
      BY <3>2, <3>3
    <3> QED BY <3>3, <3>4 DEF Levels
  <2> QED BY <2>1, <2>2, <2>3, <2>4, IdleSeesNothing, DeskStockInv
<1> QED BY <1>1, <1>2, <1>3

\* create, send, cancel and the first step of receive read no level.
LEMMA BeginPurchaseStockInv ==
    ASSUME TInv, StockInv, NEW s \in Desks,
           \/ \E b \in Branches : BeginCreate(s, b)
           \/ \E p \in POs : BeginSend(s, p) \/ BeginCancel(s, p)
           \/ \E p \in POs, lines \in [Items -> Quantities \cup {0}] : BeginReceive(s, p, lines)
    PROVE  StockInv'
<1>1. ASSUME NEW r, Begin(s, "purchase", r), r.op \in {"create", "setStatus", "receive"}
      PROVE  StockInv'
  <2>1. r.op \notin LevelOps /\ r.op # "transfer:to"
    BY <1>1 DEF LevelOps, StockOps
  <2> QED BY <1>1, <2>1, BeginStockInv
<1>2. ASSUME NEW b \in Branches, BeginCreate(s, b) PROVE StockInv'
  <2> DEFINE r == [Idle EXCEPT !.op = "create", !.branch = b, !.po = Cardinality(Created) + 1]
  <2>1. r.op = "create"
    BY IdleRow DEF DeskRow
  <2> QED BY <1>1, <1>2, <2>1 DEF BeginCreate
<1>3. ASSUME NEW p \in POs, NEW x,
             Begin(s, "purchase", [Idle EXCEPT !.op = "setStatus", !.po = p, !.status = x])
      PROVE  StockInv'
  <2> DEFINE r == [Idle EXCEPT !.op = "setStatus", !.po = p, !.status = x]
  <2>1. r.op = "setStatus"
    BY IdleRow DEF DeskRow
  <2> QED BY <1>1, <1>3, <2>1
<1>4. ASSUME NEW p \in POs, NEW lines, BeginReceive(s, p, lines) PROVE StockInv'
  <2> DEFINE r == [Idle EXCEPT !.op = "receive", !.po = p, !.branch = po[p].branch,
                               !.lines = lines, !.read = po[p].received]
  <2>1. r.op = "receive"
    BY IdleRow DEF DeskRow
  <2> QED BY <1>1, <1>4, <2>1 DEF BeginReceive
<1> QED BY <1>2, <1>3, <1>4 DEF BeginSend, BeginCancel

\* The later steps of a purchase order: stockIn of a line is the one that writes a level.
LEMMA PurchaseStockInv ==
    ASSUME TInv, StockInv, NEW s \in Desks,
           \/ Abort(s) \/ CommitCreate(s) \/ SetStatus(s) \/ BookReceipt(s) \/ CommitLine(s)
           \/ ReadStatus(s) \/ \E i \in Items : ReadLine(s, i)
    PROVE  StockInv'
<1>1. CASE Abort(s) \/ CommitCreate(s) \/ SetStatus(s)
  <2>1. desk' = [desk EXCEPT ![s] = Idle] /\ Rest /\ BusyDesk(s) /\ UNCHANGED <<level, movement>>
    BY <1>1 DEF Abort, CommitCreate, SetStatus, End, BusyDesk
  <2> QED BY <2>1, IdleSeesNothing, ReadStockInv
<1>2. CASE BookReceipt(s)
  <2>1. PICK r : desk' = [desk EXCEPT ![s] = r] /\ r.op = "stocking"
    BY <1>2, ReceiptEffect
  <2>2. Rest /\ BusyDesk(s) /\ UNCHANGED <<level, movement>>
    BY <1>2 DEF BookReceipt, BusyDesk
  <2>3. r.op \notin LevelOps /\ r.op # "transfer:to"
    BY <2>1 DEF LevelOps, StockOps
  <2> QED BY <2>1, <2>2, <2>3, ReadStockInv
<1>3. CASE ReadStatus(s)
  <2>1. PICK r : desk' = [desk EXCEPT ![s] = r] /\ r.op = "setStatus"
    BY <1>3, StatusEffect
  <2>2. Rest /\ BusyDesk(s) /\ UNCHANGED <<level, movement>>
    BY <1>3 DEF ReadStatus, BusyDesk
  <2>3. r.op \notin LevelOps /\ r.op # "transfer:to"
    BY <2>1 DEF LevelOps, StockOps
  <2> QED BY <2>1, <2>2, <2>3, ReadStockInv
<1>4. ASSUME NEW i \in Items, ReadLine(s, i) PROVE StockInv'
  <2> DEFINE r == [desk[s] EXCEPT !.op = "stockIn:po", !.item = i, !.seen = level[desk[s].branch][i]]
  <2>1. desk[s] \in DeskRow /\ BusyDesk(s) /\ Rest /\ UNCHANGED <<level, movement>>
    BY <1>4, DeskTypes DEF ReadLine, BusyDesk
  <2>2. r.op = "stockIn:po" /\ r.item = i /\ r.branch = desk[s].branch /\ r.seen = level[r.branch][r.item]
    BY <2>1 DEF DeskRow
  <2>3. desk' = [desk EXCEPT ![s] = r]
    BY <1>4, <2>1 DEF ReadLine, DeskRow, TInv
  <2> HIDE DEF r
  <2> QED BY <2>1, <2>2, <2>3, ReadStockInv
<1>5. CASE CommitLine(s)
  <2>1. PICK p \in POs, i \in Items, b \in Branches, n \in Nat, x \in Int :
            /\ p = desk[s].po /\ i = desk[s].item /\ b = desk[s].branch
            /\ n = desk[s].lines[i] /\ x = desk[s].seen
    BY <1>5, LineRow
  <2>2. PICK r : desk' = [desk EXCEPT ![s] = r] /\ r.op = "stocking"
    BY <1>5, LineEffect
  <2>3. PICK new \in Int : new = x + n
    OBVIOUS
  <2>4. Book(b, i, x, new) /\ desk[s].op = "stockIn:po" /\ Rest
    BY <1>5, <2>1, <2>3 DEF CommitLine
  <2>5. BusyDesk(s) /\ (~overlapped => x = level[b][i])
    BY <2>1, <2>4, SeenIsLevel DEF BusyDesk, LevelOps
  <2>6. r.op \notin LevelOps /\ r.op # "transfer:to"
    BY <2>2 DEF LevelOps, StockOps
  <2> QED BY <2>2, <2>4, <2>5, <2>6, BookStockInv
<1> QED BY <1>1, <1>2, <1>3, <1>4, <1>5

\* The steps of a sale.
LEMMA SaleStockInv ==
    ASSUME TInv, SInv, StockInv, NEW t \in Tills, TillNext(t)
    PROVE  StockInv'
<1>0. till \in [Tills -> TillRow] /\ basket \in [Tills -> Goods] /\ basket = [basket EXCEPT ![t] = basket[t]]
  BY DEF SInv, SerialTypeOK, TInv
<1>1. CASE \E d \in Drivers, m \in Numbers \cup {0} : BeginSale(t, d, m)
  <2>1. PICK d \in Drivers, m \in Numbers \cup {0} : BeginSale(t, d, m)
    BY <1>1
  <2>2. /\ \A u \in Tills \ {t} : till'[u] = till[u]
        /\ till[t].stage = "free" /\ till'[t].stage = "read"
    BY <2>1, <1>0 DEF BeginSale, BeginStamp
  <2>3. overlapped' = (overlapped \/ Busy) /\ UNCHANGED <<level, movement, desk, basket>>
    BY <2>1 DEF BeginSale
  <2>4. ~overlapped' => OnlyTill(t) /\ level = movement /\ basket[t] = NoGoods
    BY <2>2, <2>3, TillAlone DEF StockInv, BusyTill
  <2> QED BY <1>0, <2>2, <2>3, <2>4, TillStockInv
<1>2. CASE SaleStep(t)
  <2>1. /\ \A u \in Tills \ {t} : till'[u] = till[u]
        /\ till[t].stage # "free" /\ till'[t].stage # "free"
    BY <1>2, <1>0 DEF SaleStep, Stamp, StampNext, TillRow
  <2>2. UNCHANGED <<level, movement, desk, basket, overlapped>>
    BY <1>2 DEF SaleStep, stockVars
  <2>3. ~overlapped => /\ OnlyTill(t) /\ level = movement
                       /\ basket[t] # NoGoods => basket[t].seen = level[basket[t].branch][basket[t].item]
    BY <2>1, TillAlone DEF StockInv, SeenOK, BusyTill
  <2> QED BY <1>0, <2>1, <2>2, <2>3, TillStockInv
<1>3. ASSUME NEW i \in Items, ReadGoods(t, i) PROVE StockInv'
  <2> DEFINE b == BranchOf[till[t].driver]
             g == [branch |-> b, item |-> i, seen |-> level[b][i]]
  <2>1. /\ till[t].stage = "stamped" /\ basket' = [basket EXCEPT ![t] = g]
        /\ UNCHANGED <<till, level, movement, desk, overlapped>>
    BY <1>3 DEF ReadGoods, serialVars
  <2>2. g.seen = level[g.branch][g.item]
    OBVIOUS
  <2>3. ~overlapped => OnlyTill(t) /\ level = movement
    BY <2>1, TillAlone DEF StockInv, BusyTill
  <2> HIDE DEF g
  <2> QED BY <2>1, <2>2, <2>3, TillStockInv
<1>4. CASE RollbackSale(t)
  <2>1. /\ \A u \in Tills \ {t} : till'[u] = till[u]
        /\ till[t].stage # "free" /\ basket' = [basket EXCEPT ![t] = NoGoods]
    BY <1>4, <1>0 DEF RollbackSale, RollbackStamp
  <2>2. UNCHANGED <<level, movement, desk, overlapped>>
    BY <1>4 DEF RollbackSale
  <2>3. ~overlapped => OnlyTill(t) /\ level = movement
    BY <2>1, TillAlone DEF StockInv, BusyTill
  <2> QED BY <2>1, <2>2, <2>3, TillStockInv
<1>5. CASE CommitSale(t)
  <2>1. /\ \A u \in Tills \ {t} : till'[u] = till[u]
        /\ till[t].stage # "free" /\ basket' = [basket EXCEPT ![t] = NoGoods]
    BY <1>5, <1>0 DEF CommitSale, CommitStamp
  <2>2. UNCHANGED <<desk, overlapped>>
    BY <1>5 DEF CommitSale
  <2>3. ~overlapped => OnlyTill(t) /\ level = movement
    BY <2>1, TillAlone DEF StockInv, BusyTill
  <2>4. ASSUME ~overlapped PROVE level' = movement'
    <3>1. CASE basket[t] = NoGoods
      BY <1>5, <2>3, <2>4, <3>1 DEF CommitSale
    <3>2. CASE basket[t] # NoGoods
      <4>1. PICK b \in Branches, i \in Items, x \in Int :
                /\ b = basket[t].branch /\ i = basket[t].item /\ x = basket[t].seen
                /\ Book(b, i, x, x - 1)
        BY <1>5, <3>2, SaleBook
      <4>2. x = level[b][i] /\ level = movement
        BY <2>4, <3>2, <4>1 DEF StockInv, SeenOK
      <4>3. PICK new \in Int : new = x - 1
        OBVIOUS
      <4>4. Book(b, i, x, new)
        BY <4>1, <4>3
      <4> QED BY <4>2, <4>4, BookBalances
    <3> QED BY <3>1, <3>2
  <2> QED BY <2>1, <2>2, <2>3, <2>4, TillStockInv
<1> QED BY <1>1, <1>2, <1>3, <1>4, <1>5 DEF TillNext

\* Nobody is at work, and nothing is in stock.
LEMMA InitStockInv == Init => StockInv
<1> SUFFICES ASSUME Init PROVE StockInv
  OBVIOUS
<1>1. /\ level = movement /\ \A s \in Desks : desk[s] = Idle
      /\ \A t \in Tills : till[t] = Free /\ basket[t] = NoGoods
  BY DEF Init, SerialInit
<1>2. Alone
  BY <1>1, IdleRow, FreeType DEF Alone, BusyDesk, BusyTill
<1>3. SeenOK
  BY <1>1, IdleSeesNothing DEF SeenOK
<1> QED BY <1>1, <1>2, <1>3 DEF StockInv

\* StockInv is inductive.
LEMMA StepStockInv == TInv /\ SInv /\ StockInv /\ [Next]_vars => StockInv'
<1> SUFFICES ASSUME TInv, SInv, StockInv, [Next]_vars PROVE StockInv'
  OBVIOUS
<1>1. CASE UNCHANGED vars \/ \E d, e \in Drivers, n \in Numbers : Reassign(d, n, e)
  <2>1. UNCHANGED <<till, level, movement, desk, basket, overlapped>>
    BY <1>1 DEF vars, serialVars, stockVars, Reassign, Move
  <2> QED BY <2>1 DEF StockInv, Alone, SeenOK, BusyDesk, BusyTill
<1>2. ASSUME NEW s \in Desks, DeskNext(s) PROVE StockInv'
  <2>1. \A q \in Quantities : q \in Int /\ -q \in Int
    BY SupplyAssumption
  <2>2. CASE \/ \E op \in StockOps, b \in Branches, i \in Items, q \in Quantities : BeginStock(s, op, b, i, q)
             \/ \E b \in Branches, i \in Items, q \in Quantities : BeginStock(s, "adjust", b, i, -q)
             \/ \E b \in Branches, i \in Items : BeginStock(s, "stocktake", b, i, 0)
    <3>1. "adjust" \in StockOps /\ "stocktake" \in StockOps /\ 0 \in Int
      BY DEF StockOps
    <3>2. \E op \in StockOps, b \in Branches, i \in Items, q \in Int : BeginStock(s, op, b, i, q)
      BY <2>1, <2>2, <3>1
    <3> QED BY <3>2, StockOpsStockInv
  <2>3. CASE CommitStock(s)
    BY <2>3, StockOpsStockInv
  <2>4. CASE \/ \E b, c \in Branches, i \in Items, q \in Quantities : BeginTransfer(s, b, c, i, q)
             \/ ReadTarget(s) \/ CommitTransfer(s)
    BY <2>4, TransferStockInv
  <2>5. CASE \/ \E b \in Branches : BeginCreate(s, b)
             \/ \E p \in POs : BeginSend(s, p) \/ BeginCancel(s, p)
             \/ \E p \in POs, lines \in [Items -> Quantities \cup {0}] : BeginReceive(s, p, lines)
    BY <2>5, BeginPurchaseStockInv
  <2>6. CASE \/ Abort(s) \/ CommitCreate(s) \/ SetStatus(s) \/ BookReceipt(s) \/ CommitLine(s)
             \/ ReadStatus(s) \/ \E i \in Items : ReadLine(s, i)
    BY <2>6, PurchaseStockInv
  <2> QED BY <1>2, <2>2, <2>3, <2>4, <2>5, <2>6 DEF DeskNext
<1>3. ASSUME NEW t \in Tills, TillNext(t) PROVE StockInv'
  BY <1>3, SaleStockInv
<1> QED BY <1>1, <1>2, <1>3 DEF Next

\* The stock levels of every branch are the sums of their movement rows as long as
\* transactions do not overlap, and go below zero by sales only, overlap or not.
THEOREM StockCorrect == Spec => []StockExplained
<1>1. TInv /\ StockInv => StockExplained
  BY DEF TInv, StockInv, StockExplained, LevelIsMovements
<1> QED BY <1>1, InitTInv, StepTInv, InitStockInv, StepStockInv, SupplySInv, PTL DEF Spec

-----------------------------------------------------------------------------
(* Purchase orders *)

\* A receive that has booked its receipt (Receiving, of a row).
ReceivingRow(r) == r.lines # None /\ r.op # "receive"

\* The part of a line of a receive that still has to be stocked.
Due(r, i) == IF i \in r.left THEN r.lines[i] ELSE 0

\* What a request knows of its purchase order.
Knows(r) ==
    LET row == po[r.po]
    IN  /\ r.op = "receive" => r.read = row.received
        /\ ReceivingRow(r) =>
              /\ \A i \in Items : r.lines[i] <= row.received[i]
              /\ \A i \in Items : row.stocked[i] + Due(r, i) <= row.receipts[i]
              /\ r.po \notin interrupted =>
                    \A i \in Items : row.stocked[i] + Due(r, i) = row.receipts[i]
        /\ r.op = "setStatus" /\ r.lines = None => r.po \in interrupted \/ row.received = None
        /\ r.op = "setStatus" /\ r.lines # None =>
              r.status = IF \A i \in Items : row.received[i] >= Ordered[i]
                         THEN "RECEIVED" ELSE "PARTIALLY_RECEIVED"

\* The receipts are what was received, and what was stocked came with a receipt.
Booked(row) == row.received = row.receipts /\ \A i \in Items : row.stocked[i] <= row.receipts[i]

\* Everything that was received is in stock, and the status says how much that is.
Settled(row) ==
    /\ row.stocked = row.receipts
    /\ row.status = (IF row.received = None
                     THEN (IF row.status \in {"RECEIVED", "PARTIALLY_RECEIVED"} THEN "SENT"
                           ELSE row.status)
                     ELSE IF \A i \in Items : row.received[i] = Ordered[i] THEN "RECEIVED"
                     ELSE "PARTIALLY_RECEIVED")

UnderWay(p) == \E s \in Desks : desk[s].po = p /\ Receiving(s)

PurchaseInv ==
    ~overlapped =>
        /\ \A s \in Desks : Knows(desk[s])
        /\ \A p \in POs : Booked(po[p]) /\ (p \in interrupted \/ UnderWay(p) \/ Settled(po[p]))

\* An idle request knows nothing and has no receipt.
LEMMA IdleKnowsNothing ==
    ASSUME TInv, NEW s \in Desks, desk[s].op = "idle"
    PROVE  ~Receiving(s) /\ Knows(desk[s]) /\ ~ReceivingRow(desk[s])
<1>1. desk[s].lines = None
  BY DeskTypes DEF DeskOK, RequestOK, ReceiveOps
<1> QED BY <1>1 DEF Receiving, Knows, ReceivingRow

\* When only s is at work, the receive that is under way is its own.
LEMMA OneUnderWay ==
    ASSUME TInv, NEW s \in Desks, OnlyDesk(s), NEW p
    PROVE  UnderWay(p) <=> desk[s].po = p /\ ReceivingRow(desk[s])
BY IdleKnowsNothing DEF UnderWay, OnlyDesk, Receiving, ReceivingRow

\* A step of a request.
LEMMA DeskPurchaseInv ==
    ASSUME TInv, NEW s \in Desks, NEW r, desk' = [desk EXCEPT ![s] = r],
           ~overlapped' =>
              /\ OnlyDesk(s) /\ Knows(r)'
              /\ \A p \in POs : /\ Booked(po'[p])
                                /\ p \in interrupted' \/ (r.po = p /\ ReceivingRow(r)) \/ Settled(po'[p])
    PROVE  PurchaseInv'
<1> SUFFICES ASSUME ~overlapped'
             PROVE  /\ \A u \in Desks : Knows(desk[u])'
                    /\ \A p \in POs : Booked(po'[p])
                                      /\ (p \in interrupted' \/ UnderWay(p)' \/ Settled(po'[p]))
  BY DEF PurchaseInv, Booked, Settled
<1>1. \A u \in Desks : desk'[u] = IF u = s THEN r ELSE desk[u]
  BY DEF TInv
<1>2. ASSUME NEW u \in Desks PROVE Knows(desk[u])'
  <2>1. CASE u = s
    BY <2>1, <1>1 DEF Knows
  <2>2. CASE u # s
    <3>1. desk'[u] = desk[u] /\ desk[u].op = "idle"
      BY <2>2, <1>1 DEF OnlyDesk
    <3>2. desk[u].lines = None
      BY <3>1, DeskTypes DEF DeskOK, RequestOK, ReceiveOps
    <3> QED BY <3>1, <3>2 DEF Knows, ReceivingRow
  <2> QED BY <2>1, <2>2
<1>3. ASSUME NEW p \in POs, r.po = p, ReceivingRow(r) PROVE UnderWay(p)'
  BY <1>1, <1>3 DEF UnderWay, Receiving, ReceivingRow
<1> QED BY <1>2, <1>3

\* A request that begins.
LEMMA BeginPurchaseInv ==
    ASSUME TInv, StockInv, PurchaseInv, NEW s \in Desks, NEW kind, NEW r, Begin(s, kind, r),
           ~overlapped /\ (\A p \in POs : p \in interrupted \/ Settled(po[p])) => Knows(r)
    PROVE  PurchaseInv'
<1>1. /\ desk' = [desk EXCEPT ![s] = r] /\ overlapped' = (overlapped \/ Busy)
      /\ UNCHANGED <<po, interrupted>>
  BY DEF Begin
<1>2. ASSUME ~overlapped'
      PROVE  /\ OnlyDesk(s) /\ Knows(r)'
             /\ \A p \in POs : /\ Booked(po'[p])
                               /\ p \in interrupted' \/ (r.po = p /\ ReceivingRow(r)) \/ Settled(po'[p])
  <2>1. ~overlapped /\ ~Busy /\ OnlyDesk(s)
    BY <1>1, <1>2, DeskAlone
  <2>2. desk[s].op = "idle"
    BY DEF Begin
  <2>3. \A p \in POs : Booked(po[p]) /\ (p \in interrupted \/ Settled(po[p]))
    BY <2>1, <2>2, OneUnderWay, IdleKnowsNothing DEF PurchaseInv
  <2>4. Knows(r)'
    BY <1>1, <2>1, <2>3 DEF Knows
  <2> QED BY <1>1, <2>1, <2>3, <2>4
<1> QED BY <1>1, <1>2, DeskPurchaseInv

\* A step of a request that began before and leaves the purchase orders alone.
LEMMA ReadPurchaseInv ==
    ASSUME TInv, StockInv, PurchaseInv, NEW s \in Desks, NEW r, desk' = [desk EXCEPT ![s] = r],
           BusyDesk(s), UNCHANGED <<po, overlapped>>, interrupted \subseteq interrupted',
           ReceivingRow(desk[s]) => desk[s].po \in interrupted' \/ (r.po = desk[s].po /\ ReceivingRow(r)),
           ~overlapped => Knows(r)'
    PROVE  PurchaseInv'
<1>1. ASSUME ~overlapped
      PROVE  /\ OnlyDesk(s)
             /\ \A p \in POs : /\ Booked(po'[p])
                               /\ p \in interrupted' \/ (r.po = p /\ ReceivingRow(r)) \/ Settled(po'[p])
  <2>1. OnlyDesk(s)
    BY <1>1, DeskAlone
  <2>2. \A p \in POs : Booked(po[p])
                       /\ (p \in interrupted \/ (desk[s].po = p /\ ReceivingRow(desk[s])) \/ Settled(po[p]))
    BY <1>1, <2>1, OneUnderWay DEF PurchaseInv
  <2> QED BY <2>1, <2>2
<1> QED BY <1>1, DeskPurchaseInv

\* A step of a request that writes its purchase order.
LEMMA WritePurchaseInv ==
    ASSUME TInv, StockInv, PurchaseInv, NEW s \in Desks, NEW r, desk' = [desk EXCEPT ![s] = r],
           BusyDesk(s), UNCHANGED <<overlapped, interrupted>>,
           NEW p \in POs, NEW row, p = desk[s].po, po' = [po EXCEPT ![p] = row],
           ~overlapped => /\ Knows(r)' /\ Booked(row)
                          /\ p \in interrupted \/ (r.po = p /\ ReceivingRow(r)) \/ Settled(row)
    PROVE  PurchaseInv'
<1>1. ASSUME ~overlapped
      PROVE  /\ OnlyDesk(s)
             /\ \A x \in POs : /\ Booked(po'[x])
                               /\ x \in interrupted' \/ (r.po = x /\ ReceivingRow(r)) \/ Settled(po'[x])
  <2>1. OnlyDesk(s)
    BY <1>1, DeskAlone
  <2>2. \A x \in POs : Booked(po[x])
                       /\ (x \in interrupted \/ (desk[s].po = x /\ ReceivingRow(desk[s])) \/ Settled(po[x]))
    BY <1>1, <2>1, OneUnderWay DEF PurchaseInv
  <2>3. \A x \in POs : po'[x] = IF x = p THEN row ELSE po[x]
    BY DEF TInv
  <2> QED BY <1>1, <2>1, <2>2, <2>3
<1> QED BY <1>1, DeskPurchaseInv

-----------------------------------------------------------------------------
(* One step per kind of action *)

\* A request without a purchase order knows nothing of one.
LEMMA StockKnowsNothing ==
    ASSUME NEW r, r.op \notin ReceiveOps \cup {"setStatus"}, r.lines = None
    PROVE  Knows(r) /\ Knows(r)' /\ ~ReceivingRow(r)
BY DEF Knows, ReceivingRow, ReceiveOps

\* Stock operations, transfers and the creation of an order begin.
LEMMA BeginStockPurchaseInv ==
    ASSUME TInv, StockInv, PurchaseInv, NEW s \in Desks,
           \/ \E op \in StockOps, b \in Branches, i \in Items, q \in Int : BeginStock(s, op, b, i, q)
           \/ \E b, c \in Branches, i \in Items, q \in Quantities : BeginTransfer(s, b, c, i, q)
           \/ \E b \in Branches : BeginCreate(s, b)
    PROVE  PurchaseInv'
<1>1. ASSUME NEW kind, NEW r, Begin(s, kind, r), r.op \in StockOps \cup {"transfer", "create"},
             r.lines = None
      PROVE  PurchaseInv'
  <2>1. r.op \notin ReceiveOps \cup {"setStatus"}
    BY <1>1 DEF StockOps, ReceiveOps
  <2>2. Knows(r)
    BY <1>1, <2>1, StockKnowsNothing
  <2> QED BY <1>1, <2>2, BeginPurchaseInv
<1>2. ASSUME NEW op \in StockOps, NEW b \in Branches, NEW i \in Items, NEW q \in Int,
             BeginStock(s, op, b, i, q)
      PROVE  PurchaseInv'
  <2>1. PICK x : x = level[b][i]
    OBVIOUS
  <2> DEFINE r == [Idle EXCEPT !.op = op, !.branch = b, !.item = i, !.quantity = q, !.seen = x]
  <2>2. r.op = op /\ r.lines = None
    BY IdleRow DEF DeskRow
  <2>3. Begin(s, op, r)
    BY <1>2, <2>1 DEF BeginStock
  <2> HIDE DEF r
  <2> QED BY <1>1, <2>2, <2>3
<1>3. ASSUME NEW b \in Branches, NEW c \in Branches, NEW i \in Items, NEW q \in Quantities,
             BeginTransfer(s, b, c, i, q)
      PROVE  PurchaseInv'
  <2>1. PICK x : x = level[b][i]
    OBVIOUS
  <2> DEFINE r == [Idle EXCEPT !.op = "transfer", !.branch = b, !.to = c, !.item = i,
                               !.quantity = q, !.seen = x]
  <2>2. r.op = "transfer" /\ r.lines = None
    BY IdleRow DEF DeskRow
  <2>3. Begin(s, "transfer", r)
    BY <1>3, <2>1 DEF BeginTransfer
  <2> HIDE DEF r
  <2> QED BY <1>1, <2>2, <2>3
<1>4. ASSUME NEW b \in Branches, BeginCreate(s, b) PROVE PurchaseInv'
  <2>1. PICK n : n = Cardinality(Created) + 1
    OBVIOUS
  <2> DEFINE r == [Idle EXCEPT !.op = "create", !.branch = b, !.po = n]
  <2>2. r.op = "create" /\ r.lines = None
    BY IdleRow DEF DeskRow
  <2>3. Begin(s, "purchase", r)
    BY <1>4, <2>1 DEF BeginCreate
  <2> HIDE DEF r
  <2> QED BY <1>1, <2>2, <2>3
<1> QED BY <1>2, <1>3, <1>4

\* send and cancel find an order of which nothing was received, unless a receive
\* stopped half way; receive reads what was received.
LEMMA BeginOrderPurchaseInv ==
    ASSUME TInv, StockInv, PurchaseInv, NEW s \in Desks, NEW p \in POs,
           \/ BeginSend(s, p) \/ BeginCancel(s, p)
           \/ \E lines \in [Items -> Quantities \cup {0}] : BeginReceive(s, p, lines)
    PROVE  PurchaseInv'
<1>1. ASSUME NEW x, Settled(po[p]) => po[p].received = None,
             Begin(s, "purchase", [Idle EXCEPT !.op = "setStatus", !.po = p, !.status = x])
      PROVE  PurchaseInv'
  <2> DEFINE r == [Idle EXCEPT !.op = "setStatus", !.po = p, !.status = x]
  <2>1. r.op = "setStatus" /\ r.po = p /\ r.lines = None
    BY IdleRow DEF DeskRow
  <2> HIDE DEF r
  <2>2. p \in interrupted \/ Settled(po[p]) => Knows(r)
    BY <1>1, <2>1 DEF Knows, ReceivingRow
  <2>3. Begin(s, "purchase", r)
    BY <1>1 DEF r
  <2> QED BY <2>2, <2>3, BeginPurchaseInv
<1>2. CASE BeginSend(s, p)
  <2>1. Settled(po[p]) => po[p].received = None
    BY <1>2 DEF BeginSend, Settled
  <2> QED BY <1>1, <1>2, <2>1 DEF BeginSend
<1>3. CASE BeginCancel(s, p)
  BY <1>1, <1>3 DEF BeginCancel
<1>4. ASSUME NEW lines \in [Items -> Quantities \cup {0}], BeginReceive(s, p, lines)
      PROVE  PurchaseInv'
  <2>1. PICK b, got : b = po[p].branch /\ got = po[p].received
    OBVIOUS
  <2> DEFINE r == [Idle EXCEPT !.op = "receive", !.po = p, !.branch = b, !.lines = lines, !.read = got]
  <2>2. r.op = "receive" /\ r.po = p /\ r.lines = lines /\ r.read = got
    BY IdleRow DEF DeskRow
  <2>3. Begin(s, "purchase", r)
    BY <1>4, <2>1 DEF BeginReceive
  <2> HIDE DEF r
  <2>4. Knows(r)
    BY <2>1, <2>2 DEF Knows, ReceivingRow
  <2> QED BY <2>3, <2>4, BeginPurchaseInv
<1> QED BY <1>2, <1>3, <1>4

\* A request that ends without more to say; one that had booked its receipt leaves
\* its order interrupted.
LEMMA EndPurchaseInv ==
    ASSUME TInv, StockInv, PurchaseInv, NEW s \in Desks,
           Abort(s) \/ CommitStock(s) \/ CommitTransfer(s)
    PROVE  PurchaseInv'
<1>1. /\ desk' = [desk EXCEPT ![s] = Idle] /\ BusyDesk(s) /\ UNCHANGED <<po, overlapped>>
      /\ interrupted \subseteq interrupted'
  BY DEF Abort, CommitStock, CommitTransfer, End, Rest, BusyDesk, StockOps
<1>2. Knows(Idle)' /\ ~ReceivingRow(Idle)
  BY IdleRow, StockKnowsNothing DEF ReceiveOps
<1>3. ReceivingRow(desk[s]) => desk[s].po \in interrupted'
  <2>1. CASE Abort(s)
    BY <2>1 DEF Abort, ReceivingRow, Receiving
  <2>2. CASE CommitStock(s) \/ CommitTransfer(s)
    <3>1. desk[s].op \in StockOps \cup {"transfer:to"}
      BY <2>2 DEF CommitStock, CommitTransfer
    <3>2. desk[s].lines = None
      BY <3>1, DeskTypes DEF DeskOK, RequestOK, ReceiveOps, StockOps
    <3> QED BY <3>2 DEF ReceivingRow
  <2> QED BY <2>1, <2>2
<1> QED BY <1>1, <1>2, <1>3, ReadPurchaseInv

\* A transfer reads its destination.
LEMMA ReadTargetPurchaseInv ==
    ASSUME TInv, StockInv, PurchaseInv, NEW s \in Desks, ReadTarget(s)
    PROVE  PurchaseInv'
<1>1. desk[s] \in DeskRow /\ desk[s].op = "transfer" /\ DeskOK(s)
  BY DeskTypes DEF ReadTarget
<1>2. desk[s].lines = None
  BY <1>1 DEF DeskOK, RequestOK, ReceiveOps
<1>3. PICK r : /\ desk' = [desk EXCEPT ![s] = r]
               /\ r.op = "transfer:to" /\ r.lines = desk[s].lines
  <2> DEFINE r == [desk[s] EXCEPT !.op = "transfer:to", !.seenTo = level[desk[s].to][desk[s].item]]
  <2>1. desk' = [desk EXCEPT ![s] = r]
    BY <1>1 DEF ReadTarget, DeskRow
  <2>2. r.op = "transfer:to" /\ r.lines = desk[s].lines
    BY <1>1 DEF DeskRow
  <2> HIDE DEF r
  <2> QED BY <2>1, <2>2
<1>4. Knows(r)' /\ ~ReceivingRow(desk[s])
  BY <1>2, <1>3, StockKnowsNothing DEF ReceiveOps, ReceivingRow
<1>5. BusyDesk(s) /\ UNCHANGED <<po, overlapped, interrupted>>
  BY <1>1 DEF ReadTarget, Rest, BusyDesk
<1> QED BY <1>3, <1>4, <1>5, ReadPurchaseInv

\* A new order: nothing ordered has come, nothing is in stock.
LEMMA CreatePurchaseInv ==
    ASSUME TInv, StockInv, PurchaseInv, NEW s \in Desks, CommitCreate(s)
    PROVE  PurchaseInv'
<1>1. PICK p \in POs, b \in {desk[s].branch} : p = desk[s].po /\ b = desk[s].branch
  BY DEF CommitCreate
<1> DEFINE row == [NoPO EXCEPT !.status = "DRAFT", !.branch = b]
<1>2. /\ row.status = "DRAFT" /\ row.received = None /\ row.receipts = None /\ row.stocked = None
      /\ po' = [po EXCEPT ![p] = row]
  BY <1>1 DEF CommitCreate, NoPO
<1> HIDE DEF row
<1>3. Booked(row) /\ Settled(row)
  BY <1>2 DEF Booked, Settled, None
<1>4. Knows(Idle)'
  BY IdleRow, StockKnowsNothing DEF ReceiveOps
<1>5. desk' = [desk EXCEPT ![s] = Idle] /\ BusyDesk(s) /\ UNCHANGED <<overlapped, interrupted>>
  BY DEF CommitCreate, End, Rest, BusyDesk
<1> QED BY <1>1, <1>2, <1>3, <1>4, <1>5, WritePurchaseInv

\* A request without an overlap knows its order, and its order is explained.
LEMMA OrderKnown ==
    ASSUME TInv, StockInv, PurchaseInv, NEW s \in Desks, BusyDesk(s), ~overlapped, NEW p \in POs
    PROVE  /\ Knows(desk[s]) /\ Booked(po[p])
           /\ p \in interrupted \/ (desk[s].po = p /\ ReceivingRow(desk[s])) \/ Settled(po[p])
<1>1. OnlyDesk(s)
  BY DeskAlone
<1> QED BY <1>1, OneUnderWay DEF PurchaseInv

\* A purchase order row holds numbers, no line above what was ordered.
LEMMA RowTypes ==
    ASSUME TInv, NEW p \in POs
    PROVE  /\ po[p] \in PORow
           /\ po[p].received \in [Items -> Nat] /\ po[p].receipts \in [Items -> Nat]
           /\ po[p].stocked \in [Items -> Nat]
           /\ \A i \in Items : po[p].received[i] <= Ordered[i] /\ Ordered[i] \in Nat
BY SupplyAssumption DEF TInv, PORow, POsOK

\* The status that send and cancel write.
LEMMA SentSettled ==
    ASSUME NEW row, NEW x \in {"SENT", "CANCELLED"}, NEW new, new.stocked = row.stocked,
           new.receipts = row.receipts, new.received = row.received, new.status = x,
           row.received = None, Settled(row)
    PROVE  Settled(new)
BY DEF Settled

\* The status that the end of a receive writes.
LEMMA ReceivedSettled ==
    ASSUME NEW got \in [Items -> Nat], NEW lines \in [Items -> Nat], lines # None,
           \A i \in Items : lines[i] <= got[i] /\ got[i] <= Ordered[i] /\ Ordered[i] \in Nat,
           NEW new, new.received = got, new.stocked = new.receipts,
           new.status = IF \A i \in Items : got[i] >= Ordered[i] THEN "RECEIVED" ELSE "PARTIALLY_RECEIVED"
    PROVE  Settled(new)
<1>1. got # None
  <2>1. PICK i \in Items : lines[i] # 0
    BY DEF None
  <2>2. got[i] # 0
    BY <2>1
  <2> QED BY <2>2 DEF None
<1>2. (\A i \in Items : got[i] >= Ordered[i]) <=> (\A i \in Items : got[i] = Ordered[i])
  OBVIOUS
<1> QED BY <1>1, <1>2 DEF Settled

\* send, cancel and the end of receive write the status.
LEMMA SetStatusPurchaseInv ==
    ASSUME TInv, StockInv, PurchaseInv, NEW s \in Desks, SetStatus(s)
    PROVE  PurchaseInv'
<1>1. PICK p \in POs, x \in {desk[s].status} : p = desk[s].po /\ x = desk[s].status
  BY DeskTypes DEF SetStatus, DeskOK, NamesPO
<1>2. PICK row : /\ po' = [po EXCEPT ![p] = row] /\ row.status = x
                 /\ row.received = po[p].received /\ row.receipts = po[p].receipts
                 /\ row.stocked = po[p].stocked
  <2> DEFINE row == [po[p] EXCEPT !.status = x]
  <2>1. po[p] \in PORow
    BY RowTypes
  <2>2. po' = [po EXCEPT ![p] = row]
    BY <1>1, <2>1 DEF SetStatus
  <2>3. /\ row.status = x /\ row.received = po[p].received /\ row.receipts = po[p].receipts
        /\ row.stocked = po[p].stocked
    BY <2>1 DEF PORow
  <2> HIDE DEF row
  <2> QED BY <2>2, <2>3
<1>3. /\ desk' = [desk EXCEPT ![s] = Idle] /\ BusyDesk(s) /\ UNCHANGED <<overlapped, interrupted>>
      /\ desk[s].op = "setStatus" /\ RequestOK(desk[s]) /\ desk[s].lines \in [Items -> Nat]
  BY DeskTypes DEF SetStatus, End, Rest, BusyDesk, DeskOK
<1>4. Knows(Idle)'
  BY IdleRow, StockKnowsNothing DEF ReceiveOps
<1>5. ASSUME ~overlapped PROVE Booked(row) /\ (p \in interrupted \/ Settled(row))
  <2>1. /\ Knows(desk[s]) /\ Booked(po[p])
        /\ p \in interrupted \/ (desk[s].po = p /\ ReceivingRow(desk[s])) \/ Settled(po[p])
    BY <1>3, <1>5, OrderKnown
  <2>2. Booked(row)
    BY <1>2, <2>1 DEF Booked
  <2>3. CASE desk[s].lines = None
    <3>1. x \in {"SENT", "CANCELLED"}
      BY <1>1, <1>3, <2>3 DEF RequestOK
    <3>2. p \in interrupted \/ (po[p].received = None /\ Settled(po[p]))
      BY <1>1, <1>3, <2>1, <2>3 DEF Knows, ReceivingRow
    <3> QED BY <1>2, <2>2, <3>1, <3>2, SentSettled
  <2>4. CASE desk[s].lines # None
    <3>1. ReceivingRow(desk[s]) /\ desk[s].left = {}
      BY <1>3, <2>4 DEF ReceivingRow, RequestOK
    <3>2. /\ \A i \in Items : desk[s].lines[i] <= po[p].received[i]
          /\ p \notin interrupted => \A i \in Items : po[p].stocked[i] + Due(desk[s], i) = po[p].receipts[i]
          /\ x = IF \A i \in Items : po[p].received[i] >= Ordered[i] THEN "RECEIVED" ELSE "PARTIALLY_RECEIVED"
      BY <1>1, <1>3, <2>1, <2>4, <3>1 DEF Knows
    <3>3. \A i \in Items : Due(desk[s], i) = 0
      BY <3>1 DEF Due
    <3>4. p \notin interrupted => \A i \in Items : po[p].stocked[i] = po[p].receipts[i]
      BY <3>2, <3>3, RowTypes
    <3>5. p \notin interrupted => row.stocked = row.receipts
      BY <1>2, <3>4, RowTypes
    <3>6. /\ po[p].received \in [Items -> Nat]
          /\ \A i \in Items : desk[s].lines[i] <= po[p].received[i] /\ po[p].received[i] <= Ordered[i]
                              /\ Ordered[i] \in Nat
      BY <3>2, RowTypes
    <3>7. p \notin interrupted => Settled(row)
      BY <1>2, <1>3, <2>4, <3>2, <3>5, <3>6, ReceivedSettled
    <3> QED BY <2>2, <3>7
  <2> QED BY <2>3, <2>4
<1> QED BY <1>1, <1>2, <1>3, <1>4, <1>5, WritePurchaseInv

\* What a receive knows of its order, said of the order's row.
LEMMA ReceivingKnows ==
    ASSUME NEW r, NEW row, po'[r.po] = row, r.op \in {"stocking", "stockIn:po"}, r.lines # None,
           \A i \in Items : r.lines[i] <= row.received[i],
           \A i \in Items : row.stocked[i] + Due(r, i) <= row.receipts[i],
           r.po \notin interrupted' => \A i \in Items : row.stocked[i] + Due(r, i) = row.receipts[i]
    PROVE  Knows(r)'
BY DEF Knows, Due

\* The receipt: what was read is what is there, so the lines are added to it.
LEMMA ReceiptPurchaseInv ==
    ASSUME TInv, StockInv, PurchaseInv, NEW s \in Desks, BookReceipt(s)
    PROVE  PurchaseInv'
<1>1. PICK p \in POs, row \in PORow, r \in DeskRow :
              /\ p = desk[s].po /\ desk[s].op = "receive"
              /\ po' = [po EXCEPT ![p] = row]
              /\ row.stocked = po[p].stocked
              /\ \A i \in Items : row.receipts[i] = po[p].receipts[i] + desk[s].lines[i]
              /\ \A i \in Items : row.received[i] = IF desk[s].lines[i] = 0 THEN po[p].received[i]
                                                    ELSE desk[s].read[i] + desk[s].lines[i]
              /\ desk' = [desk EXCEPT ![s] = r]
              /\ r.op = "stocking" /\ r.left = {i \in Items : desk[s].lines[i] > 0}
              /\ r.po = p /\ r.lines = desk[s].lines
  BY ReceiptEffect
<1>2. BusyDesk(s) /\ UNCHANGED <<overlapped, interrupted>>
  BY <1>1 DEF BookReceipt, Rest, BusyDesk
<1>3. desk[s].lines # None /\ desk[s].lines \in [Items -> Nat]
  BY <1>1, DeskTypes DEF DeskOK, RequestOK, ReceiveOps
<1>4. ReceivingRow(r)
  BY <1>1, <1>3 DEF ReceivingRow
<1>5. row.received \in [Items -> Nat] /\ row.receipts \in [Items -> Nat]
  BY DEF PORow
<1>6. po'[r.po] = row
  BY <1>1 DEF TInv
<1>7. ASSUME ~overlapped PROVE Knows(r)' /\ Booked(row)
  <2>1. /\ Knows(desk[s]) /\ Booked(po[p])
        /\ p \in interrupted \/ (desk[s].po = p /\ ReceivingRow(desk[s])) \/ Settled(po[p])
    BY <1>2, <1>7, OrderKnown
  <2>2. desk[s].read = po[p].received /\ po[p].received = po[p].receipts
    BY <1>1, <2>1 DEF Knows, Booked
  <2>3. p \in interrupted \/ po[p].stocked = po[p].receipts
    BY <1>1, <2>1 DEF ReceivingRow, Settled
  <2>4. \A i \in Items : /\ po[p].received[i] \in Nat /\ po[p].receipts[i] \in Nat
                         /\ po[p].stocked[i] \in Nat /\ desk[s].lines[i] \in Nat
                         /\ po[p].stocked[i] <= po[p].receipts[i]
    BY <1>3, <2>1, RowTypes DEF Booked
  <2>5. \A i \in Items : row.received[i] = row.receipts[i]
    BY <1>1, <2>2, <2>4
  <2>6. Booked(row)
    <3>1. row.received = row.receipts
      BY <1>5, <2>5
    <3>2. \A i \in Items : row.stocked[i] <= row.receipts[i]
      BY <1>1, <2>4
    <3> QED BY <3>1, <3>2 DEF Booked
  <2>7. \A i \in Items : Due(r, i) = desk[s].lines[i]
    BY <1>1, <2>4 DEF Due
  <2>8. \A i \in Items : r.lines[i] <= row.received[i]
    BY <1>1, <2>2, <2>4
  <2>9. \A i \in Items : row.stocked[i] + Due(r, i) <= row.receipts[i]
    BY <1>1, <2>4, <2>7
  <2>10. r.po \notin interrupted' => \A i \in Items : row.stocked[i] + Due(r, i) = row.receipts[i]
    BY <1>1, <1>2, <2>3, <2>7
  <2>11. r.lines # None /\ r.op \in {"stocking", "stockIn:po"}
    BY <1>1, <1>3
  <2> QED BY <1>6, <2>6, <2>8, <2>9, <2>10, <2>11, ReceivingKnows
<1> QED BY <1>1, <1>2, <1>4, <1>7, WritePurchaseInv

\* A line that is read is still to be stocked.
LEMMA ReadLinePurchaseInv ==
    ASSUME TInv, StockInv, PurchaseInv, NEW s \in Desks, NEW i \in Items, ReadLine(s, i)
    PROVE  PurchaseInv'
<1>1. desk[s] \in DeskRow /\ desk[s].op = "stocking" /\ DeskOK(s)
  BY DeskTypes DEF ReadLine
<1>2. desk[s].lines # None /\ desk[s].po \in POs /\ ReceivingRow(desk[s])
  BY <1>1 DEF DeskOK, RequestOK, ReceiveOps, NamesPO, ReceivingRow
<1>3. PICK r : /\ desk' = [desk EXCEPT ![s] = r]
               /\ r.op = "stockIn:po" /\ r.lines = desk[s].lines /\ r.left = desk[s].left
               /\ r.po = desk[s].po
  <2> DEFINE r == [desk[s] EXCEPT !.op = "stockIn:po", !.item = i, !.seen = level[desk[s].branch][i]]
  <2>1. desk' = [desk EXCEPT ![s] = r]
    BY <1>1 DEF ReadLine, DeskRow
  <2>2. r.op = "stockIn:po" /\ r.lines = desk[s].lines /\ r.left = desk[s].left /\ r.po = desk[s].po
    BY <1>1 DEF DeskRow
  <2> HIDE DEF r
  <2> QED BY <2>1, <2>2
<1>4. BusyDesk(s) /\ UNCHANGED <<po, overlapped, interrupted>> /\ ReceivingRow(r)
  BY <1>1, <1>2, <1>3 DEF ReadLine, Rest, BusyDesk, ReceivingRow
<1>5. ASSUME ~overlapped PROVE Knows(r)'
  <2>1. Knows(desk[s])
    BY <1>2, <1>4, <1>5, OrderKnown
  <2>2. PICK row : row = po[desk[s].po]
    OBVIOUS
  <2>3. /\ \A j \in Items : r.lines[j] <= row.received[j]
        /\ \A j \in Items : row.stocked[j] + Due(r, j) <= row.receipts[j]
        /\ r.po \notin interrupted' => \A j \in Items : row.stocked[j] + Due(r, j) = row.receipts[j]
    BY <1>2, <1>3, <1>4, <2>1, <2>2 DEF Knows, Due
  <2>4. po'[r.po] = row /\ r.lines # None /\ r.op \in {"stocking", "stockIn:po"}
    BY <1>2, <1>3, <1>4, <2>2
  <2> QED BY <2>3, <2>4, ReceivingKnows
<1> QED BY <1>3, <1>4, <1>5, ReadPurchaseInv

\* A line moves from the list to the stock.
LEMMA LinePurchaseInv ==
    ASSUME TInv, StockInv, PurchaseInv, NEW s \in Desks, CommitLine(s)
    PROVE  PurchaseInv'
<1>0. PICK p \in POs, i \in Items, b \in Branches, n \in Nat, x \in Int :
          /\ p = desk[s].po /\ i = desk[s].item /\ i \in desk[s].left /\ n = desk[s].lines[i]
  BY LineRow
<1>1. PICK row \in PORow, r \in DeskRow :
          /\ desk[s].op = "stockIn:po"
          /\ po' = [po EXCEPT ![p] = row]
          /\ row.received = po[p].received /\ row.receipts = po[p].receipts
          /\ \A j \in Items : row.stocked[j] = po[p].stocked[j] + (IF j = i THEN n ELSE 0)
          /\ desk' = [desk EXCEPT ![s] = r]
          /\ r.op = "stocking" /\ r.left = desk[s].left \ {i} /\ r.po = p /\ r.lines = desk[s].lines
  BY <1>0, LineEffect
<1>2. BusyDesk(s) /\ UNCHANGED <<overlapped, interrupted>>
  BY <1>1 DEF CommitLine, Rest, BusyDesk
<1>3. desk[s].lines # None /\ desk[s].lines \in [Items -> Nat]
  BY <1>1, DeskTypes DEF DeskOK, RequestOK, ReceiveOps
<1>4. ReceivingRow(r) /\ ReceivingRow(desk[s])
  BY <1>1, <1>3 DEF ReceivingRow
<1>5. po'[r.po] = row
  BY <1>1 DEF TInv
<1>6. ASSUME ~overlapped PROVE Knows(r)' /\ Booked(row)
  <2>1. Knows(desk[s]) /\ Booked(po[p])
    BY <1>2, <1>6, OrderKnown
  <2>2. /\ \A j \in Items : desk[s].lines[j] <= po[p].received[j]
        /\ \A j \in Items : po[p].stocked[j] + Due(desk[s], j) <= po[p].receipts[j]
        /\ p \notin interrupted => \A j \in Items : po[p].stocked[j] + Due(desk[s], j) = po[p].receipts[j]
    BY <1>0, <1>4, <2>1 DEF Knows
  <2>3. \A j \in Items : /\ po[p].stocked[j] \in Nat /\ po[p].receipts[j] \in Nat
                         /\ desk[s].lines[j] \in Nat
    BY <1>3, RowTypes
  <2>4. \A j \in Items : row.stocked[j] + Due(r, j) = po[p].stocked[j] + Due(desk[s], j)
    <3>1. ASSUME NEW j \in Items, j = i
          PROVE  row.stocked[j] + Due(r, j) = po[p].stocked[j] + Due(desk[s], j)
      <4>1. Due(r, j) = 0 /\ Due(desk[s], j) = n
        BY <1>0, <1>1, <3>1 DEF Due
      <4> QED BY <1>1, <2>3, <3>1, <4>1
    <3>2. ASSUME NEW j \in Items, j # i
          PROVE  row.stocked[j] + Due(r, j) = po[p].stocked[j] + Due(desk[s], j)
      <4>1. Due(r, j) = Due(desk[s], j)
        BY <1>1, <3>2 DEF Due
      <4> QED BY <1>1, <2>3, <3>2, <4>1
    <3> QED BY <3>1, <3>2
  <2>5. \A j \in Items : row.stocked[j] <= row.receipts[j]
    <3>1. \A j \in Items : Due(r, j) \in Nat /\ row.stocked[j] \in Nat
      BY <1>0, <1>1, <2>3 DEF Due, PORow
    <3> QED BY <1>1, <2>2, <2>3, <2>4, <3>1
  <2>6. Booked(row)
    BY <1>1, <2>1, <2>5 DEF Booked
  <2>7. /\ \A j \in Items : r.lines[j] <= row.received[j]
        /\ \A j \in Items : row.stocked[j] + Due(r, j) <= row.receipts[j]
        /\ r.po \notin interrupted' => \A j \in Items : row.stocked[j] + Due(r, j) = row.receipts[j]
    BY <1>1, <1>2, <2>2, <2>4
  <2>8. r.lines # None /\ r.op \in {"stocking", "stockIn:po"}
    BY <1>1, <1>3
  <2> QED BY <1>5, <2>6, <2>7, <2>8, ReceivingKnows
<1> QED BY <1>0, <1>1, <1>2, <1>4, <1>6, WritePurchaseInv

\* The status is read from the lines.
LEMMA ReadStatusPurchaseInv ==
    ASSUME TInv, StockInv, PurchaseInv, NEW s \in Desks, ReadStatus(s)
    PROVE  PurchaseInv'
<1>1. PICK r \in DeskRow :
              /\ desk[s].op = "stocking" /\ desk[s].left = {}
              /\ desk' = [desk EXCEPT ![s] = r]
              /\ r.op = "setStatus" /\ r.po = desk[s].po /\ r.lines = desk[s].lines /\ r.left = {}
              /\ r.status = IF \A i \in Items : po[desk[s].po].received[i] >= Ordered[i]
                            THEN "RECEIVED" ELSE "PARTIALLY_RECEIVED"
  BY StatusEffect
<1>2. desk[s].lines # None /\ desk[s].po \in POs
  BY <1>1, DeskTypes DEF DeskOK, RequestOK, ReceiveOps, NamesPO
<1>3. BusyDesk(s) /\ UNCHANGED <<po, overlapped, interrupted>>
  BY <1>1 DEF ReadStatus, Rest, BusyDesk
<1>4. ReceivingRow(r) /\ ReceivingRow(desk[s])
  BY <1>1, <1>2 DEF ReceivingRow
<1>5. ASSUME ~overlapped PROVE Knows(r)'
  <2>1. Knows(desk[s])
    BY <1>2, <1>3, <1>5, OrderKnown
  <2>2. \A i \in Items : Due(r, i) = Due(desk[s], i)
    BY <1>1 DEF Due
  <2>3. \A i \in Items : Due(r, i)' = Due(r, i)
    BY DEF Due
  <2> QED BY <1>1, <1>2, <1>3, <1>4, <2>1, <2>2, <2>3 DEF Knows
<1> QED BY <1>1, <1>3, <1>4, <1>5, ReadPurchaseInv

\* No order exists.
LEMMA InitPurchaseInv == Init => PurchaseInv
<1> SUFFICES ASSUME Init PROVE PurchaseInv
  OBVIOUS
<1>1. /\ \A s \in Desks : desk[s] = Idle
      /\ \A p \in POs : po[p] = NoPO
  BY DEF Init
<1>2. Knows(Idle)
  BY IdleRow, StockKnowsNothing DEF ReceiveOps
<1>3. /\ NoPO.status = "ABSENT" /\ NoPO.received = None /\ NoPO.receipts = None /\ NoPO.stocked = None
  BY DEF NoPO
<1>4. Booked(NoPO) /\ Settled(NoPO)
  BY <1>3 DEF Booked, Settled, None
<1> QED BY <1>1, <1>2, <1>4 DEF PurchaseInv

\* PurchaseInv is inductive.
LEMMA StepPurchaseInv == TInv /\ StockInv /\ PurchaseInv /\ [Next]_vars => PurchaseInv'
<1> SUFFICES ASSUME TInv, StockInv, PurchaseInv, [Next]_vars PROVE PurchaseInv'
  OBVIOUS
<1>1. ASSUME UNCHANGED <<po, desk, interrupted>>, overlapped => overlapped' PROVE PurchaseInv'
  <2>1. \A r : Knows(r)' <=> Knows(r)
    BY <1>1 DEF Knows
  <2>2. \A p \in POs : UnderWay(p)' <=> UnderWay(p)
    BY <1>1 DEF UnderWay, Receiving
  <2>3. (\A s \in Desks : Knows(desk[s])) => \A s \in Desks : Knows(desk[s])'
    BY <1>1 DEF Knows
  <2> QED BY <1>1, <2>2, <2>3 DEF PurchaseInv, Booked, Settled
<1>2. CASE UNCHANGED vars \/ \E d, e \in Drivers, n \in Numbers : Reassign(d, n, e)
  BY <1>1, <1>2 DEF vars, stockVars, Reassign
<1>3. ASSUME NEW t \in Tills, TillNext(t) PROVE PurchaseInv'
  <2>1. UNCHANGED <<po, desk, interrupted>> /\ (overlapped => overlapped')
    <3>1. CASE \E d \in Drivers, m \in Numbers \cup {0} : BeginSale(t, d, m)
      BY <3>1 DEF BeginSale
    <3>2. CASE SaleStep(t)
      BY <3>2 DEF SaleStep, stockVars
    <3>3. CASE \E i \in Items : ReadGoods(t, i)
      BY <3>3 DEF ReadGoods
    <3>4. CASE CommitSale(t) \/ RollbackSale(t)
      BY <3>4 DEF CommitSale, RollbackSale
    <3> QED BY <1>3, <3>1, <3>2, <3>3, <3>4 DEF TillNext
  <2> QED BY <1>1, <2>1
<1>4. ASSUME NEW s \in Desks, DeskNext(s) PROVE PurchaseInv'
  <2>1. \A q \in Quantities : q \in Int /\ -q \in Int
    BY SupplyAssumption
  <2>2. CASE \/ \E op \in StockOps, b \in Branches, i \in Items, q \in Quantities : BeginStock(s, op, b, i, q)
             \/ \E b \in Branches, i \in Items, q \in Quantities : BeginStock(s, "adjust", b, i, -q)
             \/ \E b \in Branches, i \in Items : BeginStock(s, "stocktake", b, i, 0)
    <3>1. "adjust" \in StockOps /\ "stocktake" \in StockOps /\ 0 \in Int
      BY DEF StockOps
    <3>2. \E op \in StockOps, b \in Branches, i \in Items, q \in Int : BeginStock(s, op, b, i, q)
      BY <2>1, <2>2, <3>1
    <3> QED BY <3>2, BeginStockPurchaseInv
  <2>3. CASE \/ \E b, c \in Branches, i \in Items, q \in Quantities : BeginTransfer(s, b, c, i, q)
             \/ \E b \in Branches : BeginCreate(s, b)
    BY <2>3, BeginStockPurchaseInv
  <2>4. CASE \/ \E p \in POs : BeginSend(s, p) \/ BeginCancel(s, p)
             \/ \E p \in POs, lines \in [Items -> Quantities \cup {0}] : BeginReceive(s, p, lines)
    BY <2>4, BeginOrderPurchaseInv
  <2>5. CASE Abort(s) \/ CommitStock(s) \/ CommitTransfer(s)
    BY <2>5, EndPurchaseInv
  <2>6. CASE ReadTarget(s) \/ CommitCreate(s) \/ SetStatus(s)
    BY <2>6, ReadTargetPurchaseInv, CreatePurchaseInv, SetStatusPurchaseInv
  <2>7. CASE BookReceipt(s) \/ CommitLine(s) \/ ReadStatus(s)
    BY <2>7, ReceiptPurchaseInv, LinePurchaseInv, ReadStatusPurchaseInv
  <2>8. CASE \E i \in Items : ReadLine(s, i)
    BY <2>8, ReadLinePurchaseInv
  <2> QED BY <1>4, <2>2, <2>3, <2>4, <2>5, <2>6, <2>7, <2>8 DEF DeskNext
<1> QED BY <1>2, <1>3, <1>4 DEF Next

\* For any number of orders, lines, deliveries and failures: as long as requests do
\* not overlap, what an order says was received is the sum of its receipts, is in
\* stock, and is what its status says, unless a receive is under way or stopped
\* half way.
THEOREM PurchaseCorrect == Spec => []PurchaseExplained
<1>1. PurchaseInv => PurchaseExplained
  BY DEF PurchaseInv, Booked, Settled, UnderWay, PurchaseExplained, StockFollowsReceipts, StatusFollowsLines
<1> QED BY <1>1, InitTInv, StepTInv, InitStockInv, StepStockInv, InitPurchaseInv, StepPurchaseInv,
           SupplySInv, PTL DEF Spec
=============================================================================
