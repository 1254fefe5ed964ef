----------------------- MODULE OrderSettlementProofs -----------------------
(***************************************************************************)
(* TLAPS proofs about OrderSettlement, for any number of orders, sessions, *)
(* amounts and passes.  The first part holds for every interleaving of     *)
(* every handler (types, finality, conservation of credit, refinement).    *)
(* The second classifies what a step can do to one order, to one session   *)
(* and to the journal, and proves the properties that need a restriction:  *)
(* no completion by staff, no desk and no reconcile job, or one session.   *)
(***************************************************************************)
EXTENDS OrderSettlement, SumTheorems

-----------------------------------------------------------------------------
(* The inductive invariant *)

\* What a session that is not idle knows and holds.
SessionOK(t) ==
    LET s == tx[t]
    IN  s.pc # "idle" =>
        /\ s.kind \in Handlers
        /\ s.kind = "posCheckout" => s.pc = "read" /\ s.seen.settled = FALSE
        /\ s.kind # "posCheckout" => s.ord \in Orders /\ Exists(s.ord)
        /\ s.kind = "updateOrder" => s.arg \in Status
        /\ s.kind = "manualMark" => s.arg \in ExternalMethods
        /\ s.pc = "claimed" =>
            /\ lock[s.ord] = t
            /\ s.kind \in {"finalizeGateway", "autoReconcile"}
                    => order[s.ord].settled = FALSE

\* A row lock is held by a session that has claimed that row.
LockOK(o) == lock[o] # NoTxn => tx[lock[o]].pc = "claimed" /\ tx[lock[o]].ord = o

\* Rows that do not exist are not settled or paid for, and prepaid credit is
\* absorbed only by settled orders.
RowOK(o) ==
    /\ ~Exists(o) => order[o].settled = FALSE /\ o \notin captured
    /\ Ref("ABSORBED", o) \in journal => order[o].settled = TRUE

IInv ==
    /\ TypeOK
    /\ \A t \in Txns : SessionOK(t)
    /\ \A o \in Orders : LockOK(o) /\ RowOK(o)

-----------------------------------------------------------------------------
(* Lemmas about the operators of the model *)

\* Least is the minimum of two amounts.
LEMMA LeastType ==
    ASSUME NEW a \in Nat, NEW b \in Nat
    PROVE  Least(a, b) \in Nat /\ Least(a, b) <= a /\ Least(a, b) <= b
BY DEF Least

\* An order number is a natural number other than NoOrder.
LEMMA OrdersNat == ASSUME NEW o \in Orders PROVE o \in Nat /\ o # NoOrder
BY ConstantsAssumption DEF Orders, NoOrder

\* A settlement takes no more than the balance and the invoice.
LEMMA TakeType ==
    ASSUME TypeOK, NEW total \in Nat, NEW m \in Methods
    PROVE  /\ Take(total, m) \in Nat
           /\ Take(total, m) <= wallet.balance
           /\ Take(total, m) <= total
<1>1. wallet.balance \in Nat
  BY DEF TypeOK
<1> QED BY <1>1, LeastType DEF Take

\* The journal references a settlement posts are well formed.
LEMMA RefType ==
    ASSUME NEW o \in Orders, NEW m \in Methods, NEW trigger \in Triggers
    PROVE  /\ Ref("ISSUED", o) \in SourceRef
           /\ Ref("ABSORBED", o) \in SourceRef
           /\ Ref("RECEIVABLE", o) \in SourceRef
           /\ PaymentRef(o, m, trigger) \in SourceRef
BY DEF Ref, PaymentRef, SourceRef, EntryKinds, Triggers

\* The sourceRefs of different kinds of entry, and of different orders, differ,
\* so one entry never stands for another in appendBalanced.
LEMMA RefDistinct ==
    ASSUME NEW o, NEW p, NEW m, NEW trigger
    PROVE  /\ Ref("ABSORBED", o) = Ref("ABSORBED", p) => o = p
           /\ Ref("ABSORBED", o) # Ref("ISSUED", p)
           /\ Ref("ABSORBED", o) # Ref("RECEIVABLE", p)
           /\ Ref("ABSORBED", o) # PaymentRef(p, m, trigger)
BY DEF Ref, PaymentRef

\* appendBalanced moves the amount or nothing.
LEMMA AppendType ==
    ASSUME NEW ref, NEW amount \in Nat
    PROVE  appendBalanced(ref, amount) \in Nat
BY DEF appendBalanced

\* What one settlement does to the wallet and the journal: the balance loses
\* what was taken, and the absorption entry, if it is new, says the same.
LEMMA SettlementType ==
    ASSUME TypeOK, NEW o \in Orders, NEW total \in Nat, NEW m \in Methods,
           NEW declared \in BOOLEAN, NEW trigger \in Triggers
    PROVE  LET s == Settlement(o, total, m, declared, trigger)
           IN  /\ s.wallet \in [balance : Nat, debt : Nat]
               /\ s.wallet.balance = wallet.balance - Take(total, m)
               /\ s.refs \subseteq SourceRef
               /\ s.ar \in Int
               /\ s.drawn \in Nat
               /\ Ref("ABSORBED", o) \notin journal => s.drawn = Take(total, m)
               /\ \A p : Ref("ABSORBED", p) \in s.refs => p = o
<1>1. /\ wallet.balance \in Nat
      /\ wallet.debt \in Nat
  BY DEF TypeOK
<1>2. /\ Take(total, m) \in Nat
      /\ Take(total, m) <= wallet.balance
      /\ Take(total, m) <= total
  BY TakeType
<1>3. DebtWithInvoice(total, m) \in Nat
  BY <1>1, <1>2 DEF DebtWithInvoice
<1>4. Paydown(total, m, declared) \in Nat
  <2> DEFINE owed == IF DebtWithInvoice(total, m) > 0 THEN DebtWithInvoice(total, m)
                     ELSE total - Take(total, m)
  <2>1. owed \in Nat
    BY <1>2, <1>3
  <2>2. Least(total, owed) \in Nat
    BY <2>1, LeastType
  <2>3. Paydown(total, m, declared) \in {Least(total, owed), 0}
    BY Zenon DEF Paydown
  <2> QED BY <2>2, <2>3
<1>5. Issued(o, total, m) \in Nat
  BY AppendType DEF Issued
<1>6. /\ Absorbed(o, total, m) \in Nat
      /\ Ref("ABSORBED", o) \notin journal => Absorbed(o, total, m) = Take(total, m)
  BY <1>2, AppendType DEF Absorbed, appendBalanced
<1>7. Received(o, total, m, declared, trigger) \in Nat
  BY <1>4, AppendType DEF Received
<1> DEFINE refs == Settlement(o, total, m, declared, trigger).refs
<1>8. refs \subseteq {Ref("ISSUED", o), Ref("ABSORBED", o), PaymentRef(o, m, trigger)}
  BY DEF Settlement
<1>9. refs \subseteq SourceRef
  BY <1>8, RefType
<1>10. \A p : Ref("ABSORBED", p) \in refs => p = o
  BY <1>8, RefDistinct
<1> HIDE DEF refs
<1> QED BY <1>1, <1>2, <1>3, <1>4, <1>5, <1>6, <1>7, <1>9, <1>10 DEF Settlement, refs

\* Writing one settlement keeps the types and absorbs credit for its order only.
LEMMA SettleType ==
    ASSUME TypeOK, NEW o \in Orders, NEW total \in Nat, NEW m \in Methods,
           NEW declared \in BOOLEAN, NEW trigger \in Triggers,
           Settle(o, total, m, declared, trigger)
    PROVE  /\ wallet' \in [balance : Nat, debt : Nat]
           /\ journal' \subseteq SourceRef
           /\ ar' \in [Orders -> Int]
           /\ drawn' \in Nat
           /\ history' = [history EXCEPT ![o] = @ + 1]
           /\ history' \in [Orders -> Nat]
           /\ journal \subseteq journal'
           /\ \A p : Ref("ABSORBED", p) \in journal' => p = o \/ Ref("ABSORBED", p) \in journal
           /\ wallet'.balance = wallet.balance - Take(total, m)
           /\ Ref("ABSORBED", o) \notin journal => drawn' = drawn + Take(total, m)
<1> DEFINE s == Settlement(o, total, m, declared, trigger)
<1>1. /\ s.wallet \in [balance : Nat, debt : Nat]
      /\ s.wallet.balance = wallet.balance - Take(total, m)
      /\ s.refs \subseteq SourceRef
      /\ s.ar \in Int
      /\ s.drawn \in Nat
      /\ Ref("ABSORBED", o) \notin journal => s.drawn = Take(total, m)
      /\ \A p : Ref("ABSORBED", p) \in s.refs => p = o
  BY SettlementType
<1>2. /\ wallet' = s.wallet
      /\ journal' = journal \cup s.refs
      /\ ar' = [ar EXCEPT ![o] = @ + s.ar]
      /\ drawn' = drawn + s.drawn
      /\ history' = [history EXCEPT ![o] = @ + 1]
  BY DEF Settle
<1> HIDE DEF s
<1> QED BY <1>1, <1>2 DEF TypeOK

-----------------------------------------------------------------------------
(* Sessions and locks across a step *)

\* What session t may do to the rows: they keep existing, and a row that another
\* session has locked is neither settled nor unsettled.
RowsKept(t) ==
    /\ \A o \in Orders : Exists(o) => Exists(o)'
    /\ \A o \in Orders : lock[o] \in Txns \ {t} => order'[o].settled = order[o].settled

\* A step that ends session t, by commit or rollback, and releases its locks.
LEMMA EndOfSession ==
    ASSUME IInv, NEW t \in Txns, RowsKept(t),
           tx' = [tx EXCEPT ![t] = Idle],
           lock' = [o \in Orders |-> IF lock[o] = t THEN NoTxn ELSE lock[o]]
    PROVE  /\ tx' \in [Txns -> Session]
           /\ lock' \in [Orders -> Txns \cup {NoTxn}]
           /\ \A u \in Txns : SessionOK(u)'
           /\ \A o \in Orders : LockOK(o)'
<1>1. tx' \in [Txns -> Session] /\ lock' \in [Orders -> Txns \cup {NoTxn}]
  BY DEF IInv, TypeOK, Session, Idle, NoRow, Row, CashStatus, Methods, ExternalMethods
<1>2. ASSUME NEW u \in Txns PROVE SessionOK(u)'
  <2>1. CASE u = t
    BY <2>1 DEF SessionOK, Idle, IInv, TypeOK
  <2>2. CASE u # t
    <3>1. tx'[u] = tx[u]
      BY <2>2 DEF IInv, TypeOK
    <3>2. SessionOK(u)
      BY DEF IInv
    <3>3. tx[u].pc = "claimed" => /\ tx[u].ord \in Orders
                                  /\ lock'[tx[u].ord] = u
                                  /\ order'[tx[u].ord].settled = order[tx[u].ord].settled
      BY <3>2, <2>2 DEF SessionOK, RowsKept
    <3> QED BY <3>1, <3>2, <3>3 DEF SessionOK, RowsKept
  <2> QED BY <2>1, <2>2
<1>3. ASSUME NEW o \in Orders PROVE LockOK(o)'
  <2>1. LockOK(o)
    BY DEF IInv
  <2>2. lock[o] \in Txns \cup {NoTxn}
    BY DEF IInv, TypeOK
  <2> QED BY <2>1, <2>2 DEF LockOK, IInv, TypeOK
<1> QED BY <1>1, <1>2, <1>3

\* Commit releases the one row the session has locked.
LEMMA CommitReleases ==
    ASSUME IInv, NEW t \in Txns, tx[t].pc = "claimed", Commit(t, tx[t].ord)
    PROVE  /\ tx' = [tx EXCEPT ![t] = Idle]
           /\ lock' = [o \in Orders |-> IF lock[o] = t THEN NoTxn ELSE lock[o]]
<1>1. SessionOK(t) /\ \A o \in Orders : LockOK(o)
  BY DEF IInv
<1>2. \A o \in Orders : lock[o] = t <=> o = tx[t].ord
  BY <1>1, ConstantsAssumption DEF SessionOK, LockOK
<1> QED BY <1>2 DEF Commit, IInv, TypeOK

\* A session that has only read holds no row.
LEMMA CommitUnlockedReleases ==
    ASSUME IInv, NEW t \in Txns, tx[t].pc = "read", CommitUnlocked(t)
    PROVE  /\ tx' = [tx EXCEPT ![t] = Idle]
           /\ lock' = [o \in Orders |-> IF lock[o] = t THEN NoTxn ELSE lock[o]]
<1>1. \A o \in Orders : LockOK(o)
  BY DEF IInv
<1>2. \A o \in Orders : lock[o] # t
  BY <1>1, ConstantsAssumption DEF LockOK
<1> QED BY <1>2 DEF CommitUnlocked, IInv, TypeOK

\* A step that starts session t, from idle, with what it has read.
LEMMA StartOfSession ==
    ASSUME IInv, NEW t \in Txns, NEW kind \in AllHandlers,
           NEW o \in Orders \cup {NoOrder}, NEW seen \in Row,
           NEW arg \in Methods \cup Status \cup {"none"}, NEW due \in Nat,
           Begin(t, kind, o, seen, arg, due),
           kind = "posCheckout" => seen.settled = FALSE,
           kind # "posCheckout" => o \in Orders /\ Exists(o),
           kind = "updateOrder" => arg \in Status,
           kind = "manualMark" => arg \in ExternalMethods,
           UNCHANGED <<order, wallet, books, history, collections, sales,
                       stockOuts, captured, lock>>
    PROVE  IInv'
<1>1. tx[t].pc = "idle" /\ kind \in Handlers
  BY DEF Begin
<1>2. tx' = [tx EXCEPT ![t] = [pc |-> "read", kind |-> kind, ord |-> o,
                               seen |-> seen, arg |-> arg, due |-> due]]
  BY DEF Begin
<1>3. TypeOK'
  BY <1>2 DEF IInv, TypeOK, Session, books
<1>4. ASSUME NEW u \in Txns PROVE SessionOK(u)'
  <2>1. CASE u = t
    BY <2>1, <1>1, <1>2 DEF SessionOK, IInv, TypeOK, Exists
  <2>2. CASE u # t
    BY <2>2, <1>2 DEF SessionOK, IInv, TypeOK, Exists
  <2> QED BY <2>1, <2>2
<1>5. ASSUME NEW p \in Orders PROVE LockOK(p)' /\ RowOK(p)'
  <2>1. LockOK(p) /\ RowOK(p)
    BY DEF IInv
  <2>2. lock[p] \in Txns \cup {NoTxn}
    BY DEF IInv, TypeOK
  <2>3. LockOK(p)'
    BY <2>1, <2>2, <1>1, <1>2 DEF LockOK, IInv, TypeOK
  <2>4. RowOK(p)'
    BY <2>1 DEF RowOK, Exists, books
  <2> QED BY <2>3, <2>4
<1> QED BY <1>3, <1>4, <1>5 DEF IInv

\* A step in which session t locks row o.
LEMMA ClaimOfRow ==
    ASSUME IInv, NEW t \in Txns, NEW o \in Orders, NEW s \in Session,
           LockRow(t, o), Exists(o),
           tx' = [tx EXCEPT ![t] = s],
           tx[t].pc # "claimed",
           s.pc = "claimed", s.ord = o, s.kind \in Handlers, s.kind # "posCheckout",
           s.kind = "updateOrder" => s.arg \in Status,
           s.kind = "manualMark" => s.arg \in ExternalMethods,
           s.kind \in {"finalizeGateway", "autoReconcile"} => order[o].settled = FALSE,
           UNCHANGED <<order, wallet, books, history, collections, sales,
                       stockOuts, captured>>
    PROVE  IInv'
<1>1. lock[o] = NoTxn /\ lock' = [lock EXCEPT ![o] = t]
  BY DEF LockRow
<1>2. TypeOK'
  BY <1>1 DEF IInv, TypeOK, books
<1>3. ASSUME NEW u \in Txns PROVE SessionOK(u)'
  <2>1. SessionOK(u)
    BY DEF IInv
  <2>2. CASE u = t
    BY <2>2, <1>1 DEF SessionOK, IInv, TypeOK, Exists
  <2>3. CASE u # t
    <3>1. tx'[u] = tx[u] /\ (tx[u].pc = "claimed" => tx[u].ord # o)
      BY <2>1, <2>3, <1>1, ConstantsAssumption DEF SessionOK, IInv, TypeOK
    <3> QED BY <2>1, <3>1, <1>1 DEF SessionOK, IInv, TypeOK, Exists
  <2> QED BY <2>2, <2>3
<1>4. ASSUME NEW p \in Orders PROVE LockOK(p)' /\ RowOK(p)'
  <2>1. LockOK(p) /\ RowOK(p)
    BY DEF IInv
  <2>2. LockOK(p)'
    BY <2>1, <1>1, ConstantsAssumption DEF LockOK, IInv, TypeOK
  <2>3. RowOK(p)'
    BY <2>1 DEF RowOK, Exists, books
  <2> QED BY <2>2, <2>3
<1> QED BY <1>2, <1>3, <1>4 DEF IInv

-----------------------------------------------------------------------------
(* The invariant holds *)

\* The empty database satisfies the inductive invariant.
LEMMA InitIInv == Init => IInv
<1> SUFFICES ASSUME Init PROVE IInv
  OBVIOUS
<1>1. TypeOK
  BY ConstantsAssumption DEF Init, TypeOK, NoRow, Row, CashStatus, Methods,
     ExternalMethods, Session, Idle, NoOrder
<1>2. \A t \in Txns : SessionOK(t)
  BY DEF Init, SessionOK, Idle
<1>3. \A o \in Orders : LockOK(o) /\ RowOK(o)
  BY DEF Init, LockOK, RowOK, Exists, NoRow
<1> QED BY <1>1, <1>2, <1>3 DEF IInv

\* cashStatusForPaymentMethod returns a cash status.
LEMMA CashStatusType == \A m : cashStatusForPaymentMethod(m) \in CashStatus
BY DEF cashStatusForPaymentMethod, CashStatus

\* Registering a link's receivable touches the debt and no prepaid credit.
LEMMA RegisterType ==
    ASSUME TypeOK, NEW o \in Orders, NEW row \in Row, RegisterReceivable(o, row)
    PROVE  /\ wallet' \in [balance : Nat, debt : Nat]
           /\ journal' \subseteq SourceRef
           /\ ar' \in [Orders -> Int]
           /\ drawn' = drawn
           /\ wallet'.balance = wallet.balance
           /\ journal \subseteq journal'
           /\ \A p : Ref("ABSORBED", p) \in journal' <=> Ref("ABSORBED", p) \in journal
<1>1. row.total \in Nat /\ appendBalanced(Ref("RECEIVABLE", o), row.total) \in Nat
  BY AppendType DEF Row
<1>2. Ref("RECEIVABLE", o) \in SourceRef
  BY DEF Ref, SourceRef, EntryKinds, Triggers
<1>3. CASE ImmediateDebt /\ row.method \in LinkMethods
  <2>1. /\ wallet' = [wallet EXCEPT !.debt = @ + row.total]
        /\ journal' = journal \cup {Ref("RECEIVABLE", o)}
        /\ ar' = [ar EXCEPT ![o] = @ + appendBalanced(Ref("RECEIVABLE", o), row.total)]
        /\ drawn' = drawn
    BY <1>3, Zenon DEF RegisterReceivable
  <2>2. \A p : Ref("ABSORBED", p) # Ref("RECEIVABLE", o)
    BY RefDistinct
  <2> QED BY <2>1, <2>2, <1>1, <1>2 DEF TypeOK
<1>4. CASE ~(ImmediateDebt /\ row.method \in LinkMethods)
  <2>1. UNCHANGED <<wallet, books>>
    BY <1>4, Zenon DEF RegisterReceivable
  <2> QED BY <2>1 DEF TypeOK, books
<1> QED BY <1>3, <1>4

\* Creating order o, which does not exist, disturbs no session.
LEMMA NewRow ==
    ASSUME IInv, NEW o \in Orders, NEW row \in Row, ~Exists(o),
           row.status # "ABSENT",
           order' = [order EXCEPT ![o] = row]
    PROVE  /\ order' \in [Orders -> Row]
           /\ \A t : RowsKept(t)
           /\ \A p \in Orders : lock[p] # NoTxn => order'[p] = order[p]
           /\ \A p \in Orders : order[p].settled = TRUE => order'[p].settled = TRUE
<1>1. order' \in [Orders -> Row]
  BY DEF IInv, TypeOK
<1>2. lock[o] = NoTxn
  <2>1. LockOK(o) /\ lock[o] \in Txns \cup {NoTxn} /\ \A t \in Txns : SessionOK(t)
    BY DEF IInv, TypeOK
  <2> QED BY <2>1 DEF LockOK, SessionOK
<1>3. \A p \in Orders : p # o => order'[p] = order[p]
  BY DEF IInv, TypeOK
<1>4. order'[o] = row
  BY DEF IInv, TypeOK
<1>5. order[o].settled = FALSE
  BY DEF IInv, RowOK
<1> QED BY <1>1, <1>2, <1>3, <1>4, <1>5, ConstantsAssumption DEF RowsKept, Exists

\* Every step of every handler preserves the invariant.
LEMMA NextIInv == IInv /\ [Next]_vars => IInv'
<1> SUFFICES ASSUME IInv, [Next]_vars PROVE IInv'
  OBVIOUS
<1> USE CashStatusType
<1>0. /\ TypeOK
      /\ \A t \in Txns : SessionOK(t)
      /\ \A o \in Orders : LockOK(o) /\ RowOK(o)
  BY DEF IInv
<1>1. ASSUME NEW o \in Orders, NEW m \in PosMethods, NEW total \in Amounts,
             CreateQuick(o, m, total)
      PROVE  IInv'
  <2> DEFINE row == [status |-> "PENDING", cash |-> "UNPAID", method |-> m,
                     settled |-> FALSE, total |-> total]
  <2>1. /\ ~Exists(o)
        /\ order' = [order EXCEPT ![o] = row]
        /\ RegisterReceivable(o, row)
        /\ UNCHANGED <<history, collections, sales, stockOuts, captured, lock, tx>>
    BY <1>1 DEF CreateQuick, IsNext
  <2>2. row \in Row /\ row.status # "ABSENT"
    BY ConstantsAssumption DEF Row, Status, CashStatus
  <2>3. /\ order' \in [Orders -> Row]
        /\ \A t : RowsKept(t)
        /\ \A p \in Orders : lock[p] # NoTxn => order'[p] = order[p]
        /\ \A p \in Orders : order[p].settled = TRUE => order'[p].settled = TRUE
    <3> HIDE DEF row
    <3> QED BY <2>1, <2>2, NewRow
  <2>4. TypeOK'
    <3>1. /\ wallet' \in [balance : Nat, debt : Nat]
          /\ journal' \subseteq SourceRef
          /\ ar' \in [Orders -> Int]
          /\ drawn' = drawn
      <4> HIDE DEF row
      <4> QED BY <1>0, <2>1, <2>2, RegisterType
    <3> QED BY <1>0, <2>1, <2>3, <3>1 DEF TypeOK
  <2>5. \A t \in Txns : SessionOK(t)'
    <3> SUFFICES ASSUME NEW t \in Txns PROVE SessionOK(t)'
      OBVIOUS
    <3>1. SessionOK(t) /\ RowsKept(t) /\ NoTxn # t
      BY <1>0, <2>3, ConstantsAssumption
    <3>2. tx' = tx /\ lock' = lock
      BY <2>1
    <3> QED BY <3>1, <3>2, <2>3 DEF SessionOK, RowsKept
  <2>6. \A p \in Orders : LockOK(p)'
    BY <1>0, <2>1 DEF LockOK
  <2>7. \A p \in Orders : RowOK(p)'
    <3> SUFFICES ASSUME NEW p \in Orders PROVE RowOK(p)'
      OBVIOUS
    <3>1. Ref("ABSORBED", p) \in journal' <=> Ref("ABSORBED", p) \in journal
      <4> HIDE DEF row
      <4> QED BY <1>0, <2>1, <2>2, RegisterType
    <3> QED BY <1>0, <2>1, <2>3, <3>1 DEF RowOK, Exists, TypeOK
  <2> QED BY <2>4, <2>5, <2>6, <2>7 DEF IInv
<1>2. ASSUME NEW o \in Orders, CustomerPays(o)
      PROVE  IInv'
  <2>1. TypeOK'
    BY <1>0, <1>2 DEF CustomerPays, TypeOK, books
  <2>2. \A t \in Txns : SessionOK(t)'
    BY <1>0, <1>2 DEF CustomerPays, SessionOK, Exists
  <2>3. \A p \in Orders : LockOK(p)' /\ RowOK(p)'
    BY <1>0, <1>2 DEF CustomerPays, LockOK, RowOK, Exists, books
  <2> QED BY <2>1, <2>2, <2>3 DEF IInv
<1>3. ASSUME NEW t \in Txns, NEW m \in PosMethods, NEW total \in Amounts,
             BeginCheckout(t, m, total)
      PROVE  IInv'
  <2> DEFINE hosted == m \in LinkMethods /\ wallet.balance < total
             row == [status |-> IF hosted THEN "PENDING" ELSE "COMPLETED",
                     cash |-> IF hosted THEN "UNPAID" ELSE cashStatusForPaymentMethod(m),
                     method |-> m, settled |-> FALSE, total |-> total]
  <2>1. row \in Row /\ row.settled = FALSE
    BY ConstantsAssumption DEF Row, Status, CashStatus
  <2>2. /\ Begin(t, "posCheckout", NoOrder, row, "none", 0)
        /\ UNCHANGED <<order, wallet, books, history, collections, sales,
                       stockOuts, captured, lock>>
    BY <1>3 DEF BeginCheckout
  <2> HIDE DEF row
  <2> QED BY <2>1, <2>2, StartOfSession DEF AllHandlers
<1>4. ASSUME NEW t \in Txns, NEW o \in Orders, NEW target \in StaffTargets,
             BeginUpdate(t, o, target)
      PROVE  IInv'
  <2>1. order[o] \in Row /\ target \in Status
    BY <1>0, ConstantsAssumption DEF TypeOK
  <2>2. /\ Exists(o)
        /\ Begin(t, "updateOrder", o, order[o], target, 0)
        /\ UNCHANGED <<order, wallet, books, history, collections, sales,
                       stockOuts, captured, lock>>
    BY <1>4 DEF BeginUpdate
  <2> QED BY <2>1, <2>2, StartOfSession DEF AllHandlers
<1>5. ASSUME NEW t \in Txns, NEW o \in Orders, BeginFinalize(t, o)
      PROVE  IInv'
  <2>1. order[o] \in Row /\ Exists(o)
    BY <1>0, <1>5 DEF TypeOK, BeginFinalize, RowOK
  <2>2. /\ Begin(t, "finalizeGateway", o, order[o], "none", 0)
        /\ UNCHANGED <<order, wallet, books, history, collections, sales,
                       stockOuts, captured, lock>>
    BY <1>5 DEF BeginFinalize
  <2> QED BY <2>1, <2>2, StartOfSession DEF AllHandlers
<1>6. ASSUME NEW t \in Txns, NEW o \in Orders, NEW m \in DeskMethods,
             BeginManual(t, o, m)
      PROVE  IInv'
  <2> DEFINE due == IF order[o].settled THEN Remaining(o) ELSE 0
  <2>1. order[o] \in Row /\ Exists(o) /\ m \in ExternalMethods /\ m \in Methods
    BY <1>0, <1>6, ConstantsAssumption DEF TypeOK, BeginManual, Exists, Methods
  <2>2. due \in Nat
    <3>1. Remaining(o) \in Nat
      BY <1>0 DEF Remaining, TypeOK
    <3>2. due \in {Remaining(o), 0}
      BY Zenon
    <3> QED BY <3>1, <3>2
  <2>3. /\ Begin(t, "manualMark", o, order[o], m, due)
        /\ UNCHANGED <<order, wallet, books, history, collections, sales,
                       stockOuts, captured, lock>>
    BY <1>6 DEF BeginManual
  <2> HIDE DEF due
  <2> QED BY <2>1, <2>2, <2>3, StartOfSession DEF AllHandlers
<1>7. ASSUME NEW t \in Txns,
             ClaimCompletion(t) \/ ClaimFinalize(t) \/ ClaimManual(t)
      PROVE  IInv'
  <2> DEFINE s == [tx[t] EXCEPT !.pc = "claimed"]
             o == tx[t].ord
  <2>1. tx[t] \in Session /\ SessionOK(t)
    BY <1>0 DEF TypeOK
  <2>2. /\ tx[t].pc = "read"
        /\ tx[t].kind \in {"updateOrder", "finalizeGateway", "manualMark"}
        /\ tx[t].kind = "finalizeGateway" => Claimable(order[o])
        /\ LockRow(t, o)
        /\ tx' = [tx EXCEPT ![t].pc = "claimed"]
        /\ UNCHANGED <<order, wallet, books, history, collections, sales,
                       stockOuts, captured>>
    BY <1>7 DEF ClaimCompletion, ClaimFinalize, ClaimManual, At, Claimed
  <2>3. /\ s \in Session
        /\ s.pc = "claimed" /\ s.ord = o /\ s.kind = tx[t].kind /\ s.arg = tx[t].arg
    BY <2>1 DEF Session
  <2>4. /\ o \in Orders /\ Exists(o) /\ tx[t].kind \in Handlers
        /\ tx[t].kind = "updateOrder" => tx[t].arg \in Status
        /\ tx[t].kind = "manualMark" => tx[t].arg \in ExternalMethods
    BY <2>1, <2>2 DEF SessionOK
  <2>5. tx[t].kind \in {"finalizeGateway", "autoReconcile"} => order[o].settled = FALSE
    <3>1. order[o].settled \in BOOLEAN
      BY <1>0, <2>4 DEF TypeOK, Row
    <3>2. tx[t].kind = "finalizeGateway" => ~order[o].settled
      BY <2>2, Zenon DEF Claimable
    <3> QED BY <3>1, <3>2, <2>2
  <2>6. tx' = [tx EXCEPT ![t] = s]
    BY <2>2
  <2> HIDE DEF s, o
  <2> QED BY <2>2, <2>3, <2>4, <2>5, <2>6, ClaimOfRow
<1>8. ASSUME NEW t \in Txns, NEW o \in Orders, BeginReconcile(t, o)
      PROVE  IInv'
  <2> DEFINE s == [Idle EXCEPT !.pc = "claimed", !.kind = "autoReconcile",
                               !.ord = o, !.seen = order[o]]
  <2>1. /\ tx[t].pc = "idle"
        /\ "autoReconcile" \in Handlers
        /\ LockRow(t, o)
        /\ tx' = [tx EXCEPT ![t] = s]
        /\ o \in Unlocked
        /\ UNCHANGED <<order, wallet, books, history, collections, sales,
                       stockOuts, captured>>
    BY <1>8 DEF BeginReconcile
  <2>2. order[o] \in Row /\ order[o].settled \in BOOLEAN
    BY <1>0 DEF TypeOK, Row
  <2>3. /\ s \in Session /\ s.pc = "claimed" /\ s.ord = o /\ s.kind = "autoReconcile"
    BY <2>2 DEF Session, Idle, AllHandlers
  <2>4. Exists(o) /\ ~order[o].settled
    BY <2>1 DEF Unlocked, Eligible, Exists
  <2>5. order[o].settled = FALSE
    BY <2>2, <2>4
  <2> HIDE DEF s
  <2> QED BY <2>1, <2>3, <2>4, <2>5, ClaimOfRow
<1>9. ASSUME NEW t \in Txns, Rollback(t) \/ LoseClaim(t)
      PROVE  IInv'
  <2>1. UNCHANGED <<order, wallet, books, history, collections, sales,
                    stockOuts, captured>>
    BY <1>9 DEF Rollback, LoseClaim
  <2>2. /\ tx' = [tx EXCEPT ![t] = Idle]
        /\ lock' = [o \in Orders |-> IF lock[o] = t THEN NoTxn ELSE lock[o]]
    BY <1>9, CommitUnlockedReleases DEF Rollback, LoseClaim, At
  <2>3. RowsKept(t)
    BY <2>1 DEF RowsKept, Exists
  <2>4. /\ tx' \in [Txns -> Session]
        /\ lock' \in [Orders -> Txns \cup {NoTxn}]
        /\ \A u \in Txns : SessionOK(u)'
        /\ \A o \in Orders : LockOK(o)'
    BY <2>2, <2>3, EndOfSession
  <2>5. TypeOK' /\ \A o \in Orders : RowOK(o)'
    BY <1>0, <2>1, <2>4 DEF TypeOK, RowOK, Exists, books
  <2> QED BY <2>4, <2>5 DEF IInv
<1>10. ASSUME NEW t \in Txns, NEW o \in Orders, CommitHostedCheckout(t, o)
       PROVE  IInv'
  <2> DEFINE row == tx[t].seen
  <2>1. /\ ~Exists(o)
        /\ tx[t].pc = "read"
        /\ order' = [order EXCEPT ![o] = row]
        /\ row.status = "PENDING"
        /\ RegisterReceivable(o, row)
        /\ CommitUnlocked(t)
        /\ UNCHANGED <<history, collections, sales, stockOuts, captured>>
    BY <1>10 DEF CommitHostedCheckout, IsNext, At
  <2>2. row \in Row
    BY <1>0 DEF TypeOK, Session
  <2>3. /\ order' \in [Orders -> Row]
        /\ RowsKept(t)
        /\ \A p \in Orders : order[p].settled = TRUE => order'[p].settled = TRUE
    <3> HIDE DEF row
    <3> QED BY <2>1, <2>2, NewRow
  <2>4. /\ wallet' \in [balance : Nat, debt : Nat]
        /\ journal' \subseteq SourceRef
        /\ ar' \in [Orders -> Int]
        /\ drawn' = drawn
        /\ \A p : Ref("ABSORBED", p) \in journal' <=> Ref("ABSORBED", p) \in journal
    <3> HIDE DEF row
    <3> QED BY <1>0, <2>1, <2>2, RegisterType
  <2>5. /\ tx' \in [Txns -> Session]
        /\ lock' \in [Orders -> Txns \cup {NoTxn}]
        /\ \A u \in Txns : SessionOK(u)'
        /\ \A p \in Orders : LockOK(p)'
    BY <2>1, <2>3, EndOfSession, CommitUnlockedReleases
  <2>6. TypeOK'
    BY <1>0, <2>1, <2>3, <2>4, <2>5 DEF TypeOK
  <2>7. \A p \in Orders : RowOK(p)'
    BY <1>0, <2>1, <2>3, <2>4 DEF RowOK, RowsKept, Exists, TypeOK
  <2> QED BY <2>5, <2>6, <2>7 DEF IInv
<1>11. ASSUME NEW t \in Txns, NEW o \in Orders, CommitInstantCheckout(t, o)
       PROVE  IInv'
  <2> DEFINE row == [tx[t].seen EXCEPT !.settled = TRUE]
  <2>1. /\ ~Exists(o)
        /\ tx[t].pc = "read"
        /\ order' = [order EXCEPT ![o] = row]
        /\ tx[t].seen.status = "COMPLETED"
        /\ Settle(o, tx[t].seen.total, tx[t].seen.method, FALSE, "WALLET_SETTLEMENT")
        /\ SaleWithStock(o)
        /\ CommitUnlocked(t)
        /\ UNCHANGED <<collections, captured>>
    BY <1>11 DEF CommitInstantCheckout, IsNext, At
  <2>2. /\ tx[t].seen \in Row /\ tx[t].seen.total \in Nat /\ tx[t].seen.method \in Methods
        /\ row \in Row /\ row.status # "ABSENT" /\ row.settled = TRUE
    BY <1>0, <2>1 DEF TypeOK, Session, Row
  <2>3. /\ order' \in [Orders -> Row]
        /\ RowsKept(t)
        /\ \A p \in Orders : order[p].settled = TRUE => order'[p].settled = TRUE
    <3> HIDE DEF row
    <3> QED BY <2>1, <2>2, NewRow
  <2>4. /\ wallet' \in [balance : Nat, debt : Nat]
        /\ journal' \subseteq SourceRef
        /\ ar' \in [Orders -> Int]
        /\ drawn' \in Nat
        /\ history' \in [Orders -> Nat]
        /\ \A p : Ref("ABSORBED", p) \in journal' => p = o \/ Ref("ABSORBED", p) \in journal
    BY <1>0, <2>1, <2>2, SettleType DEF Triggers
  <2>5. /\ tx' \in [Txns -> Session]
        /\ lock' \in [Orders -> Txns \cup {NoTxn}]
        /\ \A u \in Txns : SessionOK(u)'
        /\ \A p \in Orders : LockOK(p)'
    BY <2>1, <2>3, EndOfSession, CommitUnlockedReleases
  <2>6. TypeOK'
    BY <1>0, <2>1, <2>3, <2>4, <2>5 DEF TypeOK, SaleWithStock
  <2>7. order'[o].settled = TRUE
    BY <1>0, <2>1, <2>2 DEF TypeOK
  <2>8. \A p \in Orders : RowOK(p)'
    BY <1>0, <2>1, <2>2, <2>3, <2>4, <2>7 DEF RowOK, RowsKept, Exists, TypeOK
  <2> QED BY <2>5, <2>6, <2>8 DEF IInv
<1>12. ASSUME NEW t \in Txns, MoveOrder(t) \/ CollectCleared(t)
       PROVE  IInv'
  <2> DEFINE o == tx[t].ord
  <2>1. /\ tx[t].pc = "read"
        /\ CommitUnlocked(t)
        /\ UNCHANGED <<wallet, books, history, collections, sales, stockOuts, captured>>
    BY <1>12 DEF MoveOrder, CollectCleared, At
  <2>2. tx[t] \in Session /\ SessionOK(t)
    BY <1>0 DEF TypeOK
  <2>3. /\ o \in Orders /\ Exists(o)
        /\ tx[t].kind = "updateOrder" => tx[t].arg \in Status
        /\ tx[t].kind = "manualMark" => tx[t].arg \in Methods
    BY <1>12, <2>1, <2>2 DEF SessionOK, MoveOrder, CollectCleared, At, Methods
  <2>4. PICK row \in Row : /\ order' = [order EXCEPT ![o] = row]
                           /\ row.status # "ABSENT"
                           /\ row.settled = order[o].settled
    <3>1. order[o] \in Row
      BY <1>0, <2>3 DEF TypeOK
    <3>2. CASE MoveOrder(t)
      <4> DEFINE row == [order[o] EXCEPT !.status = tx[t].arg]
      <4>1. order' = [order EXCEPT ![o] = row]
        BY <3>2 DEF MoveOrder
      <4>2. tx[t].arg \in Status
        BY <3>2, <2>3 DEF MoveOrder, At
      <4>3. row \in Row /\ row.status # "ABSENT" /\ row.settled = order[o].settled
        BY <3>1, <4>2 DEF Row, Status
      <4> HIDE DEF row
      <4> QED BY <4>1, <4>3
    <3>3. CASE CollectCleared(t)
      <4> DEFINE row == [order[o] EXCEPT !.method = tx[t].arg,
                            !.cash = cashStatusForPaymentMethod(tx[t].arg)]
      <4>1. order' = [order EXCEPT ![o] = row]
        BY <1>0, <2>3, <3>3 DEF CollectCleared, TypeOK
      <4>2. tx[t].arg \in Methods
        BY <3>3, <2>3 DEF CollectCleared, At
      <4>3. row \in Row /\ row.status # "ABSENT" /\ row.settled = order[o].settled
        BY <3>1, <4>2, <2>3 DEF Row, Exists
      <4> HIDE DEF row
      <4> QED BY <4>1, <4>3
    <3> QED BY <1>12, <3>2, <3>3
  <2>5. /\ order' \in [Orders -> Row]
        /\ RowsKept(t)
        /\ \A p \in Orders : order'[p].settled = order[p].settled
    BY <1>0, <2>3, <2>4 DEF TypeOK, RowsKept, Exists
  <2>6. /\ tx' \in [Txns -> Session]
        /\ lock' \in [Orders -> Txns \cup {NoTxn}]
        /\ \A u \in Txns : SessionOK(u)'
        /\ \A p \in Orders : LockOK(p)'
    BY <2>1, <2>5, EndOfSession, CommitUnlockedReleases
  <2>7. TypeOK'
    BY <1>0, <2>1, <2>5, <2>6 DEF TypeOK, books
  <2>8. \A p \in Orders : RowOK(p)'
    BY <1>0, <2>1, <2>5 DEF RowOK, RowsKept, Exists, books
  <2> QED BY <2>6, <2>7, <2>8 DEF IInv
<1>13. ASSUME NEW t \in Txns, CollectDebt(t)
       PROVE  IInv'
  <2> DEFINE o == tx[t].ord
             m == tx[t].arg
             paydown == Least(tx[t].due, wallet.debt)
             ref == PaymentRef(o, m, "CC_DEBT_INVOICE_PHYSICAL")
  <2>1. /\ tx[t].pc = "read"
        /\ tx[t].kind = "manualMark"
        /\ wallet' = [wallet EXCEPT !.debt = @ - paydown]
        /\ journal' = journal \cup {ref}
        /\ ar' = [ar EXCEPT ![o] = @ - appendBalanced(ref, paydown)]
        /\ collections' = [collections EXCEPT ![o] = @ + 1]
        /\ \/ order' = [order EXCEPT ![o].method = m,
                                     ![o].cash = cashStatusForPaymentMethod(m)]
           \/ order' = order
        /\ CommitUnlocked(t)
        /\ UNCHANGED <<drawn, history, sales, stockOuts, captured>>
    BY <1>13 DEF CollectDebt, At
  <2>2. tx[t] \in Session /\ SessionOK(t)
    BY <1>0 DEF TypeOK
  <2>3. o \in Orders /\ Exists(o) /\ m \in Methods /\ tx[t].due \in Nat
    BY <2>1, <2>2 DEF SessionOK, Methods, Session
  <2>4. /\ wallet.debt \in Nat
        /\ paydown \in Nat /\ paydown <= wallet.debt
    BY <1>0, <2>3, LeastType DEF TypeOK
  <2>5. /\ order' \in [Orders -> Row]
        /\ RowsKept(t)
        /\ \A p \in Orders : order'[p].settled = order[p].settled
    <3>1. order[o] \in Row
      BY <1>0, <2>3 DEF TypeOK
    <3>2. CASE order' = order
      BY <1>0, <3>2 DEF TypeOK, RowsKept, Exists
    <3>3. CASE order' = [order EXCEPT ![o].method = m,
                                      ![o].cash = cashStatusForPaymentMethod(m)]
      <4> DEFINE row == [order[o] EXCEPT !.method = m,
                                         !.cash = cashStatusForPaymentMethod(m)]
      <4>1. order' = [order EXCEPT ![o] = row]
        BY <1>0, <2>3, <3>3 DEF TypeOK
      <4>2. /\ row \in Row
            /\ row.status = order[o].status
            /\ row.settled = order[o].settled
        BY <3>1, <2>3 DEF Row
      <4> HIDE DEF row
      <4> QED BY <1>0, <2>3, <4>1, <4>2 DEF TypeOK, RowsKept, Exists
    <3> QED BY <2>1, <3>2, <3>3
  <2>6. /\ wallet' \in [balance : Nat, debt : Nat]
        /\ journal' \subseteq SourceRef
        /\ ar' \in [Orders -> Int]
        /\ collections' \in [Orders -> Nat]
    <3>1. ref \in SourceRef
      BY <2>3, RefType DEF Triggers
    <3>2. appendBalanced(ref, paydown) \in Nat
      BY <2>4, AppendType
    <3> HIDE DEF paydown, ref, o, m
    <3> QED BY <1>0, <2>1, <2>3, <2>4, <3>1, <3>2 DEF TypeOK
  <2>7. \A p : Ref("ABSORBED", p) \in journal' <=> Ref("ABSORBED", p) \in journal
    BY <2>1, RefDistinct
  <2>8. /\ tx' \in [Txns -> Session]
        /\ lock' \in [Orders -> Txns \cup {NoTxn}]
        /\ \A u \in Txns : SessionOK(u)'
        /\ \A p \in Orders : LockOK(p)'
    BY <2>1, <2>5, EndOfSession, CommitUnlockedReleases
  <2>9. TypeOK'
    <3> HIDE DEF paydown, ref, o, m
    <3> QED BY <1>0, <2>1, <2>5, <2>6, <2>8 DEF TypeOK
  <2>10. \A p \in Orders : RowOK(p)'
    <3> HIDE DEF paydown, ref, o, m
    <3> QED BY <1>0, <2>1, <2>5, <2>7 DEF RowOK, RowsKept, Exists
  <2> QED BY <2>8, <2>9, <2>10 DEF IInv
<1>14. ASSUME NEW t \in Txns,
              CommitCompletion(t) \/ CommitFinalize(t) \/ CommitManual(t)
       PROVE  IInv'
  <2> DEFINE o == tx[t].ord
  <2>1. /\ tx[t].pc = "claimed"
        /\ tx[t].kind # "posCheckout"
        /\ Commit(t, o)
        /\ UNCHANGED <<collections, captured>>
    BY <1>14 DEF CommitCompletion, CommitFinalize, CommitManual, At
  <2>2. tx[t] \in Session /\ SessionOK(t) /\ tx[t].seen \in Row
    BY <1>0 DEF TypeOK, Session
  <2>3. /\ o \in Orders /\ Exists(o) /\ lock[o] = t
        /\ tx[t].kind = "manualMark" => tx[t].arg \in Methods
    BY <2>1, <2>2 DEF SessionOK, Methods
  <2>4. /\ order[o] \in Row /\ order[o].total \in Nat /\ order[o].method \in Methods
        /\ order[o].settled \in BOOLEAN /\ tx[t].seen.settled \in BOOLEAN
        /\ order[o].cash \in CashStatus
    BY <1>0, <2>2, <2>3 DEF TypeOK, Row
  <2>5. PICK row \in Row :
            /\ order' = [order EXCEPT ![o] = row]
            /\ row.status = "COMPLETED"
            /\ row.settled = TRUE \/ (row.settled = order[o].settled
                                        /\ UNCHANGED <<wallet, books, history>>)
    <3>1. CASE CommitCompletion(t)
      <4> DEFINE cash == IF tx[t].seen.cash = "UNPAID" /\ tx[t].seen.method \notin LinkMethods
                         THEN cashStatusForPaymentMethod(tx[t].seen.method)
                         ELSE order[o].cash
                 row == [order[o] EXCEPT !.status = "COMPLETED", !.cash = cash,
                                         !.settled = @ \/ ~tx[t].seen.settled]
      <4>1. order' = [order EXCEPT ![o] = row]
        BY <3>1, Zenon DEF CommitCompletion
      <4>2. cash \in CashStatus
        BY <2>4, CashStatusType
      <4>3. (order[o].settled \/ ~tx[t].seen.settled) \in BOOLEAN
        OBVIOUS
      <4>4. /\ row \in Row /\ row.status = "COMPLETED"
            /\ row.settled = (order[o].settled \/ ~tx[t].seen.settled)
        <5> HIDE DEF cash
        <5> QED BY <2>4, <4>2, <4>3 DEF Row, Status
      <4>5. CASE tx[t].seen.settled = FALSE
        <5>1. row.settled = TRUE
          BY <4>4, <4>5
        <5> HIDE DEF row
        <5> QED BY <4>1, <4>4, <5>1
      <4>6. CASE tx[t].seen.settled = TRUE
        <5>1. NoSettlement
          BY <3>1, <4>6, Zenon DEF CommitCompletion
        <5>2. row.settled = order[o].settled
          BY <4>4, <4>6, <2>4
        <5> HIDE DEF row
        <5> QED BY <4>1, <4>4, <5>1, <5>2 DEF NoSettlement
      <4> QED BY <2>4, <4>5, <4>6
    <3>2. CASE CommitFinalize(t)
      <4> DEFINE row == [order[o] EXCEPT !.status = "COMPLETED",
                            !.cash = cashStatusForPaymentMethod("ONLINE"),
                            !.method = "ONLINE", !.settled = TRUE]
      <4>1. order' = [order EXCEPT ![o] = row]
        BY <3>2, Zenon DEF CommitFinalize
      <4>2. row \in Row /\ row.status = "COMPLETED" /\ row.settled = TRUE
        BY <2>4 DEF Row, Status, Methods, ExternalMethods, LinkMethods
      <4> HIDE DEF row
      <4> QED BY <4>1, <4>2
    <3>3. CASE CommitManual(t)
      <4> DEFINE row == [order[o] EXCEPT !.status = "COMPLETED",
                            !.cash = cashStatusForPaymentMethod(tx[t].arg),
                            !.method = tx[t].arg, !.settled = TRUE]
      <4>1. order' = [order EXCEPT ![o] = row]
        BY <3>3, Zenon DEF CommitManual
      <4>2. tx[t].arg \in Methods
        BY <3>3, <2>3 DEF CommitManual, At
      <4>3. row \in Row /\ row.status = "COMPLETED" /\ row.settled = TRUE
        BY <2>4, <4>2 DEF Row, Status
      <4> HIDE DEF row
      <4> QED BY <4>1, <4>3
    <3> QED BY <1>14, <3>1, <3>2, <3>3
  <2>6. /\ order' \in [Orders -> Row]
        /\ RowsKept(t)
        /\ order'[o] = row
        /\ \A p \in Orders : p # o => order'[p] = order[p]
    BY <1>0, <2>3, <2>5 DEF TypeOK, RowsKept, Exists
  <2>7. \/ UNCHANGED <<wallet, books, history>>
        \/ \E m \in Methods, declared \in BOOLEAN, trigger \in Triggers :
               Settle(o, order[o].total, m, declared, trigger)
    <3>1. CASE CommitCompletion(t)
      BY <3>1, <2>4 DEF CommitCompletion, NoSettlement, Triggers
    <3>2. CASE CommitFinalize(t)
      BY <3>2 DEF CommitFinalize, Triggers, Methods, ExternalMethods, LinkMethods
    <3>3. CASE CommitManual(t)
      <4>1. tx[t].arg \in Methods
        BY <3>3, <2>3 DEF CommitManual, At
      <4> QED BY <3>3, <4>1 DEF CommitManual, Triggers
    <3> QED BY <1>14, <3>1, <3>2, <3>3
  <2>8. /\ wallet' \in [balance : Nat, debt : Nat]
        /\ journal' \subseteq SourceRef
        /\ ar' \in [Orders -> Int]
        /\ drawn' \in Nat
        /\ history' \in [Orders -> Nat]
        /\ \A p : Ref("ABSORBED", p) \in journal' => p = o \/ Ref("ABSORBED", p) \in journal
    <3>1. CASE UNCHANGED <<wallet, books, history>>
      BY <1>0, <3>1 DEF TypeOK, books
    <3>2. CASE \E m \in Methods, declared \in BOOLEAN, trigger \in Triggers :
                   Settle(o, order[o].total, m, declared, trigger)
      <4>1. PICK m \in Methods, declared \in BOOLEAN, trigger \in Triggers :
                   Settle(o, order[o].total, m, declared, trigger)
        BY <3>2
      <4> QED BY <1>0, <2>3, <2>4, <4>1, SettleType
    <3> QED BY <2>7, <3>1, <3>2
  <2>9. sales' \in [Orders -> Nat] /\ stockOuts' \in [Orders -> Nat]
    <3>1. \/ sales' = sales /\ stockOuts' = stockOuts
          \/ sales' = [sales EXCEPT ![o] = @ + 1] /\ stockOuts' = stockOuts
          \/ sales' = [sales EXCEPT ![o] = @ + 1]
                /\ stockOuts' = [stockOuts EXCEPT ![o] = @ + 1]
      BY <1>14, Zenon DEF CommitCompletion, CommitFinalize, CommitManual, SaleWithStock
    <3> QED BY <1>0, <2>3, <3>1 DEF TypeOK
  <2>10. /\ tx' \in [Txns -> Session]
         /\ lock' \in [Orders -> Txns \cup {NoTxn}]
         /\ \A u \in Txns : SessionOK(u)'
         /\ \A p \in Orders : LockOK(p)'
    BY <2>1, <2>6, EndOfSession, CommitReleases
  <2>11. TypeOK'
    BY <1>0, <2>1, <2>6, <2>8, <2>9, <2>10 DEF TypeOK
  <2>12. ASSUME NEW p \in Orders PROVE RowOK(p)'
    <3>1. CASE p # o
      <4>1. RowOK(p) /\ order'[p] = order[p] /\ captured' = captured
        BY <1>0, <2>1, <2>6, <3>1
      <4>2. Ref("ABSORBED", p) \in journal' => Ref("ABSORBED", p) \in journal
        BY <2>8, <3>1
      <4> QED BY <4>1, <4>2 DEF RowOK, Exists
    <3>2. CASE p = o
      <4>1. order'[o].status = "COMPLETED"
        BY <2>5, <2>6
      <4>2. row.settled = TRUE \/ (row.settled = order[o].settled /\ journal' = journal)
        BY <2>5 DEF books
      <4> QED BY <1>0, <2>3, <2>6, <3>2, <4>1, <4>2 DEF RowOK, Exists
    <3> QED BY <3>1, <3>2
  <2> QED BY <2>10, <2>11, <2>12 DEF IInv
<1>15. ASSUME NEW t \in Txns, CommitReconcile(t)
       PROVE  IInv'
  <2> DEFINE o == tx[t].ord
             first == Settlement(o, order[o].total, "SUBSCRIPTION_WALLET", FALSE,
                                 "WALLET_SETTLEMENT")
             later == LaterPasses(first.wallet.balance)
             paid == {o} \cup later
  <2>1. /\ tx[t].pc = "claimed"
        /\ tx[t].kind = "autoReconcile"
        /\ Commit(t, o)
        /\ UNCHANGED <<collections, captured>>
    BY <1>15 DEF CommitReconcile, At
  <2>2. o \in Orders /\ Exists(o) /\ lock[o] = t /\ order[o].total \in Nat
    BY <1>0, <2>1 DEF SessionOK, TypeOK, Row
  <2>3. /\ first.wallet \in [balance : Nat, debt : Nat]
        /\ first.refs \subseteq SourceRef
        /\ first.ar \in Int
        /\ first.drawn \in Nat
        /\ \A p : Ref("ABSORBED", p) \in first.refs => p = o
    BY <1>0, <2>2, SettlementType DEF Methods, WalletMethods, Triggers
  <2>4. \A p \in later : p \in Orders /\ lock[p] = NoTxn /\ Exists(p)
    BY DEF LaterPasses, Unlocked, Eligible, Exists
  <2>5. \A p \in later : Ref("ABSORBED", p) \notin journal
    BY <1>0, <2>4 DEF RowOK, LaterPasses, Unlocked, Eligible
  <2> HIDE DEF first, later
  <2>6. /\ order' \in [Orders -> Row]
        /\ \A p \in paid : order'[p].status = "COMPLETED" /\ order'[p].settled = TRUE
        /\ \A p \in Orders \ paid : order'[p] = order[p]
    <3>1. order' = [p \in Orders |->
                IF p \in paid
                THEN [order[p] EXCEPT !.status = "COMPLETED",
                        !.method = "SUBSCRIPTION_WALLET",
                        !.cash = cashStatusForPaymentMethod("SUBSCRIPTION_WALLET"),
                        !.settled = TRUE]
                ELSE order[p]]
      BY <1>15, Zenon DEF CommitReconcile, first, later
    <3>2. paid \subseteq Orders
      BY <2>2, <2>4
    <3>3. \A p \in Orders : order[p] \in Row
      BY <1>0 DEF TypeOK
    <3>4. ASSUME NEW r \in Row
          PROVE  [r EXCEPT !.status = "COMPLETED",
                        !.method = "SUBSCRIPTION_WALLET",
                        !.cash = cashStatusForPaymentMethod("SUBSCRIPTION_WALLET"),
                        !.settled = TRUE]
                 \in {q \in Row : q.status = "COMPLETED" /\ q.settled = TRUE}
      BY DEF Row, Status, Methods, WalletMethods
    <3> HIDE DEF paid
    <3> QED BY <3>1, <3>2, <3>3, <3>4
  <2>7. RowsKept(t)
    BY <2>2, <2>4, <2>6, ConstantsAssumption DEF RowsKept, Exists, Status
  <2>8. PICK spent \in 0 .. first.wallet.balance :
            /\ spent = TotalOf(later)
            /\ wallet' = [first.wallet EXCEPT !.balance = @ - spent]
            /\ drawn' = drawn + first.drawn
                    + TotalOf({p \in later : Ref("ABSORBED", p) \notin journal})
    BY <1>15 DEF CommitReconcile, first, later
  <2>9. wallet' \in [balance : Nat, debt : Nat]
    BY <2>3, <2>8
  <2>10. drawn' \in Nat
    <3>1. {p \in later : Ref("ABSORBED", p) \notin journal} = later
      BY <2>5
    <3>2. spent \in Nat
      BY <2>3, <2>8
    <3>3. drawn' = drawn + first.drawn + spent
      BY <3>1, <2>8
    <3> QED BY <1>0, <2>3, <3>2, <3>3 DEF TypeOK
  <2>11. /\ journal' \subseteq SourceRef
         /\ \A p : Ref("ABSORBED", p) \in journal'
                    => p \in paid \/ Ref("ABSORBED", p) \in journal
    <3>1. journal' = journal \cup first.refs
                \cup {Ref("ISSUED", p) : p \in later}
                \cup {Ref("ABSORBED", p) : p \in later}
      BY <1>15, Zenon DEF CommitReconcile, first, later
    <3>2. \A p \in later : Ref("ISSUED", p) \in SourceRef /\ Ref("ABSORBED", p) \in SourceRef
      BY <2>4 DEF Ref, SourceRef, EntryKinds, Triggers
    <3>3. ASSUME NEW p, Ref("ABSORBED", p) \in journal'
          PROVE  p \in paid \/ Ref("ABSORBED", p) \in journal
      <4>1. Ref("ABSORBED", p) \notin {Ref("ISSUED", q) : q \in later}
        BY RefDistinct
      <4>2. Ref("ABSORBED", p) \in {Ref("ABSORBED", q) : q \in later} => p \in later
        BY RefDistinct
      <4> QED BY <2>3, <3>1, <3>3, <4>1, <4>2
    <3> QED BY <1>0, <2>3, <3>1, <3>2, <3>3 DEF TypeOK
  <2>12. ar' \in [Orders -> Int]
    <3>1. ar' = [p \in Orders |->
                CASE p = o       -> ar[p] + first.ar
                  [] p \in later -> ar[p]
                        + appendBalanced(Ref("ISSUED", p), order[p].total)
                        - appendBalanced(Ref("ABSORBED", p), order[p].total)
                  [] OTHER       -> ar[p]]
      BY <1>15, Zenon DEF CommitReconcile, first, later
    <3>2. ASSUME NEW p \in Orders
          PROVE  (CASE p = o       -> ar[p] + first.ar
                    [] p \in later -> ar[p]
                        + appendBalanced(Ref("ISSUED", p), order[p].total)
                        - appendBalanced(Ref("ABSORBED", p), order[p].total)
                    [] OTHER       -> ar[p]) \in Int
      <4>1. order[p].total \in Nat /\ ar[p] \in Int
        BY <1>0 DEF TypeOK, Row
      <4>2. /\ appendBalanced(Ref("ISSUED", p), order[p].total) \in Nat
            /\ appendBalanced(Ref("ABSORBED", p), order[p].total) \in Nat
        BY <4>1, AppendType
      <4>3. o \notin later
        BY <2>2, <2>4, ConstantsAssumption
      <4> QED BY <2>3, <4>1, <4>2, <4>3
    <3> QED BY <3>1, <3>2
  <2>13. /\ history' \in [Orders -> Nat]
         /\ sales' \in [Orders -> Nat]
         /\ stockOuts' \in [Orders -> Nat]
    <3> DEFINE sold == {p \in paid : order[p].status # "COMPLETED"}
    <3>1. /\ history' = [p \in Orders |-> IF p \in paid THEN history[p] + 1 ELSE history[p]]
          /\ sales' = [p \in Orders |-> IF p \in sold THEN sales[p] + 1 ELSE sales[p]]
          /\ stockOuts' = [p \in Orders |-> IF p \in sold THEN stockOuts[p] + 1
                                            ELSE stockOuts[p]]
      BY <1>15, Zenon DEF CommitReconcile, first, later
    <3> HIDE DEF sold, paid
    <3> QED BY <1>0, <3>1 DEF TypeOK
  <2>14. /\ tx' \in [Txns -> Session]
         /\ lock' \in [Orders -> Txns \cup {NoTxn}]
         /\ \A u \in Txns : SessionOK(u)'
         /\ \A p \in Orders : LockOK(p)'
    BY <2>1, <2>7, EndOfSession, CommitReleases
  <2>15. TypeOK'
    BY <1>0, <2>1, <2>6, <2>9, <2>10, <2>11, <2>12, <2>13, <2>14 DEF TypeOK
  <2>16. ASSUME NEW p \in Orders PROVE RowOK(p)'
    <3> HIDE DEF paid
    <3>1. RowOK(p) /\ captured' = captured
      BY <1>0, <2>1
    <3>2. Ref("ABSORBED", p) \in journal' => p \in paid \/ Ref("ABSORBED", p) \in journal
      BY <2>11
    <3> QED BY <2>6, <3>1, <3>2 DEF RowOK, Exists
  <2> QED BY <2>14, <2>15, <2>16 DEF IInv
<1>16. CASE UNCHANGED vars
  BY <1>0, <1>16 DEF vars, books, IInv, TypeOK, SessionOK, LockOK, RowOK, Exists
<1> QED
  BY <1>1, <1>2, <1>3, <1>4, <1>5, <1>6, <1>7, <1>8, <1>9, <1>10, <1>11, <1>12,
     <1>13, <1>14, <1>15, <1>16 DEF Next

\* The invariant holds in every reachable state.
LEMMA AlwaysIInv == Spec => []IInv
BY InitIInv, NextIInv, PTL DEF Spec

\* Every variable keeps its type; in particular no interleaving of handlers
\* drives the prepaid balance, the debt or the absorbed credit below zero.
THEOREM TypeCorrect == Spec => []TypeOK
<1>1. IInv => TypeOK
  BY DEF IInv
<1> QED BY <1>1, AlwaysIInv, PTL

-----------------------------------------------------------------------------
(* What a step can do to settlements and credit *)

\* A step that settles nothing.
Quiet ==
    /\ \A o \in Orders : order'[o].settled = order[o].settled
    /\ history' = history
    /\ wallet'.balance = wallet.balance
    /\ drawn' = drawn

\* A step that settles the orders of batch with `spent` of the prepaid credit.
Settles(batch, spent) ==
    /\ \A o \in batch : order'[o].settled = TRUE
    /\ \A o \in Orders \ batch : order'[o].settled = order[o].settled
    /\ history' = [o \in Orders |-> IF o \in batch THEN history[o] + 1 ELSE history[o]]
    /\ wallet'.balance = wallet.balance - spent
    /\ drawn' = drawn + spent
    /\ "manualMark" \notin Handlers => \A o \in batch : order[o].settled = FALSE

\* Settling one order takes its share of the balance, no more.
LEMMA SettleOne ==
    ASSUME IInv, NEW o \in Orders, NEW row \in Row, NEW total \in Nat,
           NEW m \in Methods, NEW declared \in BOOLEAN, NEW trigger \in Triggers,
           Settle(o, total, m, declared, trigger),
           order' = [order EXCEPT ![o] = row], row.settled = TRUE,
           \/ order[o].settled = FALSE
           \/ m \in ExternalMethods /\ "manualMark" \in Handlers
    PROVE  /\ journal \subseteq journal'
           /\ \E spent \in 0 .. wallet.balance : Settles({o}, spent)
<1>0. TypeOK /\ RowOK(o)
  BY DEF IInv
<1>1. /\ journal \subseteq journal'
      /\ history' = [history EXCEPT ![o] = @ + 1]
      /\ wallet'.balance = wallet.balance - Take(total, m)
      /\ Ref("ABSORBED", o) \notin journal => drawn' = drawn + Take(total, m)
  BY <1>0, SettleType
<1>2. /\ Take(total, m) \in 0 .. wallet.balance
      /\ wallet.balance \in Nat
  BY <1>0, TakeType DEF TypeOK
<1>3. drawn' = drawn + Take(total, m)
  <2>1. CASE order[o].settled = FALSE
    BY <1>0, <1>1, <2>1 DEF RowOK
  <2>2. CASE m \in ExternalMethods
    <3>1. Take(total, m) = 0
      BY <2>2 DEF Take, WalletMethods, ExternalMethods, LinkMethods
    <3>2. Absorbed(o, total, m) = 0
      BY <3>1 DEF Absorbed, appendBalanced
    <3>3. drawn' = drawn + Absorbed(o, total, m)
      BY DEF Settle, Settlement
    <3> QED BY <3>1, <3>2, <3>3
  <2> QED BY <2>1, <2>2
<1>4. history' = [p \in Orders |-> IF p \in {o} THEN history[p] + 1 ELSE history[p]]
  BY <1>0, <1>1 DEF TypeOK
<1>5. /\ order'[o].settled = TRUE
      /\ \A p \in Orders \ {o} : order'[p] = order[p]
  BY <1>0 DEF TypeOK
<1>6. Settles({o}, Take(total, m))
  BY <1>1, <1>3, <1>4, <1>5 DEF Settles
<1> QED BY <1>1, <1>2, <1>6

\* A step is quiet or settles a batch of orders within the balance, and no entry
\* ever leaves the journal.
LEMMA StepSettles ==
    ASSUME IInv, [Next]_vars
    PROVE  /\ journal \subseteq journal'
           /\ \/ Quiet
              \/ \E batch \in (SUBSET Orders) \ {{}}, spent \in 0 .. wallet.balance :
                     Settles(batch, spent)
<1> DEFINE Goal == /\ journal \subseteq journal'
                   /\ \/ Quiet
                      \/ \E batch \in (SUBSET Orders) \ {{}}, spent \in 0 .. wallet.balance :
                             Settles(batch, spent)
<1> SUFFICES Goal
  OBVIOUS
<1>0. /\ TypeOK
      /\ \A t \in Txns : SessionOK(t)
      /\ \A o \in Orders : LockOK(o) /\ RowOK(o)
  BY DEF IInv
<1>a. ASSUME NEW o \in Orders, \E spent \in 0 .. wallet.balance : Settles({o}, spent),
             journal \subseteq journal'
      PROVE  Goal
  <2>1. {o} \in (SUBSET Orders) \ {{}}
    OBVIOUS
  <2> QED BY <1>a, <2>1
<1>b. UNCHANGED <<order, wallet, books, history>> => Goal
  BY DEF Quiet, books
<1>1. ASSUME NEW o \in Orders, NEW m \in PosMethods, NEW total \in Amounts,
             CreateQuick(o, m, total)
      PROVE  Goal
  <2> DEFINE row == [status |-> "PENDING", cash |-> "UNPAID", method |-> m,
                     settled |-> FALSE, total |-> total]
  <2>1. /\ ~Exists(o)
        /\ order' = [order EXCEPT ![o] = row]
        /\ RegisterReceivable(o, row)
        /\ history' = history
    BY <1>1 DEF CreateQuick, IsNext
  <2>2. row \in Row
    BY ConstantsAssumption DEF Row, Status, CashStatus
  <2>3. drawn' = drawn /\ wallet'.balance = wallet.balance /\ journal \subseteq journal'
    <3> HIDE DEF row
    <3> QED BY <1>0, <2>1, <2>2, RegisterType
  <2>4. \A p \in Orders : order'[p].settled = order[p].settled
    BY <1>0, <2>1 DEF TypeOK, RowOK
  <2> QED BY <2>1, <2>3, <2>4 DEF Quiet
<1>2. ASSUME NEW t \in Txns, NEW o \in Orders, CommitHostedCheckout(t, o)
      PROVE  Goal
  <2>1. /\ ~Exists(o)
        /\ order' = [order EXCEPT ![o] = tx[t].seen]
        /\ RegisterReceivable(o, tx[t].seen)
        /\ history' = history
        /\ tx[t].kind = "posCheckout" /\ tx[t].pc = "read"
    BY <1>2 DEF CommitHostedCheckout, IsNext, At
  <2>2. tx[t].seen \in Row /\ tx[t].seen.settled = FALSE
    BY <1>0, <2>1 DEF TypeOK, Session, SessionOK
  <2>3. drawn' = drawn /\ wallet'.balance = wallet.balance /\ journal \subseteq journal'
    BY <1>0, <2>1, <2>2, RegisterType
  <2>4. \A p \in Orders : order'[p].settled = order[p].settled
    BY <1>0, <2>1, <2>2 DEF TypeOK, RowOK
  <2> QED BY <2>1, <2>3, <2>4 DEF Quiet
<1>3. ASSUME NEW t \in Txns, NEW o \in Orders, CommitInstantCheckout(t, o)
      PROVE  Goal
  <2> DEFINE row == [tx[t].seen EXCEPT !.settled = TRUE]
  <2>1. /\ ~Exists(o)
        /\ order' = [order EXCEPT ![o] = row]
        /\ Settle(o, tx[t].seen.total, tx[t].seen.method, FALSE, "WALLET_SETTLEMENT")
    BY <1>3 DEF CommitInstantCheckout, IsNext
  <2>2. /\ tx[t].seen.total \in Nat /\ tx[t].seen.method \in Methods
        /\ row \in Row /\ row.settled = TRUE
    BY <1>0, ZenonT(30) DEF TypeOK, Session, Row
  <2>3. order[o].settled = FALSE /\ "WALLET_SETTLEMENT" \in Triggers
    BY <1>0, <2>1 DEF RowOK, Triggers
  <2> HIDE DEF row
  <2>4. journal \subseteq journal' /\ \E spent \in 0 .. wallet.balance : Settles({o}, spent)
    BY <2>1, <2>2, <2>3, SettleOne
  <2> QED BY <1>a, <2>4
<1>4. ASSUME NEW t \in Txns, MoveOrder(t) \/ CollectCleared(t) \/ CollectDebt(t)
      PROVE  Goal
  <2> DEFINE o == tx[t].ord
  <2>1. history' = history /\ drawn' = drawn
    BY <1>4 DEF MoveOrder, CollectCleared, CollectDebt, books
  <2>2. journal \subseteq journal'
    BY <1>4 DEF MoveOrder, CollectCleared, CollectDebt, books
  <2>3. wallet'.balance = wallet.balance
    BY <1>0, <1>4 DEF MoveOrder, CollectCleared, CollectDebt, TypeOK
  <2>4. \A p \in Orders : order'[p].settled = order[p].settled
    <3>1. \A p \in Orders : order[p] \in Row
      BY <1>0 DEF TypeOK
    <3>2. CASE MoveOrder(t)
      BY <1>0, <3>1, <3>2 DEF MoveOrder, TypeOK, Row
    <3>3. CASE CollectCleared(t)
      BY <1>0, <3>1, <3>3 DEF CollectCleared, TypeOK, Row
    <3>4. CASE CollectDebt(t)
      <4>1. \/ order' = order
            \/ order' = [order EXCEPT ![o].method = tx[t].arg,
                               ![o].cash = cashStatusForPaymentMethod(tx[t].arg)]
        BY <3>4 DEF CollectDebt
      <4> QED BY <1>0, <3>1, <4>1 DEF TypeOK, Row
    <3> QED BY <1>4, <3>2, <3>3, <3>4
  <2> QED BY <2>1, <2>2, <2>3, <2>4 DEF Quiet
<1>5. ASSUME NEW t \in Txns,
             CommitCompletion(t) \/ CommitFinalize(t) \/ CommitManual(t)
      PROVE  Goal
  <2> DEFINE o == tx[t].ord
  <2>1. tx[t].pc = "claimed" /\ tx[t].kind # "posCheckout"
    BY <1>5 DEF CommitCompletion, CommitFinalize, CommitManual, At
  <2>2. /\ o \in Orders
        /\ tx[t].kind \in Handlers
        /\ tx[t].kind = "manualMark" => tx[t].arg \in ExternalMethods
        /\ tx[t].kind = "finalizeGateway" => order[o].settled = FALSE
    BY <1>0, <2>1 DEF SessionOK
  <2>3. /\ order[o] \in Row /\ order[o].total \in Nat /\ order[o].method \in Methods
        /\ order[o].settled \in BOOLEAN /\ tx[t].seen.settled \in BOOLEAN
        /\ order[o].cash \in CashStatus
    BY <1>0, <2>2 DEF TypeOK, Row, Session
  <2>4. CASE CommitCompletion(t)
    <3> DEFINE cash == IF tx[t].seen.cash = "UNPAID" /\ tx[t].seen.method \notin LinkMethods
                       THEN cashStatusForPaymentMethod(tx[t].seen.method)
                       ELSE order[o].cash
               row == [order[o] EXCEPT !.status = "COMPLETED", !.cash = cash,
                                       !.settled = @ \/ ~tx[t].seen.settled]
    <3>1. order' = [order EXCEPT ![o] = row]
      BY <2>4, Zenon DEF CommitCompletion
    <3>2. cash \in CashStatus
      BY <2>3, CashStatusType
    <3>3. (order[o].settled \/ ~tx[t].seen.settled) \in BOOLEAN
      OBVIOUS
    <3>4. /\ row \in Row
          /\ row.settled = (order[o].settled \/ ~tx[t].seen.settled)
      <4> HIDE DEF cash
      <4> QED BY <2>3, <3>2, <3>3 DEF Row, Status
    <3> HIDE DEF row
    <3>5. CASE tx[t].seen.settled = TRUE \/ order[o].settled = TRUE
      <4>1. NoSettlement
        BY <2>4, <3>5, Zenon DEF CommitCompletion
      <4>2. row.settled = order[o].settled
        BY <2>3, <3>4, <3>5
      <4>3. \A p \in Orders : order'[p].settled = order[p].settled
        BY <1>0, <2>2, <3>1, <4>2 DEF TypeOK
      <4> QED BY <4>1, <4>3 DEF NoSettlement, Quiet, books
    <3>6. CASE tx[t].seen.settled = FALSE /\ order[o].settled = FALSE
      <4>1. Settle(o, order[o].total, order[o].method, FALSE, "WALLET_SETTLEMENT")
        BY <2>4, <3>6, Zenon DEF CommitCompletion
      <4>2. row.settled = TRUE /\ "WALLET_SETTLEMENT" \in Triggers
        BY <3>4, <3>6 DEF Triggers
      <4>3. journal \subseteq journal' /\ \E spent \in 0 .. wallet.balance : Settles({o}, spent)
        BY <2>2, <2>3, <3>1, <3>4, <3>6, <4>1, <4>2, SettleOne
      <4> QED BY <1>a, <2>2, <4>3
    <3> QED BY <2>3, <3>5, <3>6
  <2>5. CASE CommitFinalize(t)
    <3> DEFINE row == [order[o] EXCEPT !.status = "COMPLETED",
                          !.cash = cashStatusForPaymentMethod("ONLINE"),
                          !.method = "ONLINE", !.settled = TRUE]
    <3>1. /\ order' = [order EXCEPT ![o] = row]
          /\ Settle(o, order[o].total, "ONLINE", TRUE, "PAYMENT_LINK_CALLBACK")
      BY <2>5, Zenon DEF CommitFinalize
    <3>2. row \in Row /\ row.settled = TRUE
      BY <2>3, CashStatusType DEF Row, Status, Methods, ExternalMethods, LinkMethods
    <3>3. order[o].settled = FALSE
      BY <2>2, <2>5 DEF CommitFinalize, At
    <3>4. "ONLINE" \in Methods /\ "PAYMENT_LINK_CALLBACK" \in Triggers
      BY DEF Triggers, Methods, ExternalMethods, LinkMethods
    <3> HIDE DEF row
    <3>5. journal \subseteq journal' /\ \E spent \in 0 .. wallet.balance : Settles({o}, spent)
      BY <2>2, <2>3, <3>1, <3>2, <3>3, <3>4, SettleOne
    <3> QED BY <1>a, <2>2, <3>5
  <2>6. CASE CommitManual(t)
    <3> DEFINE row == [order[o] EXCEPT !.status = "COMPLETED",
                          !.cash = cashStatusForPaymentMethod(tx[t].arg),
                          !.method = tx[t].arg, !.settled = TRUE]
    <3>1. /\ order' = [order EXCEPT ![o] = row]
          /\ Settle(o, order[o].total, tx[t].arg, TRUE, "CALL_CENTER_MANUAL")
      BY <2>6, Zenon DEF CommitManual
    <3>2. /\ tx[t].arg \in ExternalMethods /\ tx[t].arg \in Methods
          /\ "manualMark" \in Handlers
          /\ "CALL_CENTER_MANUAL" \in Triggers
      BY <2>2, <2>6 DEF CommitManual, At, Methods, Triggers
    <3>3. row \in Row /\ row.settled = TRUE
      BY <2>3, <3>2, CashStatusType DEF Row, Status
    <3> HIDE DEF row
    <3>4. journal \subseteq journal' /\ \E spent \in 0 .. wallet.balance : Settles({o}, spent)
      BY <2>2, <2>3, <3>1, <3>2, <3>3, SettleOne
    <3> QED BY <1>a, <2>2, <3>4
  <2> QED BY <1>5, <2>4, <2>5, <2>6
<1>6. ASSUME NEW t \in Txns, CommitReconcile(t)
      PROVE  Goal
  <2> DEFINE o == tx[t].ord
             first == Settlement(o, order[o].total, "SUBSCRIPTION_WALLET", FALSE,
                                 "WALLET_SETTLEMENT")
             later == LaterPasses(first.wallet.balance)
             paid == {o} \cup later
             take == Take(order[o].total, "SUBSCRIPTION_WALLET")
  <2>1. tx[t].pc = "claimed" /\ tx[t].kind = "autoReconcile"
    BY <1>6 DEF CommitReconcile, At
  <2>2. o \in Orders /\ order[o].settled = FALSE /\ order[o].total \in Nat
    BY <1>0, <2>1 DEF SessionOK, TypeOK, Row
  <2>3. Ref("ABSORBED", o) \notin journal
    BY <1>0, <2>2 DEF RowOK
  <2>4. /\ first.wallet \in [balance : Nat, debt : Nat]
        /\ first.wallet.balance = wallet.balance - take
        /\ first.drawn = take
    <3>1. /\ "SUBSCRIPTION_WALLET" \in Methods /\ "WALLET_SETTLEMENT" \in Triggers
          /\ FALSE \in BOOLEAN
      BY DEF Methods, WalletMethods, Triggers
    <3>2. /\ first.wallet \in [balance : Nat, debt : Nat]
          /\ first.wallet.balance = wallet.balance - take
          /\ Ref("ABSORBED", o) \notin journal => first.drawn = take
      <4> DEFINE total == order[o].total
      <4>1. TypeOK /\ o \in Orders /\ total \in Nat
        BY <1>0, <2>2
      <4> HIDE DEF o, total
      <4>2. LET s == Settlement(o, total, "SUBSCRIPTION_WALLET", FALSE, "WALLET_SETTLEMENT")
            IN  /\ s.wallet \in [balance : Nat, debt : Nat]
                /\ s.wallet.balance = wallet.balance - Take(total, "SUBSCRIPTION_WALLET")
                /\ Ref("ABSORBED", o) \notin journal
                      => s.drawn = Take(total, "SUBSCRIPTION_WALLET")
        <5> DEFINE m == "SUBSCRIPTION_WALLET"
                   d == FALSE
                   tr == "WALLET_SETTLEMENT"
        <5>1. m \in Methods /\ d \in BOOLEAN /\ tr \in Triggers
          BY <3>1
        <5> HIDE DEF m, d, tr
        <5>2. LET s == Settlement(o, total, m, d, tr)
              IN  /\ s.wallet \in [balance : Nat, debt : Nat]
                  /\ s.wallet.balance = wallet.balance - Take(total, m)
                  /\ Ref("ABSORBED", o) \notin journal => s.drawn = Take(total, m)
          BY <4>1, <5>1, SettlementType
        <5> QED BY <5>2 DEF m, d, tr
      <4> QED BY <4>2, Zenon DEF total
    <3> QED BY <2>3, <3>2
  <2>5. take \in Nat /\ wallet.balance \in Nat /\ drawn \in Nat
    BY <1>0, <2>2, TakeType DEF Methods, WalletMethods, TypeOK
  <2>6. \A p \in later : p \in Orders /\ order[p].settled = FALSE
    BY <1>0 DEF LaterPasses, Unlocked, Eligible, TypeOK, Row
  <2>7. \A p \in later : Ref("ABSORBED", p) \notin journal
    BY <1>0, <2>6 DEF RowOK
  <2> HIDE DEF first, later, take
  <2>8. paid \in (SUBSET Orders) \ {{}}
    BY <2>2, <2>6
  <2>9. /\ \A p \in paid : order'[p].settled = TRUE
        /\ \A p \in Orders \ paid : order'[p].settled = order[p].settled
    <3>1. order' = [p \in Orders |->
                IF p \in paid
                THEN [order[p] EXCEPT !.status = "COMPLETED",
                        !.method = "SUBSCRIPTION_WALLET",
                        !.cash = cashStatusForPaymentMethod("SUBSCRIPTION_WALLET"),
                        !.settled = TRUE]
                ELSE order[p]]
      BY <1>6, Zenon DEF CommitReconcile, first, later
    <3>2. \A p \in Orders : order[p] \in Row
      BY <1>0 DEF TypeOK
    <3>3. ASSUME NEW r \in Row
          PROVE  [r EXCEPT !.status = "COMPLETED",
                        !.method = "SUBSCRIPTION_WALLET",
                        !.cash = cashStatusForPaymentMethod("SUBSCRIPTION_WALLET"),
                        !.settled = TRUE].settled = TRUE
      BY DEF Row
    <3>4. paid \subseteq Orders
      BY <2>8
    <3> HIDE DEF paid
    <3>5. ASSUME NEW p \in paid PROVE order'[p].settled = TRUE
      <4>1. p \in Orders /\ order[p] \in Row
        BY <3>2, <3>4
      <4>2. order'[p] = [order[p] EXCEPT !.status = "COMPLETED",
                        !.method = "SUBSCRIPTION_WALLET",
                        !.cash = cashStatusForPaymentMethod("SUBSCRIPTION_WALLET"),
                        !.settled = TRUE]
        BY <3>1, <4>1, Zenon
      <4> QED BY <3>3, <4>1, <4>2
    <3>6. ASSUME NEW p \in Orders \ paid PROVE order'[p] = order[p]
      BY <3>1, Zenon
    <3> QED BY <3>5, <3>6
  <2>10. PICK spent \in 0 .. first.wallet.balance :
            /\ spent = TotalOf(later)
            /\ wallet' = [first.wallet EXCEPT !.balance = @ - spent]
            /\ drawn' = drawn + first.drawn
                    + TotalOf({p \in later : Ref("ABSORBED", p) \notin journal})
    BY <1>6 DEF CommitReconcile, first, later
  <2>11. {p \in later : Ref("ABSORBED", p) \notin journal} = later
    BY <2>7
  <2>12. /\ wallet'.balance = wallet.balance - (take + spent)
         /\ drawn' = drawn + (take + spent)
         /\ take + spent \in 0 .. wallet.balance
    BY <2>4, <2>5, <2>10, <2>11
  <2>13. history' = [p \in Orders |-> IF p \in paid THEN history[p] + 1 ELSE history[p]]
    BY <1>6, Zenon DEF CommitReconcile, first, later
  <2>14. journal \subseteq journal'
    BY <1>6 DEF CommitReconcile
  <2>15. \A p \in paid : order[p].settled = FALSE
    BY <2>2, <2>6
  <2> HIDE DEF paid
  <2>16. Settles(paid, take + spent)
    BY <2>9, <2>12, <2>13, <2>15 DEF Settles
  <2> QED BY <2>8, <2>12, <2>14, <2>16
<1>7. ASSUME NEW o \in Orders, CustomerPays(o)
      PROVE  Goal
  BY <1>7, <1>b DEF CustomerPays
<1>8. ASSUME NEW t \in Txns, NEW m \in PosMethods, NEW total \in Amounts,
             BeginCheckout(t, m, total)
      PROVE  Goal
  BY <1>8, <1>b DEF BeginCheckout
<1>9. ASSUME NEW t \in Txns, NEW o \in Orders,
             \/ \E target \in StaffTargets : BeginUpdate(t, o, target)
             \/ BeginFinalize(t, o)
             \/ \E m \in DeskMethods : BeginManual(t, o, m)
             \/ BeginReconcile(t, o)
      PROVE  Goal
  <2>1. UNCHANGED <<order, wallet, books, history>>
    BY <1>9 DEF BeginUpdate, BeginFinalize, BeginManual, BeginReconcile
  <2> QED BY <1>b, <2>1
<1>10. ASSUME NEW t \in Txns,
             \/ ClaimCompletion(t) \/ ClaimFinalize(t) \/ ClaimManual(t)
             \/ LoseClaim(t) \/ Rollback(t)
      PROVE  Goal
  <2>1. UNCHANGED <<order, wallet, books, history>>
    BY <1>10 DEF ClaimCompletion, ClaimFinalize, ClaimManual, LoseClaim, Rollback
  <2> QED BY <1>b, <2>1
<1>11. CASE UNCHANGED vars
  BY <1>11, <1>b DEF vars
<1> HIDE DEF Goal
<1> QED
  BY <1>1, <1>2, <1>3, <1>4, <1>5, <1>6, <1>7, <1>8, <1>9, <1>10, <1>11 DEF Next

-----------------------------------------------------------------------------
(* The theorems *)

\* Settling is final: no handler, whichever are deployed, clears the settlement
\* of an order or removes an entry of the journal.
THEOREM SettlementFinal == Spec => SettlementIsFinal
<1> DEFINE Final == /\ \A o \in Orders : order[o].settled => order'[o].settled
                    /\ journal \subseteq journal'
<1>1. IInv /\ [Next]_vars => [Final]_vars
  <2> SUFFICES ASSUME IInv, [Next]_vars PROVE Final
    OBVIOUS
  <2>1. journal \subseteq journal'
    BY StepSettles
  <2>2. ASSUME NEW o \in Orders, order[o].settled
        PROVE  order'[o].settled
    <3>1. CASE Quiet
      <4>1. order'[o].settled = order[o].settled
        BY <3>1 DEF Quiet
      <4> QED BY <2>2, <4>1, Zenon
    <3>2. ASSUME NEW batch \in (SUBSET Orders) \ {{}}, NEW spent,
                 Settles(batch, spent)
          PROVE  order'[o].settled
      <4>1. CASE o \in batch
        BY <3>2, <4>1, Zenon DEF Settles
      <4>2. CASE o \notin batch
        <5>1. order'[o].settled = order[o].settled
          BY <3>2, <4>2, Zenon DEF Settles
        <5> QED BY <2>2, <5>1, Zenon
      <4> QED BY <4>1, <4>2
    <3> QED BY StepSettles, <3>1, <3>2
  <2> QED BY <2>1, <2>2
<1> QED BY <1>1, AlwaysIInv, PTL DEF Spec, SettlementIsFinal

\* Prepaid credit is conserved: whichever handlers run and however they
\* interleave, what left the wallet's balance is what the absorption entries of
\* the journal applied to invoices.
THEOREM CreditConserved == Spec => []WalletDrawnMatchesJournal
<1>1. Init => WalletDrawnMatchesJournal
  BY ConstantsAssumption DEF Init, WalletDrawnMatchesJournal
<1>2. IInv /\ WalletDrawnMatchesJournal /\ [Next]_vars => WalletDrawnMatchesJournal'
  <2> SUFFICES ASSUME IInv, WalletDrawnMatchesJournal, [Next]_vars
               PROVE  WalletDrawnMatchesJournal'
    OBVIOUS
  <2>1. wallet.balance \in Nat /\ drawn \in Nat
    BY DEF IInv, TypeOK
  <2>2. CASE Quiet
    BY <2>2 DEF Quiet, WalletDrawnMatchesJournal
  <2>3. ASSUME NEW batch, NEW spent \in 0 .. wallet.balance, Settles(batch, spent)
        PROVE  WalletDrawnMatchesJournal'
    <3>1. wallet'.balance = wallet.balance - spent /\ drawn' = drawn + spent
      BY <2>3 DEF Settles
    <3> QED BY <2>1, <3>1 DEF WalletDrawnMatchesJournal
  <2> QED BY StepSettles, <2>2, <2>3
<1> QED BY <1>1, <1>2, AlwaysIInv, PTL DEF Spec

\* An order is settled at most once, and carries walletSettledAt exactly when it
\* was, in every deployment without the call-center's manual confirmation, for
\* any number of sessions, orders, retries and duplicate callbacks.
THEOREM SettledAtMostOnce ==
    ASSUME "manualMark" \notin Handlers
    PROVE  Spec => []SettledOnce
<1>1. Init => SettledOnce
  BY DEF Init, SettledOnce, NoRow
<1>2. IInv /\ SettledOnce /\ [Next]_vars => SettledOnce'
  <2> SUFFICES ASSUME IInv, SettledOnce, [Next]_vars, NEW o \in Orders
               PROVE  history'[o] = (IF order'[o].settled THEN 1 ELSE 0)
    BY DEF SettledOnce
  <2>1. history[o] = (IF order[o].settled THEN 1 ELSE 0)
    BY Zenon DEF SettledOnce
  <2>2. CASE Quiet
    <3>1. history'[o] = history[o] /\ order'[o].settled = order[o].settled
      BY <2>2 DEF Quiet
    <3> QED BY <2>1, <3>1, Zenon
  <2>3. ASSUME NEW batch \in (SUBSET Orders) \ {{}}, NEW spent, Settles(batch, spent)
        PROVE  history'[o] = (IF order'[o].settled THEN 1 ELSE 0)
    <3>1. CASE o \in batch
      <4>1. /\ order[o].settled = FALSE /\ order'[o].settled = TRUE
            /\ history'[o] = history[o] + 1
        BY <2>3, <3>1 DEF Settles
      <4>2. history[o] = 0
        BY <2>1, <4>1
      <4> QED BY <4>1, <4>2
    <3>2. CASE o \notin batch
      <4>1. history'[o] = history[o] /\ order'[o].settled = order[o].settled
        BY <2>3, <3>2 DEF Settles
      <4> QED BY <2>1, <4>1, Zenon
    <3> QED BY <3>1, <3>2
  <2> QED BY StepSettles, <2>2, <2>3
<1> QED BY <1>1, <1>2, AlwaysIInv, PTL DEF Spec

\* The handlers implement SettlementContract, in every deployment without the
\* call-center's manual confirmation: a step settles a batch of open orders,
\* writes one history row for each and spends exactly the credit it applies to
\* them, or the contract does not see it.
THEOREM Refinement ==
    ASSUME "manualMark" \notin Handlers
    PROVE  Spec => ImplementsContract
<1>1. Init => Contract!Init
  BY DEF Init, Contract!Init, NoRow
<1>2. IInv /\ [Next]_vars => [Contract!Next]_(Contract!vars)
  <2> SUFFICES ASSUME IInv, [Next]_vars
               PROVE  Contract!Next \/ UNCHANGED Contract!vars
    OBVIOUS
  <2>1. CASE Quiet
    <3>1. {o \in Orders : order'[o].settled} = {o \in Orders : order[o].settled}
      BY <2>1, Zenon DEF Quiet
    <3> QED BY <2>1, <3>1 DEF Contract!vars, Quiet
  <2>2. ASSUME NEW batch \in (SUBSET Orders) \ {{}},
               NEW spent \in 0 .. wallet.balance, Settles(batch, spent)
        PROVE  Contract!Next
    <3>1. batch \cap {o \in Orders : order[o].settled} = {}
      BY <2>2 DEF Settles
    <3>2. {o \in Orders : order'[o].settled}
            = {o \in Orders : order[o].settled} \cup batch
      <4>1. ASSUME NEW o \in Orders
            PROVE  order'[o].settled <=> (order[o].settled \/ o \in batch)
        <5>1. CASE o \in batch
          BY <2>2, <5>1, Zenon DEF Settles
        <5>2. CASE o \notin batch
          <6>1. order'[o].settled = order[o].settled
            BY <2>2, <5>2, Zenon DEF Settles
          <6> QED BY <5>2, <6>1, Zenon
        <5> QED BY <5>1, <5>2
      <4> QED BY <4>1, Zenon
    <3>3. Contract!SettleBatch(batch, spent)
      BY <2>2, <3>1, <3>2 DEF Contract!SettleBatch, Settles
    <3> QED BY <3>3 DEF Contract!Next
  <2> QED BY StepSettles, <2>1, <2>2
<1> QED BY <1>1, <1>2, AlwaysIInv, PTL DEF Spec, ImplementsContract, Contract!Spec

-----------------------------------------------------------------------------
(* What a step can do to one order *)

\* The order's general-ledger rows, stock decrements and settlements.
CountsKept(o) == sales'[o] = sales[o] /\ stockOuts'[o] = stockOuts[o] /\ history'[o] = history[o]
CountsUp(o) == /\ sales'[o] = sales[o] + 1 /\ stockOuts'[o] = stockOuts[o] + 1
               /\ history'[o] = history[o] + 1

Kept(o) == order'[o] = order[o] /\ CountsKept(o)

\* A new order that waits for its payment.
Opened(o) ==
    /\ ~Exists(o)
    /\ order'[o].status = "PENDING" /\ order'[o].settled = FALSE /\ order'[o].cash = "UNPAID"
    /\ CountsKept(o)

\* A new order that is sold at once.
SoldAtOnce(o) ==
    /\ ~Exists(o)
    /\ order'[o].status = "COMPLETED" /\ order'[o].settled = TRUE /\ order'[o].cash # "UNPAID"
    /\ CountsUp(o)

\* Session t of updateOrder writes another status.
Moved(o, t) ==
    /\ At(t, "updateOrder", "read") /\ tx[t].ord = o /\ ~Completes(t)
    /\ order'[o] = [order[o] EXCEPT !.status = tx[t].arg]
    /\ CountsKept(o)

\* Session t of updateOrder completes the order.
Delivered(o, t) ==
    /\ At(t, "updateOrder", "claimed") /\ tx[t].ord = o
    /\ order'[o].status = "COMPLETED" /\ order'[o].method = order[o].method
    /\ order'[o].settled = (order[o].settled \/ ~tx[t].seen.settled)
    /\ sales'[o] \in {sales[o], sales[o] + 1} /\ stockOuts'[o] = stockOuts[o]
    /\ history'[o] >= history[o]
    /\ order[o].settled = FALSE /\ tx[t].seen.settled = FALSE => history'[o] = history[o] + 1

\* Session t settles the order: its payment was captured or confirmed.
Paid(o, t) ==
    /\ \/ At(t, "finalizeGateway", "claimed") /\ order[o].settled = FALSE
       \/ At(t, "manualMark", "claimed") /\ "manualMark" \in Handlers
    /\ tx[t].ord = o
    /\ order'[o].status = "COMPLETED" /\ order'[o].settled = TRUE /\ order'[o].cash # "UNPAID"
    /\ CountsUp(o)

\* The agent collects what a settled order left as debt.
Collected(o, t) ==
    /\ At(t, "manualMark", "read") /\ "manualMark" \in Handlers
    /\ order'[o].status = order[o].status /\ order'[o].settled = order[o].settled
    /\ order'[o].cash # "UNPAID"
    /\ CountsKept(o)

\* The reconcile job settles the order; it sells it unless it was completed.
Reconciled(o) ==
    /\ order[o].settled = FALSE
    /\ \/ order[o].status \notin {"ABSENT", "CANCELED"}
       \/ \E t \in Txns : At(t, "autoReconcile", "claimed") /\ tx[t].ord = o
    /\ order'[o].status = "COMPLETED" /\ order'[o].settled = TRUE /\ order'[o].cash # "UNPAID"
    /\ history'[o] = history[o] + 1
    /\ IF order[o].status = "COMPLETED"
       THEN sales'[o] = sales[o] /\ stockOuts'[o] = stockOuts[o]
       ELSE sales'[o] = sales[o] + 1 /\ stockOuts'[o] = stockOuts[o] + 1

RowStep(o) ==
    \/ Kept(o) \/ Opened(o) \/ SoldAtOnce(o) \/ Reconciled(o)
    \/ \E t \in Txns : Moved(o, t) \/ Delivered(o, t) \/ Paid(o, t) \/ Collected(o, t)

\* What a session of posCheckout will insert.
CheckoutOK ==
    \A t \in Txns : At(t, "posCheckout", "read") =>
        \/ /\ tx[t].seen.status = "PENDING" /\ tx[t].seen.cash = "UNPAID"
           /\ tx[t].seen.method \in LinkMethods
        \/ tx[t].seen.status = "COMPLETED" /\ tx[t].seen.cash # "UNPAID"

\* A payment method that is confirmed leaves no order unpaid.
LEMMA NotUnpaid == \A m : cashStatusForPaymentMethod(m) # "UNPAID"
BY DEF cashStatusForPaymentMethod

\* The other orders stay as they are.
LEMMA OtherOrders ==
    ASSUME TypeOK, NEW p \in Orders, NEW o \in Orders, o # p, NEW row, NEW k, NEW l, NEW n,
           order' = [order EXCEPT ![p] = row],
           sales' = sales \/ sales' = [sales EXCEPT ![p] = k],
           stockOuts' = stockOuts \/ stockOuts' = [stockOuts EXCEPT ![p] = l],
           history' = history \/ history' = [history EXCEPT ![p] = n]
    PROVE  Kept(o)
BY DEF TypeOK, Kept, CountsKept

\* An order that is inserted, by createQuick or by a checkout.
LEMMA RowInserted ==
    ASSUME IInv, CheckoutOK, NEW o \in Orders, NEW p \in Orders,
           \/ \E m \in PosMethods, total \in Amounts : CreateQuick(p, m, total)
           \/ \E t \in Txns : CommitHostedCheckout(t, p) \/ CommitInstantCheckout(t, p)
    PROVE  RowStep(o)
<1>0. TypeOK /\ \A t \in Txns : SessionOK(t)
  BY DEF IInv
<1>1. ASSUME NEW m \in PosMethods, NEW total \in Amounts, CreateQuick(p, m, total)
      PROVE  RowStep(o)
  <2> DEFINE row == [status |-> "PENDING", cash |-> "UNPAID", method |-> m,
                     settled |-> FALSE, total |-> total]
  <2>1. /\ ~Exists(p) /\ order' = [order EXCEPT ![p] = row]
        /\ sales' = sales /\ stockOuts' = stockOuts /\ history' = history
    BY <1>1 DEF CreateQuick, IsNext
  <2>2. row.status = "PENDING" /\ row.settled = FALSE /\ row.cash = "UNPAID"
    OBVIOUS
  <2> HIDE DEF row
  <2>3. CASE o # p
    BY <1>0, <2>1, <2>3, OtherOrders DEF RowStep
  <2>4. CASE o = p
    BY <1>0, <2>1, <2>2, <2>4 DEF RowStep, Opened, CountsKept, TypeOK
  <2> QED BY <2>3, <2>4
<1>2. ASSUME NEW t \in Txns, CommitHostedCheckout(t, p) PROVE RowStep(o)
  <2>1. /\ ~Exists(p) /\ order' = [order EXCEPT ![p] = tx[t].seen]
        /\ sales' = sales /\ stockOuts' = stockOuts /\ history' = history
        /\ At(t, "posCheckout", "read") /\ tx[t].seen.status = "PENDING"
    BY <1>2 DEF CommitHostedCheckout, IsNext
  <2>2. tx[t].seen.settled = FALSE /\ tx[t].seen.cash = "UNPAID"
    BY <1>0, <2>1 DEF SessionOK, CheckoutOK, At
  <2>3. CASE o # p
    BY <1>0, <2>1, <2>3, OtherOrders DEF RowStep
  <2>4. CASE o = p
    BY <1>0, <2>1, <2>2, <2>4 DEF RowStep, Opened, CountsKept, TypeOK
  <2> QED BY <2>3, <2>4
<1>3. ASSUME NEW t \in Txns, CommitInstantCheckout(t, p) PROVE RowStep(o)
  <2> DEFINE row == [tx[t].seen EXCEPT !.settled = TRUE]
  <2>1. /\ ~Exists(p) /\ order' = [order EXCEPT ![p] = row]
        /\ sales' = [sales EXCEPT ![p] = @ + 1]
        /\ stockOuts' = [stockOuts EXCEPT ![p] = @ + 1]
        /\ history' = [history EXCEPT ![p] = @ + 1]
        /\ At(t, "posCheckout", "read") /\ tx[t].seen.status = "COMPLETED"
    BY <1>3 DEF CommitInstantCheckout, IsNext, SaleWithStock, Settle
  <2>2. row.settled = TRUE /\ row.cash # "UNPAID" /\ row.status = "COMPLETED"
    <3>1. tx[t].seen \in Row
      BY <1>0 DEF TypeOK, Session
    <3>2. tx[t].seen.cash # "UNPAID"
      BY <2>1 DEF CheckoutOK
    <3> QED BY <2>1, <3>1, <3>2 DEF Row
  <2> HIDE DEF row
  <2>3. CASE o # p
    BY <1>0, <2>1, <2>3, OtherOrders DEF RowStep
  <2>4. CASE o = p
    BY <1>0, <2>1, <2>2, <2>4 DEF RowStep, SoldAtOnce, CountsUp, TypeOK
  <2> QED BY <2>3, <2>4
<1> QED BY <1>1, <1>2, <1>3

\* A settlement adds one history row to its order and touches no other.
LEMMA HistoryUp ==
    ASSUME TypeOK, NEW p \in Orders, NEW total, NEW m, NEW declared, NEW trigger,
           Settle(p, total, m, declared, trigger)
    PROVE  history' = [history EXCEPT ![p] = history[p] + 1]
BY DEF Settle, TypeOK

\* An order that staff move or a driver delivers.
LEMMA RowUpdated ==
    ASSUME IInv, NEW o \in Orders, NEW t \in Txns, MoveOrder(t) \/ CommitCompletion(t)
    PROVE  RowStep(o)
<1> DEFINE p == tx[t].ord
<1>0. TypeOK /\ SessionOK(t)
  BY DEF IInv
<1>1. p \in Orders /\ order[p] \in Row /\ tx[t].seen \in Row /\ sales[p] \in Nat /\ history[p] \in Nat
  BY <1>0 DEF MoveOrder, CommitCompletion, At, SessionOK, TypeOK, Session
<1>2. CASE MoveOrder(t)
  <2>1. /\ At(t, "updateOrder", "read") /\ ~Completes(t)
        /\ order' = [order EXCEPT ![p] = [order[p] EXCEPT !.status = tx[t].arg]]
        /\ sales' = sales /\ stockOuts' = stockOuts /\ history' = history
    BY <1>2, <1>0 DEF MoveOrder, TypeOK
  <2>2. CASE o # p
    BY <1>0, <1>1, <2>1, <2>2, OtherOrders DEF RowStep
  <2>3. CASE o = p
    <3>1. order'[o] = [order[o] EXCEPT !.status = tx[t].arg]
      BY <1>0, <1>1, <2>1, <2>3 DEF TypeOK
    <3>2. Moved(o, t)
      BY <2>1, <2>3, <3>1 DEF Moved, CountsKept
    <3> QED BY <3>2 DEF RowStep
  <2> QED BY <2>2, <2>3
<1>3. CASE CommitCompletion(t)
  <2> DEFINE cash == IF tx[t].seen.cash = "UNPAID" /\ tx[t].seen.method \notin LinkMethods
                     THEN cashStatusForPaymentMethod(tx[t].seen.method)
                     ELSE order[p].cash
             row == [order[p] EXCEPT !.status = "COMPLETED", !.cash = cash,
                                     !.settled = @ \/ ~tx[t].seen.settled]
  <2>1. /\ At(t, "updateOrder", "claimed")
        /\ order' = [order EXCEPT ![p] = row]
        /\ sales' = (IF tx[t].seen.method \in LinkMethods THEN sales
                     ELSE [sales EXCEPT ![p] = sales[p] + 1])
        /\ stockOuts' = stockOuts
        /\ IF tx[t].seen.settled \/ order[p].settled
           THEN NoSettlement
           ELSE Settle(p, order[p].total, order[p].method, FALSE, "WALLET_SETTLEMENT")
    BY <1>3, Zenon DEF CommitCompletion
  <2>2. /\ row.status = "COMPLETED" /\ row.method = order[p].method
        /\ row.settled = (order[p].settled \/ ~tx[t].seen.settled)
    <3> HIDE DEF cash
    <3> QED BY <1>1 DEF Row
  <2> HIDE DEF row, cash
  <2>3. /\ history' = history \/ history' = [history EXCEPT ![p] = history[p] + 1]
        /\ order[p].settled = FALSE /\ tx[t].seen.settled = FALSE
              => history' = [history EXCEPT ![p] = history[p] + 1]
    <3>1. CASE tx[t].seen.settled \/ order[p].settled
      <4>1. history' = history
        BY <2>1, <3>1, Zenon DEF NoSettlement
      <4> QED BY <3>1, <4>1, Zenon
    <3>2. CASE ~(tx[t].seen.settled \/ order[p].settled)
      <4>1. Settle(p, order[p].total, order[p].method, FALSE, "WALLET_SETTLEMENT")
        BY <2>1, <3>2, Zenon
      <4>2. history' = [history EXCEPT ![p] = history[p] + 1]
        BY <1>0, <1>1, <4>1, HistoryUp
      <4> QED BY <4>2
    <3> QED BY <3>1, <3>2, Zenon
  <2>4. sales' = sales \/ sales' = [sales EXCEPT ![p] = sales[p] + 1]
    BY <2>1
  <2>5. CASE o # p
    BY <1>0, <1>1, <2>1, <2>3, <2>4, <2>5, OtherOrders DEF RowStep
  <2>6. CASE o = p
    <3>1. order'[o] = row
      BY <1>0, <1>1, <2>1, <2>6 DEF TypeOK
    <3>2. sales'[o] \in {sales[o], sales[o] + 1} /\ stockOuts'[o] = stockOuts[o]
      BY <1>0, <1>1, <2>1, <2>4, <2>6 DEF TypeOK
    <3>3. /\ history'[o] >= history[o]
          /\ order[o].settled = FALSE /\ tx[t].seen.settled = FALSE => history'[o] = history[o] + 1
      BY <1>0, <1>1, <2>3, <2>6 DEF TypeOK
    <3>4. order'[o].settled = (order[o].settled \/ ~tx[t].seen.settled)
      BY <2>2, <2>6, <3>1, Zenon
    <3>5. tx[t].ord = o /\ order'[o].status = "COMPLETED" /\ order'[o].method = order[o].method
      BY <2>2, <2>6, <3>1
    <3>6. Delivered(o, t)
      BY <2>1, <3>2, <3>3, <3>4, <3>5, Zenon DEF Delivered
    <3> QED BY <3>6 DEF RowStep
  <2> QED BY <2>5, <2>6
<1> QED BY <1>2, <1>3

\* An order whose payment is captured, confirmed or collected.
LEMMA RowPaid ==
    ASSUME IInv, NEW o \in Orders, NEW t \in Txns,
           CommitFinalize(t) \/ CommitManual(t) \/ CollectCleared(t) \/ CollectDebt(t)
    PROVE  RowStep(o)
<1> DEFINE p == tx[t].ord
<1>0. TypeOK /\ SessionOK(t)
  BY DEF IInv
<1>1. tx[t].kind \in {"finalizeGateway", "manualMark"} /\ tx[t].pc # "idle"
  BY DEF CommitFinalize, CommitManual, CollectCleared, CollectDebt, At
<1>2. p \in Orders /\ order[p] \in Row /\ tx[t].kind \in Handlers
  BY <1>0, <1>1 DEF SessionOK, TypeOK
<1>3. CASE CommitFinalize(t) \/ CommitManual(t)
  <2> DEFINE row(x) == [order[p] EXCEPT !.status = "COMPLETED",
                          !.cash = cashStatusForPaymentMethod(x), !.method = x, !.settled = TRUE]
  <2>1. PICK x : /\ order' = [order EXCEPT ![p] = row(x)]
                 /\ history' = [history EXCEPT ![p] = history[p] + 1]
                 /\ sales' = [sales EXCEPT ![p] = sales[p] + 1]
                 /\ stockOuts' = [stockOuts EXCEPT ![p] = stockOuts[p] + 1]
                 /\ tx[t].pc = "claimed"
    <3>1. CASE CommitFinalize(t)
      <4>1. /\ order' = [order EXCEPT ![p] = row("ONLINE")]
            /\ Settle(p, order[p].total, "ONLINE", TRUE, "PAYMENT_LINK_CALLBACK")
            /\ SaleWithStock(p) /\ tx[t].pc = "claimed"
        BY <3>1, Zenon DEF CommitFinalize, At
      <4>2. history' = [history EXCEPT ![p] = history[p] + 1]
        BY <1>0, <1>2, <4>1, HistoryUp
      <4> QED BY <4>1, <4>2 DEF SaleWithStock
    <3>2. CASE CommitManual(t)
      <4>1. /\ order' = [order EXCEPT ![p] = row(tx[t].arg)]
            /\ Settle(p, order[p].total, tx[t].arg, TRUE, "CALL_CENTER_MANUAL")
            /\ SaleWithStock(p) /\ tx[t].pc = "claimed"
        BY <3>2, Zenon DEF CommitManual, At
      <4>2. history' = [history EXCEPT ![p] = history[p] + 1]
        BY <1>0, <1>2, <4>1, HistoryUp
      <4> QED BY <4>1, <4>2 DEF SaleWithStock
    <3> QED BY <1>3, <3>1, <3>2
  <2>2. row(x).status = "COMPLETED" /\ row(x).settled = TRUE /\ row(x).cash # "UNPAID"
    BY <1>2, NotUnpaid DEF Row
  <2>3. tx[t].kind = "finalizeGateway" => order[p].settled = FALSE
    BY <1>0, <1>1, <2>1 DEF SessionOK
  <2> HIDE DEF row
  <2>4. CASE o # p
    BY <1>0, <1>2, <2>1, <2>4, OtherOrders DEF RowStep
  <2>5. CASE o = p
    <3>1. Paid(o, t)
      BY <1>0, <1>1, <1>2, <2>1, <2>2, <2>3, <2>5 DEF Paid, At, CountsUp, TypeOK
    <3> QED BY <3>1 DEF RowStep
  <2> QED BY <2>4, <2>5
<1>4. CASE CollectCleared(t) \/ CollectDebt(t)
  <2>1. /\ sales' = sales /\ stockOuts' = stockOuts /\ history' = history
        /\ At(t, "manualMark", "read")
        /\ \/ order' = order
           \/ order' = [order EXCEPT ![p] = [order[p] EXCEPT !.method = tx[t].arg,
                              !.cash = cashStatusForPaymentMethod(tx[t].arg)]]
    BY <1>0, <1>2, <1>4 DEF CollectCleared, CollectDebt, TypeOK
  <2> DEFINE row == [order[p] EXCEPT !.method = tx[t].arg,
                        !.cash = cashStatusForPaymentMethod(tx[t].arg)]
  <2>2. row.status = order[p].status /\ row.settled = order[p].settled /\ row.cash # "UNPAID"
    BY <1>2, NotUnpaid DEF Row
  <2> HIDE DEF row
  <2>3. CASE order' = order
    BY <2>1, <2>3 DEF RowStep, Kept, CountsKept
  <2>4. CASE order' = [order EXCEPT ![p] = row]
    <3>1. CASE o # p
      BY <1>0, <1>2, <2>1, <2>4, <3>1, OtherOrders DEF RowStep
    <3>2. CASE o = p
      <4>1. Collected(o, t)
        BY <1>0, <1>2, <2>1, <2>2, <2>4, <3>2 DEF Collected, At, CountsKept, TypeOK
      <4> QED BY <4>1 DEF RowStep
    <3> QED BY <3>1, <3>2
  <2> QED BY <2>1, <2>3, <2>4 DEF row
<1> QED BY <1>3, <1>4

\* An order the reconcile job settles.
LEMMA RowReconciled ==
    ASSUME IInv, NEW o \in Orders, NEW t \in Txns, CommitReconcile(t)
    PROVE  RowStep(o)
<1> DEFINE p == tx[t].ord
           first == Settlement(p, order[p].total, "SUBSCRIPTION_WALLET", FALSE, "WALLET_SETTLEMENT")
           later == LaterPasses(first.wallet.balance)
           paid == {p} \cup later
           sold == {q \in paid : order[q].status # "COMPLETED"}
           row == [order[o] EXCEPT !.status = "COMPLETED", !.method = "SUBSCRIPTION_WALLET",
                      !.cash = cashStatusForPaymentMethod("SUBSCRIPTION_WALLET"), !.settled = TRUE]
<1>0. TypeOK /\ SessionOK(t)
  BY DEF IInv
<1>1. At(t, "autoReconcile", "claimed")
  BY DEF CommitReconcile
<1>2. p \in Orders /\ order[p].settled = FALSE /\ order[o] \in Row
  BY <1>0, <1>1 DEF At, SessionOK, TypeOK
<1>3. \A q \in later : order[q].settled = FALSE /\ order[q].status \notin {"ABSENT", "CANCELED"}
  BY <1>0 DEF LaterPasses, Unlocked, Eligible, TypeOK, Row
<1>4. row.status = "COMPLETED" /\ row.settled = TRUE /\ row.cash # "UNPAID"
  BY <1>2, NotUnpaid DEF Row
<1> HIDE DEF first, later
<1>5. /\ order'[o] = (IF o \in paid THEN row ELSE order[o])
      /\ history'[o] = (IF o \in paid THEN history[o] + 1 ELSE history[o])
      /\ sales'[o] = (IF o \in sold THEN sales[o] + 1 ELSE sales[o])
      /\ stockOuts'[o] = (IF o \in sold THEN stockOuts[o] + 1 ELSE stockOuts[o])
  BY Zenon DEF CommitReconcile, first, later
<1>6. o \in sold <=> o \in paid /\ order[o].status # "COMPLETED"
  OBVIOUS
<1> HIDE DEF row, sold
<1>7. CASE o \in paid
  <2>1. order[o].settled = FALSE /\ (order[o].status \notin {"ABSENT", "CANCELED"} \/ o = p)
    BY <1>2, <1>3, <1>7
  <2>2. Reconciled(o)
    BY <1>1, <1>4, <1>5, <1>6, <1>7, <2>1 DEF Reconciled
  <2> QED BY <2>2 DEF RowStep
<1>8. CASE o \notin paid
  BY <1>5, <1>6, <1>8 DEF RowStep, Kept, CountsKept
<1> QED BY <1>7, <1>8

\* Every step leaves an order alone or does one of these things to it.
LEMMA RowSteps ==
    ASSUME IInv, CheckoutOK, [Next]_vars, NEW o \in Orders
    PROVE  RowStep(o)
<1>1. ASSUME UNCHANGED <<order, sales, stockOuts, history>> PROVE RowStep(o)
  BY <1>1 DEF RowStep, Kept, CountsKept
<1>2. ASSUME NEW p \in Orders, CustomerPays(p) PROVE RowStep(o)
  BY <1>1, <1>2 DEF CustomerPays
<1>3. ASSUME NEW t \in Txns, \E m \in PosMethods, total \in Amounts : BeginCheckout(t, m, total)
      PROVE  RowStep(o)
  BY <1>1, <1>3 DEF BeginCheckout
<1>4. ASSUME NEW t \in Txns, NEW p \in Orders,
             \/ \E target \in StaffTargets : BeginUpdate(t, p, target)
             \/ BeginFinalize(t, p)
             \/ \E m \in DeskMethods : BeginManual(t, p, m)
             \/ BeginReconcile(t, p)
      PROVE  RowStep(o)
  <2>1. UNCHANGED <<order, sales, stockOuts, history>>
    BY <1>4 DEF BeginUpdate, BeginFinalize, BeginManual, BeginReconcile
  <2> QED BY <1>1, <2>1
<1>5. ASSUME NEW t \in Txns,
             \/ ClaimCompletion(t) \/ ClaimFinalize(t) \/ ClaimManual(t)
             \/ LoseClaim(t) \/ Rollback(t)
      PROVE  RowStep(o)
  <2>1. UNCHANGED <<order, sales, stockOuts, history>>
    BY <1>5 DEF ClaimCompletion, ClaimFinalize, ClaimManual, LoseClaim, Rollback
  <2> QED BY <1>1, <2>1
<1>6. CASE UNCHANGED vars
  BY <1>1, <1>6 DEF vars
<1> HIDE DEF RowStep
<1> QED BY <1>2, <1>3, <1>4, <1>5, <1>6, RowInserted, RowUpdated, RowPaid, RowReconciled DEF Next

-----------------------------------------------------------------------------
(* What a step can do to a session *)

\* A handler has read the order `o`, and what it checked then.
Begun(s, o) ==
    /\ s.ord = o /\ s.seen = order[o] /\ s.kind # "posCheckout"
    /\ s.kind # "autoReconcile" => s.pc = "read"
    /\ s.kind = "updateOrder" =>
          s.arg \in StaffTargets /\ s.arg \in Forward(order[o].status) \cup {order[o].status}
    /\ s.kind = "finalizeGateway" => order[o].status \notin {"COMPLETED", "CANCELED"}
    /\ s.kind = "manualMark" => order[o].status # "CANCELED"
    /\ s.kind = "autoReconcile" =>
          /\ s.pc = "claimed" /\ order[o].status \notin {"ABSENT", "CANCELED"}
          /\ order[o].total <= wallet.balance

\* A handler locks the order it has read.
Locked(t) ==
    /\ tx'[t] = [tx[t] EXCEPT !.pc = "claimed"]
    /\ tx[t].pc = "read"
    /\ tx[t].kind \in {"updateOrder", "finalizeGateway", "manualMark"}
    /\ tx[t].kind = "updateOrder" => Completes(t)
    /\ tx[t].kind = "manualMark" => tx[t].seen.settled # TRUE

CheckoutBegun(t) ==
    /\ tx'[t].kind = "posCheckout"
    /\ \/ /\ tx'[t].seen.status = "PENDING" /\ tx'[t].seen.cash = "UNPAID"
          /\ tx'[t].seen.method \in LinkMethods
       \/ tx'[t].seen.status = "COMPLETED" /\ tx'[t].seen.cash # "UNPAID"

SessionStep(t) ==
    \/ tx'[t] = tx[t]
    \/ tx'[t] = Idle
    \/ CheckoutBegun(t) /\ order' = order /\ wallet' = wallet
    \/ (\E o \in Orders : Begun(tx'[t], o)) /\ order' = order /\ wallet' = wallet
    \/ Locked(t) /\ order' = order /\ wallet' = wallet

\* Every step leaves a session alone or does one of these things to it.
LEMMA SessionSteps ==
    ASSUME IInv, [Next]_vars, NEW t \in Txns
    PROVE  SessionStep(t)
<1>0. TypeOK
  BY DEF IInv
<1>1. ASSUME UNCHANGED tx PROVE SessionStep(t)
  BY <1>1 DEF SessionStep
<1>2. ASSUME NEW r \in Txns, tx' = [tx EXCEPT ![r] = Idle] PROVE SessionStep(t)
  BY <1>0, <1>2 DEF SessionStep, TypeOK
<1>3. ASSUME NEW r \in Txns, NEW row, tx' = [tx EXCEPT ![r] = row],
             r = t => SessionStep(t)
      PROVE  SessionStep(t)
  BY <1>0, <1>3 DEF SessionStep, TypeOK
<1>4. ASSUME NEW r \in Txns, NEW m \in PosMethods, NEW total \in Amounts,
             BeginCheckout(r, m, total)
      PROVE  SessionStep(t)
  <2> DEFINE hosted == m \in LinkMethods /\ wallet.balance < total
             row == [status |-> IF hosted THEN "PENDING" ELSE "COMPLETED",
                     cash |-> IF hosted THEN "UNPAID" ELSE cashStatusForPaymentMethod(m),
                     method |-> m, settled |-> FALSE, total |-> total]
             new == [pc |-> "read", kind |-> "posCheckout", ord |-> NoOrder,
                     seen |-> row, arg |-> "none", due |-> 0]
  <2>1. tx' = [tx EXCEPT ![r] = new] /\ order' = order /\ wallet' = wallet
    BY <1>4, Zenon DEF BeginCheckout, Begin
  <2>2. new.kind = "posCheckout" /\ new.seen = row
    OBVIOUS
  <2>3. \/ row.status = "PENDING" /\ row.cash = "UNPAID" /\ row.method \in LinkMethods
        \/ row.status = "COMPLETED" /\ row.cash # "UNPAID"
    BY NotUnpaid
  <2> HIDE DEF row, new
  <2>4. r = t => tx'[t] = new
    BY <1>0, <2>1 DEF TypeOK
  <2>5. r = t => CheckoutBegun(t)
    BY <2>2, <2>3, <2>4 DEF CheckoutBegun
  <2> QED BY <1>3, <2>1, <2>5 DEF SessionStep
<1>5. ASSUME NEW r \in Txns, NEW o \in Orders,
             \/ \E target \in StaffTargets : BeginUpdate(r, o, target)
             \/ BeginFinalize(r, o)
             \/ \E m \in DeskMethods : BeginManual(r, o, m)
             \/ BeginReconcile(r, o)
      PROVE  SessionStep(t)
  <2>1. order' = order /\ wallet' = wallet
    BY <1>5 DEF BeginUpdate, BeginFinalize, BeginManual, BeginReconcile
  <2>2. PICK row : tx' = [tx EXCEPT ![r] = row] /\ Begun(row, o)
    <3>1. ASSUME NEW target \in StaffTargets, BeginUpdate(r, o, target)
          PROVE  \E row : tx' = [tx EXCEPT ![r] = row] /\ Begun(row, o)
      <4> DEFINE row == [pc |-> "read", kind |-> "updateOrder", ord |-> o, seen |-> order[o],
                         arg |-> target, due |-> 0]
      <4>1. /\ tx' = [tx EXCEPT ![r] = row]
            /\ target \in Forward(order[o].status) \cup {order[o].status}
        BY <3>1, Zenon DEF BeginUpdate, Begin
      <4>2. Begun(row, o)
        BY <4>1 DEF Begun
      <4> QED BY <4>1, <4>2
    <3>2. ASSUME BeginFinalize(r, o)
          PROVE  \E row : tx' = [tx EXCEPT ![r] = row] /\ Begun(row, o)
      <4> DEFINE row == [pc |-> "read", kind |-> "finalizeGateway", ord |-> o, seen |-> order[o],
                         arg |-> "none", due |-> 0]
      <4>1. /\ tx' = [tx EXCEPT ![r] = row]
            /\ order[o].status \notin {"COMPLETED", "CANCELED"}
        BY <3>2, Zenon DEF BeginFinalize, Begin
      <4>2. Begun(row, o)
        BY <4>1 DEF Begun
      <4> QED BY <4>1, <4>2
    <3>3. ASSUME NEW m \in DeskMethods, BeginManual(r, o, m)
          PROVE  \E row : tx' = [tx EXCEPT ![r] = row] /\ Begun(row, o)
      <4> DEFINE row == [pc |-> "read", kind |-> "manualMark", ord |-> o, seen |-> order[o],
                         arg |-> m, due |-> IF order[o].settled THEN Remaining(o) ELSE 0]
      <4>1. tx' = [tx EXCEPT ![r] = row] /\ order[o].status \notin {"ABSENT", "CANCELED"}
        BY <3>3, Zenon DEF BeginManual, Begin
      <4>2. Begun(row, o)
        BY <4>1 DEF Begun
      <4> QED BY <4>1, <4>2
    <3>4. ASSUME BeginReconcile(r, o)
          PROVE  \E row : tx' = [tx EXCEPT ![r] = row] /\ Begun(row, o)
      <4> DEFINE row == [Idle EXCEPT !.pc = "claimed", !.kind = "autoReconcile",
                            !.ord = o, !.seen = order[o]]
      <4>1. /\ tx' = [tx EXCEPT ![r] = row] /\ order[o].total <= wallet.balance
            /\ order[o].status \notin {"ABSENT", "CANCELED"}
        BY <3>4, Zenon DEF BeginReconcile, Unlocked, Eligible
      <4>2. Begun(row, o)
        BY <4>1 DEF Begun, Idle
      <4> QED BY <4>1, <4>2
    <3> QED BY <1>5, <3>1, <3>2, <3>3, <3>4
  <2>3. r = t => Begun(tx'[t], o)
    BY <1>0, <2>2 DEF TypeOK
  <2> QED BY <1>3, <2>1, <2>2, <2>3 DEF SessionStep
<1>6. ASSUME NEW r \in Txns, ClaimCompletion(r) \/ ClaimFinalize(r) \/ ClaimManual(r)
      PROVE  SessionStep(t)
  <2>1. /\ order' = order /\ wallet' = wallet
        /\ tx' = [tx EXCEPT ![r] = [tx[r] EXCEPT !.pc = "claimed"]]
    BY <1>0, <1>6 DEF ClaimCompletion, ClaimFinalize, ClaimManual, Claimed, TypeOK
  <2>2. r = t => Locked(t)
    <3>1. r = t => tx'[t] = [tx[t] EXCEPT !.pc = "claimed"]
      BY <1>0, <2>1 DEF TypeOK
    <3>2. /\ tx[r].pc = "read" /\ tx[r].kind \in {"updateOrder", "finalizeGateway", "manualMark"}
          /\ tx[r].kind = "updateOrder" => Completes(r)
          /\ tx[r].kind = "manualMark" => tx[r].seen.settled # TRUE
      BY <1>6 DEF ClaimCompletion, ClaimFinalize, ClaimManual, At
    <3> QED BY <3>1, <3>2 DEF Locked
  <2> QED BY <1>3, <2>1, <2>2 DEF SessionStep
<1>7. ASSUME NEW r \in Txns,
             \/ \E o \in Orders : CommitHostedCheckout(r, o) \/ CommitInstantCheckout(r, o)
             \/ MoveOrder(r) \/ CommitCompletion(r) \/ LoseClaim(r) \/ CommitFinalize(r)
             \/ CommitManual(r) \/ CollectCleared(r) \/ CollectDebt(r) \/ CommitReconcile(r)
             \/ Rollback(r)
      PROVE  SessionStep(t)
  <2>1. tx' = [tx EXCEPT ![r] = Idle]
    BY <1>7, Zenon DEF CommitHostedCheckout, CommitInstantCheckout, MoveOrder, CommitCompletion, LoseClaim,
           CommitFinalize, CommitManual, CollectCleared, CollectDebt, CommitReconcile, Rollback,
           Commit, CommitUnlocked
  <2> QED BY <1>2, <2>1
<1>8. ASSUME NEW o \in Orders,
             \/ \E m \in PosMethods, total \in Amounts : CreateQuick(o, m, total)
             \/ CustomerPays(o)
      PROVE  SessionStep(t)
  BY <1>1, <1>8 DEF CreateQuick, CustomerPays
<1>9. CASE UNCHANGED vars
  BY <1>1, <1>9 DEF vars
<1> HIDE DEF SessionStep
<1> QED BY <1>4, <1>5, <1>6, <1>7, <1>8, <1>9 DEF Next

\* What a checkout inserts was decided when it began.
LEMMA AlwaysCheckoutOK == Spec => []CheckoutOK
<1>1. Init => CheckoutOK
  BY DEF Init, CheckoutOK, At, Idle
<1>2. IInv /\ CheckoutOK /\ [Next]_vars => CheckoutOK'
  <2> SUFFICES ASSUME IInv, CheckoutOK, [Next]_vars, NEW t \in Txns,
                      tx'[t].kind = "posCheckout", tx'[t].pc = "read"
               PROVE  \/ /\ tx'[t].seen.status = "PENDING" /\ tx'[t].seen.cash = "UNPAID"
                         /\ tx'[t].seen.method \in LinkMethods
                      \/ tx'[t].seen.status = "COMPLETED" /\ tx'[t].seen.cash # "UNPAID"
    BY DEF CheckoutOK, At
  <2>1. SessionStep(t)
    BY SessionSteps
  <2>2. CASE tx'[t] = tx[t]
    BY <2>2 DEF CheckoutOK, At
  <2>3. CASE tx'[t] = Idle
    BY <2>3 DEF Idle
  <2>4. CASE Locked(t)
    <3>1. tx[t] \in Session
      BY DEF IInv, TypeOK
    <3>2. tx'[t].pc = "claimed"
      BY <2>4, <3>1 DEF Locked, Session
    <3> QED BY <3>2
  <2>5. CASE CheckoutBegun(t) \/ \E o \in Orders : Begun(tx'[t], o)
    BY <2>5 DEF CheckoutBegun, Begun
  <2> QED BY <2>1, <2>2, <2>3, <2>4, <2>5 DEF SessionStep
<1> QED BY <1>1, <1>2, AlwaysIInv, PTL DEF Spec

-----------------------------------------------------------------------------
(* Sales and links, when staff do not complete orders *)

\* Staff complete no order: no session of updateOrder gets as far as the settlement.
NoDelivery ==
    \A t \in Txns : tx[t].kind = "updateOrder" =>
        tx[t].arg # "COMPLETED" /\ tx[t].pc # "claimed"

\* When COMPLETED is not among the targets of staff, nobody delivers.
LEMMA AlwaysNoDelivery ==
    ASSUME "COMPLETED" \notin StaffTargets
    PROVE  Spec => []NoDelivery
<1>1. Init => NoDelivery
  BY DEF Init, NoDelivery, Idle
<1>2. IInv /\ NoDelivery /\ [Next]_vars => NoDelivery'
  <2> SUFFICES ASSUME IInv, NoDelivery, [Next]_vars, NEW t \in Txns, tx'[t].kind = "updateOrder"
               PROVE  tx'[t].arg # "COMPLETED" /\ tx'[t].pc # "claimed"
    BY DEF NoDelivery
  <2>1. SessionStep(t) /\ tx[t] \in Session
    BY SessionSteps DEF IInv, TypeOK
  <2>2. CASE tx'[t] = tx[t]
    BY <2>2 DEF NoDelivery
  <2>3. CASE Locked(t)
    <3>1. tx'[t].kind = tx[t].kind
      BY <2>1, <2>3 DEF Locked, Session
    <3> QED BY <2>3, <3>1 DEF Locked, Completes, NoDelivery
  <2>4. CASE tx'[t] = Idle \/ CheckoutBegun(t) \/ \E o \in Orders : Begun(tx'[t], o)
    BY <2>4 DEF Idle, CheckoutBegun, Begun
  <2> QED BY <2>1, <2>2, <2>3, <2>4 DEF SessionStep
<1> QED BY <1>1, <1>2, AlwaysIInv, PTL DEF Spec

\* A settled order does not count as unpaid.
SettledIsPaid == \A o \in Orders : order[o].settled = TRUE => order[o].cash # "UNPAID"

\* As long as staff complete no order, a link order that counts as unpaid is still
\* open for its gateway callback (orders.service.ts posCheckout: "stay UNPAID until
\* provider callback confirms settlement"), whatever the desk, the reconcile job and
\* repeated callbacks do.
THEOREM LinksAwait ==
    ASSUME "COMPLETED" \notin StaffTargets
    PROVE  Spec => []LinkAwaitsGateway
<1>1. Init => SettledIsPaid
  BY DEF Init, SettledIsPaid, NoRow
<1>2. IInv /\ CheckoutOK /\ NoDelivery /\ SettledIsPaid /\ [Next]_vars => SettledIsPaid'
  <2> SUFFICES ASSUME IInv, CheckoutOK, NoDelivery, SettledIsPaid, [Next]_vars,
                      NEW o \in Orders, order'[o].settled = TRUE
               PROVE  order'[o].cash # "UNPAID"
    BY DEF SettledIsPaid
  <2>1. RowStep(o) /\ order[o] \in Row
    BY RowSteps DEF IInv, TypeOK
  <2>2. CASE Kept(o)
    BY <2>2 DEF Kept, SettledIsPaid
  <2>3. CASE Opened(o) \/ SoldAtOnce(o) \/ Reconciled(o)
    BY <2>3 DEF Opened, SoldAtOnce, Reconciled
  <2>4. ASSUME NEW t \in Txns, Moved(o, t) PROVE order'[o].cash # "UNPAID"
    <3>1. order'[o].settled = order[o].settled /\ order'[o].cash = order[o].cash
      BY <2>1, <2>4 DEF Moved, Row
    <3> QED BY <3>1 DEF SettledIsPaid
  <2>5. ASSUME NEW t \in Txns, Delivered(o, t) PROVE FALSE
    BY <2>5 DEF Delivered, NoDelivery, At
  <2>6. ASSUME NEW t \in Txns, Paid(o, t) \/ Collected(o, t) PROVE order'[o].cash # "UNPAID"
    BY <2>6 DEF Paid, Collected
  <2> QED BY <2>1, <2>2, <2>3, <2>4, <2>5, <2>6 DEF RowStep
<1>3. IInv /\ SettledIsPaid => LinkAwaitsGateway
  <2> SUFFICES ASSUME IInv, SettledIsPaid, NEW o \in Orders, order[o].cash = "UNPAID"
               PROVE  ~order[o].settled
    BY DEF LinkAwaitsGateway
  <2>1. order[o].settled \in BOOLEAN
    BY DEF IInv, TypeOK, Row
  <2>2. order[o].settled # TRUE
    BY DEF SettledIsPaid
  <2> QED BY <2>1, <2>2, Zenon
<1> QED BY <1>1, <1>2, <1>3, AlwaysIInv, AlwaysCheckoutOK, AlwaysNoDelivery, PTL DEF Spec

\* Selling and settling are one thing.
SoldIsSettled ==
    \A o \in Orders :
        /\ sales[o] = history[o] /\ stockOuts[o] = history[o]
        /\ order[o].status = "COMPLETED" => order[o].settled = TRUE
        /\ order[o].settled = FALSE => history[o] = 0
        /\ history[o] <= 1

\* A sale enters the general ledger, and its articles leave the stock, once and with
\* the settlement of its order, in every deployment in which staff complete no orders
\* and agents confirm no payments: checkouts, any number of callbacks of the gateway
\* and the reconcile job may overlap.
THEOREM SoldOnce ==
    ASSUME "COMPLETED" \notin StaffTargets, "manualMark" \notin Handlers
    PROVE  Spec => []SaleOnce
<1>1. Init => SoldIsSettled
  BY DEF Init, SoldIsSettled, NoRow
<1>2. IInv /\ CheckoutOK /\ NoDelivery /\ SoldIsSettled /\ [Next]_vars => SoldIsSettled'
  <2> DEFINE Goal(o) == /\ sales'[o] = history'[o] /\ stockOuts'[o] = history'[o]
                        /\ order'[o].status = "COMPLETED" => order'[o].settled = TRUE
                        /\ order'[o].settled = FALSE => history'[o] = 0
                        /\ history'[o] <= 1
  <2> SUFFICES ASSUME IInv, CheckoutOK, NoDelivery, SoldIsSettled, [Next]_vars, NEW o \in Orders
               PROVE  Goal(o)
    BY DEF SoldIsSettled
  <2>1. RowStep(o) /\ order[o] \in Row /\ history[o] \in Nat /\ RowOK(o)
    BY RowSteps DEF IInv, TypeOK
  <2>2. /\ sales[o] = history[o] /\ stockOuts[o] = history[o]
        /\ order[o].status = "COMPLETED" => order[o].settled = TRUE
        /\ order[o].settled = FALSE => history[o] = 0
        /\ history[o] <= 1
    BY DEF SoldIsSettled
  <2>3. ~Exists(o) => order[o].settled = FALSE
    BY <2>1 DEF RowOK
  <2>4. CASE Kept(o)
    BY <2>2, <2>4 DEF Kept, CountsKept
  <2>5. CASE Opened(o)
    BY <2>2, <2>3, <2>5 DEF Opened, CountsKept
  <2>6. CASE SoldAtOnce(o)
    BY <2>2, <2>3, <2>6 DEF SoldAtOnce, CountsUp
  <2>7. CASE Reconciled(o)
    BY <2>2, <2>7 DEF Reconciled
  <2>8. ASSUME NEW t \in Txns, Moved(o, t) PROVE Goal(o)
    <3>1. order'[o].settled = order[o].settled /\ order'[o].status = tx[t].arg
      BY <2>1, <2>8 DEF Moved, Row
    <3>2. tx[t].arg # "COMPLETED"
      BY <2>8 DEF Moved, At, NoDelivery
    <3> QED BY <2>2, <2>8, <3>1, <3>2 DEF Moved, CountsKept
  <2>9. ASSUME NEW t \in Txns, Delivered(o, t) PROVE FALSE
    BY <2>9 DEF Delivered, NoDelivery, At
  <2>10. ASSUME NEW t \in Txns, Paid(o, t) \/ Collected(o, t) PROVE Goal(o)
    BY <2>2, <2>10 DEF Paid, Collected, CountsUp
  <2> QED BY <2>1, <2>4, <2>5, <2>6, <2>7, <2>8, <2>9, <2>10 DEF RowStep
<1>3. IInv /\ SoldIsSettled => SaleOnce
  BY DEF SoldIsSettled, SaleOnce, IInv, TypeOK
<1> QED BY <1>1, <1>2, <1>3, AlwaysIInv, AlwaysCheckoutOK, AlwaysNoDelivery, PTL DEF Spec

-----------------------------------------------------------------------------
(* One session: requests and jobs run one after the other *)

OneAtATime == \A s, r \in Txns : s = r

\* What the session at work has read is still so.
SeenOK(t) ==
    LET s == tx[t]
    IN  s.pc # "idle" /\ s.kind # "posCheckout" =>
        /\ s.seen = order[s.ord]
        /\ s.kind = "updateOrder" => s.arg \in Forward(s.seen.status) \cup {s.seen.status}
        /\ s.kind = "updateOrder" /\ s.pc = "claimed" => Completes(t)
        /\ s.kind = "finalizeGateway" => s.seen.status \notin {"COMPLETED", "CANCELED"}
        /\ s.kind = "manualMark" => s.seen.status # "CANCELED"
        /\ s.kind = "manualMark" /\ s.pc = "claimed" => s.seen.settled # TRUE
        /\ s.kind = "autoReconcile" =>
              s.seen.status \notin {"ABSENT", "CANCELED"} /\ s.seen.total <= wallet.balance

\* Completed and settled mean the same, and only completed orders were sold.
ClosedOK ==
    \A o \in Orders :
        /\ order[o].status = "COMPLETED" <=> order[o].settled = TRUE
        /\ sales[o] > 0 => order[o].status = "COMPLETED"

SerialInv == (\A t \in Txns : SeenOK(t)) /\ ClosedOK /\ SaleOnce

\* The wallet a settlement leaves: what is owed with the invoice, less what was paid.
LEMMA SettlementWallet ==
    ASSUME NEW o, NEW total, NEW m, NEW declared, NEW trigger
    PROVE  LET w == Settlement(o, total, m, declared, trigger).wallet
           IN  w = [balance |-> w.balance, debt |-> w.debt]
BY DEF Settlement

\* The debt a settlement leaves.
LEMMA SettlementDebt ==
    ASSUME NEW o, NEW total, NEW m, NEW declared, NEW trigger,
           DebtWithInvoice(total, m) \in Nat, Paydown(total, m, declared) \in Nat
    PROVE  Settlement(o, total, m, declared, trigger).wallet.debt =
               IF DebtWithInvoice(total, m) > Paydown(total, m, declared)
               THEN DebtWithInvoice(total, m) - Paydown(total, m, declared) ELSE 0
BY DEF Settlement

\* Nothing follows a terminal status.
LEMMA ForwardTerminal ==
    ASSUME NEW s, NEW x \in Forward(s)
    PROVE  s \notin {"COMPLETED", "CANCELED"}
BY DEF Forward

\* A step that is not of the session at work leaves the orders and the balance alone.
LEMMA NobodyElse ==
    ASSUME OneAtATime, IInv, [Next]_vars, NEW t \in Txns, tx[t].pc # "idle", tx'[t] = tx[t]
    PROVE  /\ \A o \in Orders : Exists(o) => order'[o] = order[o]
           /\ wallet'.balance = wallet.balance
<1> DEFINE Goal == /\ \A o \in Orders : Exists(o) => order'[o] = order[o]
                   /\ wallet'.balance = wallet.balance
<1>0. TypeOK /\ tx[t] \in Session /\ \A r \in Txns : r = t
  BY DEF IInv, TypeOK, OneAtATime
<1>1. ASSUME UNCHANGED <<order, wallet>> PROVE Goal
  BY <1>1
<1>2. ASSUME NEW o \in Orders, NEW m \in PosMethods, NEW total \in Amounts, CreateQuick(o, m, total)
      PROVE  Goal
  <2> DEFINE row == [status |-> "PENDING", cash |-> "UNPAID", method |-> m,
                     settled |-> FALSE, total |-> total]
  <2>1. ~Exists(o) /\ order' = [order EXCEPT ![o] = row] /\ RegisterReceivable(o, row)
    BY <1>2 DEF CreateQuick, IsNext
  <2> HIDE DEF row
  <2>2. \A p \in Orders : Exists(p) => order'[p] = order[p]
    BY <1>0, <2>1 DEF TypeOK
  <2>3. wallet'.balance = wallet.balance
    BY <1>0, <2>1 DEF RegisterReceivable, TypeOK
  <2> QED BY <2>2, <2>3
<1>3. ASSUME NEW r \in Txns,
             \/ \E o \in Orders : CommitHostedCheckout(r, o) \/ CommitInstantCheckout(r, o)
             \/ MoveOrder(r) \/ CommitCompletion(r) \/ LoseClaim(r) \/ CommitFinalize(r)
             \/ CommitManual(r) \/ CollectCleared(r) \/ CollectDebt(r) \/ CommitReconcile(r)
             \/ Rollback(r)
      PROVE  Goal
  <2>1. tx' = [tx EXCEPT ![r] = Idle]
    BY <1>3, Zenon DEF CommitHostedCheckout, CommitInstantCheckout, MoveOrder, CommitCompletion, LoseClaim,
           CommitFinalize, CommitManual, CollectCleared, CollectDebt, CommitReconcile, Rollback,
           Commit, CommitUnlocked
  <2>2. tx'[t] = Idle
    BY <1>0, <2>1 DEF TypeOK
  <2> QED BY <2>2 DEF Idle
<1>4. ASSUME NEW r \in Txns, NEW o \in Orders,
             \/ \E target \in StaffTargets : BeginUpdate(r, o, target)
             \/ BeginFinalize(r, o)
             \/ \E m \in DeskMethods : BeginManual(r, o, m)
             \/ BeginReconcile(r, o)
      PROVE  Goal
  <2>1. tx[r].pc = "idle"
    BY <1>4, Zenon DEF BeginUpdate, BeginFinalize, BeginManual, BeginReconcile, Begin
  <2> QED BY <1>0, <2>1
<1>8. ASSUME NEW r \in Txns, NEW m \in PosMethods, NEW total \in Amounts,
             BeginCheckout(r, m, total)
      PROVE  Goal
  BY <1>0, <1>8, Zenon DEF BeginCheckout, Begin
<1>5. ASSUME NEW r \in Txns, ClaimCompletion(r) \/ ClaimFinalize(r) \/ ClaimManual(r)
      PROVE  Goal
  BY <1>5, <1>1 DEF ClaimCompletion, ClaimFinalize, ClaimManual
<1>6. ASSUME NEW o \in Orders, CustomerPays(o) PROVE Goal
  BY <1>6, <1>1 DEF CustomerPays
<1>7. ASSUME UNCHANGED vars PROVE Goal
  BY <1>7, <1>1 DEF vars
<1> HIDE DEF Goal
<1>9. Goal
  <2>1. CASE \E o \in Orders : \/ \E m \in PosMethods, total \in Amounts : CreateQuick(o, m, total)
                             \/ CustomerPays(o)
    BY <1>2, <1>6, <2>1
  <2>2. ASSUME NEW r \in Txns,
               \/ \E m \in PosMethods, total \in Amounts : BeginCheckout(r, m, total)
               \/ \E o \in Orders : \/ \E target \in StaffTargets : BeginUpdate(r, o, target)
                                    \/ BeginFinalize(r, o)
                                    \/ \E m \in DeskMethods : BeginManual(r, o, m)
                                    \/ BeginReconcile(r, o)
               \/ ClaimCompletion(r) \/ ClaimFinalize(r) \/ ClaimManual(r)
        PROVE  Goal
    BY <1>4, <1>5, <1>8, <2>2
  <2> QED BY <1>3, <1>7, <2>1, <2>2 DEF Next
<1> QED BY <1>9 DEF Goal

\* What the session at work has read stays so until it ends.
LEMMA SeenKept ==
    ASSUME OneAtATime, IInv, [Next]_vars, NEW t \in Txns, SeenOK(t)
    PROVE  SeenOK(t)'
<1>0. TypeOK /\ tx[t] \in Session /\ SessionOK(t) /\ SessionStep(t)
  BY SessionSteps DEF IInv, TypeOK
<1>1. CASE tx'[t] = Idle
  BY <1>1 DEF SeenOK, Idle
<1>2. CASE tx'[t] = tx[t]
  <2> SUFFICES ASSUME tx[t].pc # "idle", tx[t].kind # "posCheckout" PROVE SeenOK(t)'
    BY <1>2 DEF SeenOK
  <2>1. Exists(tx[t].ord) /\ tx[t].ord \in Orders
    BY <1>0 DEF SessionOK
  <2>2. order'[tx[t].ord] = order[tx[t].ord] /\ wallet'.balance = wallet.balance
    BY <1>2, <2>1, NobodyElse
  <2> QED BY <1>2, <2>2 DEF SeenOK, Completes
<1>3. CASE CheckoutBegun(t)
  BY <1>3 DEF CheckoutBegun, SeenOK
<1>4. ASSUME order' = order, wallet' = wallet, NEW o \in Orders, Begun(tx'[t], o)
      PROVE  SeenOK(t)'
  <2>1. tx'[t].seen = order'[o] /\ tx'[t].ord = o /\ wallet'.balance = wallet.balance
    BY <1>4 DEF Begun
  <2> QED BY <1>4, <2>1 DEF Begun, SeenOK
<1>5. CASE Locked(t) /\ order' = order /\ wallet' = wallet
  <2>1. /\ tx'[t].kind = tx[t].kind /\ tx'[t].ord = tx[t].ord /\ tx'[t].seen = tx[t].seen
        /\ tx'[t].arg = tx[t].arg /\ tx[t].pc # "idle" /\ wallet'.balance = wallet.balance
    BY <1>0, <1>5 DEF Locked, Session
  <2> QED BY <1>5, <2>1 DEF SeenOK, Locked, Completes
<1> QED BY <1>0, <1>1, <1>2, <1>3, <1>4, <1>5 DEF SessionStep

\* With one session, closed orders stay closed and a sale is booked once.
LEMMA SerialStep ==
    ASSUME OneAtATime, IInv, CheckoutOK, SerialInv, [Next]_vars, NEW o \in Orders
    PROVE  /\ order'[o].status = "COMPLETED" <=> order'[o].settled = TRUE
           /\ sales'[o] > 0 => order'[o].status = "COMPLETED"
           /\ sales'[o] <= 1 /\ stockOuts'[o] <= sales'[o]
           /\ sales'[o] = 1 => history'[o] >= 1
           /\ order[o].status \in {"COMPLETED", "CANCELED"} => order'[o].status = order[o].status
<1> DEFINE Goal == /\ order'[o].status = "COMPLETED" <=> order'[o].settled = TRUE
                   /\ sales'[o] > 0 => order'[o].status = "COMPLETED"
                   /\ sales'[o] <= 1 /\ stockOuts'[o] <= sales'[o]
                   /\ sales'[o] = 1 => history'[o] >= 1
                   /\ order[o].status \in {"COMPLETED", "CANCELED"}
                         => order'[o].status = order[o].status
<1>0. /\ RowStep(o) /\ order[o] \in Row /\ order[o].settled \in BOOLEAN
      /\ sales[o] \in Nat /\ history[o] \in Nat /\ stockOuts[o] \in Nat
  BY RowSteps DEF IInv, TypeOK, Row
<1>1. /\ order[o].status = "COMPLETED" <=> order[o].settled = TRUE
      /\ sales[o] > 0 => order[o].status = "COMPLETED"
      /\ sales[o] <= 1 /\ stockOuts[o] <= sales[o]
      /\ sales[o] = 1 => history[o] >= 1
  BY DEF SerialInv, ClosedOK, SaleOnce
<1>2. CASE Kept(o)
  BY <1>1, <1>2 DEF Kept, CountsKept
<1>3. CASE Opened(o)
  BY <1>0, <1>1, <1>3 DEF Opened, CountsKept, Exists
<1>4. CASE SoldAtOnce(o)
  BY <1>0, <1>1, <1>4 DEF SoldAtOnce, CountsUp, Exists
<1>5. CASE Reconciled(o)
  <2>1. order[o].status # "COMPLETED" /\ sales[o] = 0 /\ stockOuts[o] = 0
    BY <1>0, <1>1, <1>5 DEF Reconciled
  <2>2. order[o].status # "CANCELED"
    <3>1. ASSUME NEW t \in Txns, At(t, "autoReconcile", "claimed"), tx[t].ord = o
          PROVE  order[o].status # "CANCELED"
      BY <3>1 DEF SerialInv, SeenOK, At
    <3> QED BY <1>5, <3>1 DEF Reconciled
  <2> QED BY <1>0, <1>5, <2>1, <2>2 DEF Reconciled
<1>6. ASSUME NEW t \in Txns, Moved(o, t) PROVE Goal
  <2>1. /\ order'[o].settled = order[o].settled /\ order'[o].status = tx[t].arg
    BY <1>0, <1>6 DEF Moved, Row
  <2>2. /\ tx[t].arg = "COMPLETED" => order[o].status = "COMPLETED"
        /\ tx[t].arg \in Forward(order[o].status) \cup {order[o].status}
    BY <1>6 DEF Moved, At, SerialInv, SeenOK, Completes
  <2>3. order[o].status \in {"COMPLETED", "CANCELED"} => tx[t].arg = order[o].status
    BY <2>2, ForwardTerminal
  <2> QED BY <1>1, <1>6, <2>1, <2>2, <2>3 DEF Moved, CountsKept
<1>7. ASSUME NEW t \in Txns, Delivered(o, t) PROVE Goal
  <2>1. /\ tx[t].seen = order[o] /\ order[o].status # "COMPLETED"
        /\ "COMPLETED" \in Forward(order[o].status)
    BY <1>7 DEF Delivered, At, SerialInv, SeenOK, Completes
  <2>2. order[o].status \notin {"COMPLETED", "CANCELED"}
    BY <2>1, ForwardTerminal
  <2>3. order[o].settled = FALSE /\ sales[o] = 0 /\ stockOuts[o] = 0
    BY <1>0, <1>1, <2>1
  <2>4. order'[o].settled = TRUE
    <3>1. order'[o].settled = (order[o].settled \/ ~order[o].settled)
      BY <1>7, <2>1, Zenon DEF Delivered
    <3> QED BY <2>3, <3>1
  <2>5. history'[o] = history[o] + 1
    BY <1>7, <2>1, <2>3 DEF Delivered
  <2> QED BY <1>0, <1>7, <2>2, <2>3, <2>4, <2>5 DEF Delivered
<1>8. ASSUME NEW t \in Txns, Paid(o, t) PROVE Goal
  <2>1. order[o].status \notin {"COMPLETED", "CANCELED"}
    BY <1>0, <1>1, <1>8 DEF Paid, At, SerialInv, SeenOK
  <2> QED BY <1>0, <1>1, <1>8, <2>1 DEF Paid, CountsUp
<1>9. ASSUME NEW t \in Txns, Collected(o, t) PROVE Goal
  BY <1>1, <1>9 DEF Collected, CountsKept
<1>10. Goal
  BY <1>0, <1>2, <1>3, <1>4, <1>5, <1>6, <1>7, <1>8, <1>9 DEF RowStep
<1> QED BY <1>10

\* The invariant of a single session.
LEMMA AlwaysSerialInv == ASSUME OneAtATime PROVE Spec => []SerialInv
<1>1. Init => SerialInv
  <2> SUFFICES ASSUME Init PROVE SerialInv
    OBVIOUS
  <2>1. \A t \in Txns : SeenOK(t)
    BY DEF Init, SeenOK, Idle
  <2>2. ClosedOK /\ SaleOnce
    BY DEF Init, ClosedOK, SaleOnce, NoRow
  <2> QED BY <2>1, <2>2 DEF SerialInv
<1>2. IInv /\ CheckoutOK /\ SerialInv /\ [Next]_vars => SerialInv'
  <2> SUFFICES ASSUME IInv, CheckoutOK, SerialInv, [Next]_vars PROVE SerialInv'
    OBVIOUS
  <2>1. \A t \in Txns : SeenOK(t)'
    BY SeenKept DEF SerialInv
  <2>2. ClosedOK' /\ SaleOnce'
    BY SerialStep DEF ClosedOK, SaleOnce
  <2> QED BY <2>1, <2>2 DEF SerialInv
<1> QED BY <1>1, <1>2, AlwaysIInv, AlwaysCheckoutOK, PTL DEF Spec

\* When requests and jobs run one after the other, with failures in between, no
\* handler moves an order out of COMPLETED or CANCELED
\* (order-status.machine.ts assertOrderStatusTransition).
THEOREM StatusFinal == ASSUME OneAtATime PROVE Spec => TerminalIsFinal
<1>1. IInv /\ CheckoutOK /\ SerialInv /\ [Next]_vars
        => [\A o \in Orders : order[o].status \in {"COMPLETED", "CANCELED"}
              => order'[o].status = order[o].status]_vars
  BY SerialStep
<1> QED BY <1>1, AlwaysIInv, AlwaysCheckoutOK, AlwaysSerialInv, PTL DEF Spec, TerminalIsFinal

\* When requests run one after the other, a sale is booked once and only with a
\* settlement, whichever handlers are deployed: checkout, delivery, gateway,
\* agents and the reconcile job recognise what another one has done.
THEOREM SoldOnceInTurn == ASSUME OneAtATime PROVE Spec => []SaleOnce
<1>1. SerialInv => SaleOnce
  BY DEF SerialInv
<1> QED BY <1>1, AlwaysSerialInv, PTL

\* When requests run one after the other, the reconcile job pays an invoice in full
\* from the prepaid balance or not at all: its check is still true when it draws
\* (customer-ledger.service.ts autoReconcileUnpaidInvoicesFromPrepaidBalanceTx).
THEOREM ReconcileInFull == ASSUME OneAtATime PROVE Spec => ReconcilePaysInFull
<1> DEFINE A == \A t \in Txns : (At(t, "autoReconcile", "claimed") /\ tx'[t] = Idle)
                    => wallet'.debt <= wallet.debt
<1>1. IInv /\ SerialInv /\ [Next]_vars => [A]_vars
  <2> SUFFICES ASSUME IInv, SerialInv, [Next]_vars, NEW t \in Txns,
                      At(t, "autoReconcile", "claimed"), tx'[t] = Idle
               PROVE  wallet'.debt <= wallet.debt
    OBVIOUS
  <2>0. /\ TypeOK /\ SessionOK(t) /\ \A r \in Txns : r = t
        /\ wallet.debt \in Nat /\ wallet.balance \in Nat /\ tx[t].pc = "claimed"
        /\ tx[t].kind = "autoReconcile" /\ tx'[t] # tx[t]
    BY DEF IInv, TypeOK, OneAtATime, At, Idle
  <2> DEFINE o == tx[t].ord
             total == order[o].total
             first == Settlement(o, total, "SUBSCRIPTION_WALLET", FALSE, "WALLET_SETTLEMENT")
  <2>1. CASE CommitReconcile(t)
    <3>1. o \in Orders /\ total \in Nat /\ total <= wallet.balance
      BY <2>0 DEF SessionOK, SerialInv, SeenOK, TypeOK, Row
    <3>2. PICK spent : wallet' = [first.wallet EXCEPT !.balance = @ - spent]
      BY <2>1 DEF CommitReconcile
    <3> HIDE DEF total, o
    <3>3. Take(total, "SUBSCRIPTION_WALLET") = total
      BY <2>0, <3>1 DEF Take, Least, WalletMethods
    <3>4. DebtWithInvoice(total, "SUBSCRIPTION_WALLET") = wallet.debt
      BY <2>0, <3>1, <3>3 DEF DebtWithInvoice, ExternalMethods, LinkMethods
    <3>5. first.wallet.debt = wallet.debt
      <4> DEFINE d == FALSE
      <4>1. Paydown(total, "SUBSCRIPTION_WALLET", d) = 0
        BY DEF Paydown
      <4>2. d \in BOOLEAN
        OBVIOUS
      <4> HIDE DEF d
      <4>3. Settlement(o, total, "SUBSCRIPTION_WALLET", d, "WALLET_SETTLEMENT").wallet.debt = wallet.debt
        BY <2>0, <3>4, <4>1, SettlementDebt
      <4> QED BY <4>3 DEF d
    <3>6. wallet'.debt = first.wallet.debt
      <4>1. first.wallet = [balance |-> first.wallet.balance, debt |-> first.wallet.debt]
        BY SettlementWallet DEF first
      <4> HIDE DEF first
      <4> QED BY <3>2, <4>1
    <3> HIDE DEF first
    <3> QED BY <2>0, <3>5, <3>6
  <2>2. CASE Rollback(t)
    BY <2>0, <2>2 DEF Rollback
  <2>3. ASSUME ~CommitReconcile(t), ~Rollback(t) PROVE FALSE
    <3>1. ASSUME NEW r \in Txns,
                 \/ \E p \in Orders : CommitHostedCheckout(r, p) \/ CommitInstantCheckout(r, p)
                 \/ MoveOrder(r) \/ CommitCompletion(r) \/ ClaimCompletion(r)
                 \/ ClaimFinalize(r) \/ LoseClaim(r) \/ CommitFinalize(r)
                 \/ ClaimManual(r) \/ CommitManual(r) \/ CollectCleared(r) \/ CollectDebt(r)
          PROVE  FALSE
      <4>1. tx[r].kind # "autoReconcile"
        BY <3>1 DEF CommitHostedCheckout, CommitInstantCheckout, MoveOrder, CommitCompletion,
               ClaimCompletion, ClaimFinalize, LoseClaim, CommitFinalize, ClaimManual, CommitManual,
               CollectCleared, CollectDebt, At
      <4> QED BY <2>0, <4>1
    <3>2. ASSUME NEW r \in Txns,
                 \/ \E m \in PosMethods, n \in Amounts : BeginCheckout(r, m, n)
                 \/ \E p \in Orders : \/ \E target \in StaffTargets : BeginUpdate(r, p, target)
                                      \/ BeginFinalize(r, p)
                                      \/ \E m \in DeskMethods : BeginManual(r, p, m)
                                      \/ BeginReconcile(r, p)
          PROVE  FALSE
      <4>1. tx[r].pc = "idle"
        BY <3>2, Zenon DEF BeginCheckout, BeginUpdate, BeginFinalize, BeginManual, BeginReconcile, Begin
      <4> QED BY <2>0, <4>1
    <3>3. tx' # tx
      BY <2>0
    <3>4. ~UNCHANGED vars
      BY <3>3 DEF vars
    <3>5. ASSUME NEW p \in Orders,
                 \/ \E m \in PosMethods, n \in Amounts : CreateQuick(p, m, n)
                 \/ CustomerPays(p)
          PROVE  FALSE
      BY <3>3, <3>5 DEF CreateQuick, CustomerPays
    <3> QED BY <2>0, <2>3, <3>1, <3>2, <3>4, <3>5 DEF Next
  <2> QED BY <2>1, <2>2, <2>3
<1> QED BY <1>1, AlwaysIInv, AlwaysSerialInv, PTL DEF Spec, ReconcilePaysInFull

-----------------------------------------------------------------------------
(* The journal, when neither the desk nor the reconcile job is at work *)

NoDesk == Handlers \cap {"manualMark", "autoReconcile"} = {}

\* No order is created or settled and no account moves.
NothingBooked ==
    /\ wallet' = wallet /\ journal' = journal /\ ar' = ar
    /\ \A o \in Orders : /\ Exists(o)' <=> Exists(o)
                         /\ order'[o].method = order[o].method
                         /\ order'[o].settled = order[o].settled
                         /\ order'[o].total = order[o].total

\* A new order that waits for its payment; a link order is owed at once.
Awaited(o, row) ==
    /\ ~Exists(o) /\ row.status = "PENDING" /\ row.settled = FALSE
    /\ "createQuick" \notin Handlers => row.method \in LinkMethods
    /\ row.method \in PosMethods \cup LinkMethods
    /\ RegisterReceivable(o, row)

\* A new order that is sold and settled at once.
SoldNew(o, row) ==
    /\ ~Exists(o) /\ row.status = "COMPLETED" /\ row.settled = TRUE
    /\ Settle(o, row.total, row.method, FALSE, "WALLET_SETTLEMENT")

\* A delivered order is settled by the method it has.
ClosedByDriver(o, row) ==
    /\ Exists(o) /\ row.status = "COMPLETED" /\ row.method = order[o].method
    /\ \E t \in Txns : At(t, "updateOrder", "claimed")
    /\ Settle(o, order[o].total, order[o].method, FALSE, "WALLET_SETTLEMENT")

\* The gateway captured the payment of an open order.
ClosedByGateway(o, row) ==
    /\ Exists(o) /\ order[o].settled = FALSE
    /\ row.status = "COMPLETED" /\ row.method = "ONLINE" /\ row.settled = TRUE
    /\ Settle(o, order[o].total, "ONLINE", TRUE, "PAYMENT_LINK_CALLBACK")

BookStep ==
    \/ NothingBooked
    \/ \E o \in Orders, row \in Row :
        /\ order' = [order EXCEPT ![o] = row]
        /\ Awaited(o, row) \/ SoldNew(o, row) \/ ClosedByDriver(o, row) \/ ClosedByGateway(o, row)

\* Steps that leave the rows and the books alone.
LEMMA QuietStep ==
    ASSUME UNCHANGED <<order, wallet, books>>
    PROVE  NothingBooked
BY DEF NothingBooked, books, Exists

\* The steps that create an order, seen by the journal.
LEMMA BooksOfNewOrder ==
    ASSUME IInv, CheckoutOK, NEW o \in Orders,
           \/ \E m \in PosMethods, total \in Amounts : CreateQuick(o, m, total)
           \/ \E t \in Txns : CommitHostedCheckout(t, o) \/ CommitInstantCheckout(t, o)
    PROVE  BookStep
<1>0. TypeOK /\ \A t \in Txns : SessionOK(t) /\ tx[t].seen \in Row
  BY DEF IInv, TypeOK, Session
<1>1. ASSUME NEW m \in PosMethods, NEW total \in Amounts, CreateQuick(o, m, total)
      PROVE  BookStep
  <2> DEFINE row == [status |-> "PENDING", cash |-> "UNPAID", method |-> m,
                     settled |-> FALSE, total |-> total]
  <2>1. /\ ~Exists(o) /\ order' = [order EXCEPT ![o] = row] /\ RegisterReceivable(o, row)
        /\ "createQuick" \in Handlers
    BY <1>1 DEF CreateQuick, IsNext
  <2>2. row.status = "PENDING" /\ row.settled = FALSE /\ row.method \in PosMethods
    OBVIOUS
  <2>3. row \in Row
    BY ConstantsAssumption DEF Row, Status, CashStatus
  <2> HIDE DEF row
  <2>4. Awaited(o, row)
    BY <2>1, <2>2 DEF Awaited
  <2> QED BY <2>1, <2>3, <2>4 DEF BookStep
<1>2. ASSUME NEW t \in Txns, CommitHostedCheckout(t, o) PROVE BookStep
  <2>1. /\ ~Exists(o) /\ order' = [order EXCEPT ![o] = tx[t].seen]
        /\ RegisterReceivable(o, tx[t].seen)
        /\ At(t, "posCheckout", "read") /\ tx[t].seen.status = "PENDING"
    BY <1>2 DEF CommitHostedCheckout, IsNext
  <2>2. tx[t].seen.settled = FALSE /\ tx[t].seen.method \in LinkMethods
    BY <1>0, <2>1 DEF SessionOK, CheckoutOK, At
  <2>3. Awaited(o, tx[t].seen)
    BY <2>1, <2>2 DEF Awaited
  <2> QED BY <1>0, <2>1, <2>3 DEF BookStep
<1>3. ASSUME NEW t \in Txns, CommitInstantCheckout(t, o) PROVE BookStep
  <2> DEFINE row == [tx[t].seen EXCEPT !.settled = TRUE]
  <2>1. /\ ~Exists(o) /\ order' = [order EXCEPT ![o] = row] /\ tx[t].seen.status = "COMPLETED"
        /\ Settle(o, tx[t].seen.total, tx[t].seen.method, FALSE, "WALLET_SETTLEMENT")
    BY <1>3 DEF CommitInstantCheckout, IsNext
  <2>2. /\ row \in Row /\ row.settled = TRUE /\ row.status = "COMPLETED"
        /\ row.total = tx[t].seen.total /\ row.method = tx[t].seen.method
    BY <1>0, <2>1 DEF Row
  <2> HIDE DEF row
  <2>3. SoldNew(o, row)
    BY <2>1, <2>2, Zenon DEF SoldNew
  <2> QED BY <2>1, <2>2, <2>3 DEF BookStep
<1> QED BY <1>1, <1>2, <1>3

\* The steps of updateOrder, seen by the journal.
LEMMA BooksOfUpdate ==
    ASSUME IInv, NEW t \in Txns, MoveOrder(t) \/ CommitCompletion(t)
    PROVE  BookStep
<1> DEFINE p == tx[t].ord
<1>0. /\ TypeOK /\ SessionOK(t) /\ p \in Orders /\ Exists(p)
      /\ order[p] \in Row /\ tx[t].seen \in Row
  BY DEF IInv, MoveOrder, CommitCompletion, At, SessionOK, TypeOK, Session
<1>2. CASE MoveOrder(t)
  <2>1. /\ order' = [order EXCEPT ![p] = [order[p] EXCEPT !.status = tx[t].arg]]
        /\ wallet' = wallet /\ journal' = journal /\ ar' = ar
        /\ tx[t].arg \in Status
    BY <1>2, <1>0 DEF MoveOrder, TypeOK, books, SessionOK, At
  <2>2. \A o \in Orders : o # p => order'[o] = order[o]
    BY <1>0, <2>1 DEF TypeOK
  <2>3. order'[p] = [order[p] EXCEPT !.status = tx[t].arg]
    BY <1>0, <2>1 DEF TypeOK
  <2>4. /\ order'[p].method = order[p].method /\ order'[p].settled = order[p].settled
        /\ order'[p].total = order[p].total /\ order'[p].status # "ABSENT"
    BY <1>0, <2>1, <2>3 DEF Row, Status
  <2>5. NothingBooked
    BY <1>0, <2>1, <2>2, <2>4 DEF NothingBooked, Exists
  <2> QED BY <2>5 DEF BookStep
<1>3. CASE CommitCompletion(t)
  <2> DEFINE cash == IF tx[t].seen.cash = "UNPAID" /\ tx[t].seen.method \notin LinkMethods
                     THEN cashStatusForPaymentMethod(tx[t].seen.method)
                     ELSE order[p].cash
             row == [order[p] EXCEPT !.status = "COMPLETED", !.cash = cash,
                                     !.settled = @ \/ ~tx[t].seen.settled]
  <2>1. /\ At(t, "updateOrder", "claimed")
        /\ order' = [order EXCEPT ![p] = row]
        /\ IF tx[t].seen.settled \/ order[p].settled
           THEN NoSettlement
           ELSE Settle(p, order[p].total, order[p].method, FALSE, "WALLET_SETTLEMENT")
    BY <1>3, Zenon DEF CommitCompletion
  <2>2. /\ row.status = "COMPLETED" /\ row.method = order[p].method /\ row.total = order[p].total
        /\ row.settled = (order[p].settled \/ ~tx[t].seen.settled)
        /\ row \in Row
    <3>1. cash \in CashStatus
      BY <1>0, CashStatusType DEF Row
    <3> HIDE DEF cash
    <3> QED BY <1>0, <3>1 DEF Row, Status
  <2> HIDE DEF row, cash
  <2>3. CASE tx[t].seen.settled \/ order[p].settled
    <3>1. wallet' = wallet /\ journal' = journal /\ ar' = ar
      <4>1. NoSettlement
        BY <2>1, <2>3, Zenon
      <4> QED BY <4>1 DEF NoSettlement, books
    <3>2. row.settled = order[p].settled
      <4>1. order[p].settled \in BOOLEAN /\ tx[t].seen.settled \in BOOLEAN
        BY <1>0 DEF Row
      <4> QED BY <2>2, <2>3, <4>1
    <3>3. \A o \in Orders : o # p => order'[o] = order[o]
      BY <1>0, <2>1 DEF TypeOK
    <3>4. order'[p] = row
      BY <1>0, <2>1 DEF TypeOK
    <3>5. NothingBooked
      BY <1>0, <2>2, <3>1, <3>2, <3>3, <3>4 DEF NothingBooked, Exists
    <3> QED BY <3>5 DEF BookStep
  <2>4. CASE ~(tx[t].seen.settled \/ order[p].settled)
    <3>1. Settle(p, order[p].total, order[p].method, FALSE, "WALLET_SETTLEMENT")
      BY <2>1, <2>4, Zenon
    <3>2. ClosedByDriver(p, row)
      BY <1>0, <2>1, <2>2, <3>1, Zenon DEF ClosedByDriver
    <3> QED BY <1>0, <2>1, <2>2, <3>2 DEF BookStep
  <2> QED BY <2>3, <2>4
<1> QED BY <1>2, <1>3

\* The gateway's step, seen by the journal.
LEMMA BooksOfGateway ==
    ASSUME IInv, NEW t \in Txns, CommitFinalize(t)
    PROVE  BookStep
<1> DEFINE p == tx[t].ord
           row == [order[p] EXCEPT !.status = "COMPLETED",
                        !.cash = cashStatusForPaymentMethod("ONLINE"),
                        !.method = "ONLINE", !.settled = TRUE]
<1>0. /\ TypeOK /\ SessionOK(t) /\ p \in Orders /\ Exists(p)
      /\ order[p] \in Row /\ order[p].settled = FALSE
  BY DEF IInv, CommitFinalize, At, SessionOK, TypeOK
<1>1. /\ order' = [order EXCEPT ![p] = row]
      /\ Settle(p, order[p].total, "ONLINE", TRUE, "PAYMENT_LINK_CALLBACK")
  BY DEF CommitFinalize
<1>2. row \in Row /\ row.status = "COMPLETED" /\ row.method = "ONLINE" /\ row.settled = TRUE
  <2>1. cashStatusForPaymentMethod("ONLINE") \in CashStatus
    BY CashStatusType
  <2> QED BY <1>0, <2>1 DEF Row, Status, Methods, ExternalMethods, LinkMethods
<1> HIDE DEF row
<1>3. ClosedByGateway(p, row)
  BY <1>0, <1>1, <1>2, Zenon DEF ClosedByGateway
<1> QED BY <1>0, <1>1, <1>2, <1>3 DEF BookStep

\* Every step, seen by the journal.
LEMMA BookSteps ==
    ASSUME NoDesk, IInv, CheckoutOK, [Next]_vars
    PROVE  BookStep
<1>0. \A t \in Txns : SessionOK(t)
  BY DEF IInv
<1>1. ASSUME UNCHANGED <<order, wallet, books>> PROVE BookStep
  BY <1>1, QuietStep DEF BookStep
<1>2. ASSUME NEW o \in Orders,
             \/ \E m \in PosMethods, total \in Amounts : CreateQuick(o, m, total)
             \/ \E t \in Txns : CommitHostedCheckout(t, o) \/ CommitInstantCheckout(t, o)
      PROVE  BookStep
  BY <1>2, BooksOfNewOrder
<1>3. ASSUME NEW t \in Txns, MoveOrder(t) \/ CommitCompletion(t) PROVE BookStep
  BY <1>3, BooksOfUpdate
<1>4. ASSUME NEW t \in Txns, CommitFinalize(t) PROVE BookStep
  BY <1>4, BooksOfGateway
<1>5. ASSUME NEW t \in Txns,
             CommitManual(t) \/ CollectCleared(t) \/ CollectDebt(t) \/ CommitReconcile(t)
      PROVE  FALSE
  BY <1>0, <1>5 DEF NoDesk, SessionOK, CommitManual, CollectCleared, CollectDebt, CommitReconcile, At
<1>6. ASSUME NEW t \in Txns,
             \/ \E m \in PosMethods, total \in Amounts : BeginCheckout(t, m, total)
             \/ \E o \in Orders : \/ \E target \in StaffTargets : BeginUpdate(t, o, target)
                                  \/ BeginFinalize(t, o)
                                  \/ \E m \in DeskMethods : BeginManual(t, o, m)
                                  \/ BeginReconcile(t, o)
             \/ ClaimCompletion(t) \/ ClaimFinalize(t) \/ LoseClaim(t) \/ ClaimManual(t) \/ Rollback(t)
      PROVE  BookStep
  <2>1. UNCHANGED <<order, wallet, books>>
    BY <1>6, Zenon DEF BeginCheckout, BeginUpdate, BeginFinalize, BeginManual, BeginReconcile,
           ClaimCompletion, ClaimFinalize, LoseClaim, ClaimManual, Rollback, books
  <2> QED BY <1>1, <2>1
<1>7. ASSUME NEW o \in Orders, CustomerPays(o) PROVE BookStep
  BY <1>7, <1>1 DEF CustomerPays
<1>8. ASSUME UNCHANGED vars PROVE BookStep
  BY <1>8, <1>1 DEF vars
<1> QED BY <1>2, <1>3, <1>4, <1>5, <1>6, <1>7, <1>8 DEF Next

\* The entries that recognise revenue, of different orders and kinds, differ.
LEMMA RevenueRefs ==
    ASSUME NEW o, NEW p, NEW m, NEW trigger
    PROVE  /\ Ref("ISSUED", o) = Ref("ISSUED", p) => o = p
           /\ Ref("RECEIVABLE", o) = Ref("RECEIVABLE", p) => o = p
           /\ Ref("ISSUED", o) # Ref("RECEIVABLE", p)
           /\ Ref("ISSUED", o) # Ref("ABSORBED", p)
           /\ Ref("RECEIVABLE", o) # Ref("ABSORBED", p)
           /\ Ref("ISSUED", o) # PaymentRef(p, m, trigger)
           /\ Ref("RECEIVABLE", o) # PaymentRef(p, m, trigger)
BY DEF Ref, PaymentRef

\* A settlement posts no receivable, and no issuance for a link whose receivable is
\* on the books.
LEMMA SettleRevenue ==
    ASSUME NEW p, NEW total, NEW m, NEW declared, NEW trigger,
           Settle(p, total, m, declared, trigger), NEW o
    PROVE  /\ Ref("RECEIVABLE", o) \in journal' <=> Ref("RECEIVABLE", o) \in journal
           /\ Ref("ISSUED", o) \in journal' /\ o # p => Ref("ISSUED", o) \in journal
           /\ m \in LinkMethods /\ Ref("RECEIVABLE", p) \in journal
                => (Ref("ISSUED", p) \in journal' => Ref("ISSUED", p) \in journal)
<1> DEFINE refs == Settlement(p, total, m, declared, trigger).refs
           entries == (IF Absorbed(p, total, m) > 0 THEN {Ref("ABSORBED", p)} ELSE {})
                      \cup (IF Received(p, total, m, declared, trigger) > 0
                            THEN {PaymentRef(p, m, trigger)} ELSE {})
<1>1. journal' = journal \cup refs
  BY DEF Settle
<1>2. refs = (IF Issued(p, total, m) > 0 THEN {Ref("ISSUED", p)} ELSE {}) \cup entries
  BY Zenon DEF Settlement
<1>3. entries \subseteq {Ref("ABSORBED", p), PaymentRef(p, m, trigger)}
  OBVIOUS
<1> HIDE DEF refs, entries
<1>4. Ref("RECEIVABLE", o) \notin refs /\ (Ref("ISSUED", o) \in refs => o = p)
  BY <1>2, <1>3, RevenueRefs
<1>5. ASSUME m \in LinkMethods, Ref("RECEIVABLE", p) \in journal
      PROVE  Ref("ISSUED", p) \notin refs
  <2>1. Issued(p, total, m) = 0
    BY <1>5, Zenon DEF Issued
  <2>2. refs = entries
    BY <1>2, <2>1
  <2> QED BY <1>3, <2>2, RevenueRefs
<1> QED BY <1>1, <1>4, <1>5

\* Orders that do not exist have no revenue, and a receivable is of a link.
RevenueOK(o) ==
    /\ ~Exists(o) => Ref("ISSUED", o) \notin journal /\ Ref("RECEIVABLE", o) \notin journal
    /\ Ref("RECEIVABLE", o) \in journal => order[o].method \in LinkMethods
    /\ Ref("ISSUED", o) \notin journal \/ Ref("RECEIVABLE", o) \notin journal

\* With neither the desk nor the reconcile job at work, the revenue of an invoice is
\* recognised by the receivable of its link or by the issuance entry of its
\* settlement, never by both, however checkouts, staff and the gateway interleave
\* (double-entry-journal.service.ts hasImmediatePaymentLinkReceivable).  Both of the
\* excluded handlers change the payment method of a link order and so miss the check.
THEOREM RevenueOnce ==
    ASSUME Handlers \cap {"manualMark", "autoReconcile"} = {}
    PROVE  Spec => []RevenueRecognisedOnce
<1>0. NoDesk
  BY DEF NoDesk
<1> DEFINE Inv == \A o \in Orders : RevenueOK(o)
<1>1. Init => Inv
  BY DEF Init, RevenueOK, NoRow
<1>2. IInv /\ CheckoutOK /\ Inv /\ [Next]_vars => Inv'
  <2> SUFFICES ASSUME IInv, CheckoutOK, Inv, [Next]_vars, NEW o \in Orders
               PROVE  RevenueOK(o)'
    BY DEF Inv
  <2>0. BookStep /\ TypeOK /\ RevenueOK(o)
    BY <1>0, BookSteps DEF IInv
  <2>1. CASE NothingBooked
    BY <2>0, <2>1 DEF NothingBooked, RevenueOK
  <2>2. ASSUME NEW p \in Orders, NEW row \in Row, order' = [order EXCEPT ![p] = row],
               \/ Awaited(p, row) \/ SoldNew(p, row)
               \/ ClosedByDriver(p, row) \/ ClosedByGateway(p, row)
        PROVE  RevenueOK(o)'
    <3>0. order'[p] = row /\ (o # p => order'[o] = order[o]) /\ RevenueOK(p)
      BY <2>0, <2>2 DEF TypeOK
    <3>1. CASE Awaited(p, row)
      <4>1. CASE ImmediateDebt /\ row.method \in LinkMethods
        <5>1. journal' = journal \cup {Ref("RECEIVABLE", p)}
          BY <3>1, <4>1, Zenon DEF Awaited, RegisterReceivable
        <5> QED BY <2>0, <3>0, <3>1, <4>1, <5>1, RevenueRefs DEF RevenueOK, Awaited, Exists
      <4>2. CASE ~(ImmediateDebt /\ row.method \in LinkMethods)
        <5>1. journal' = journal
          BY <3>1, <4>2, Zenon DEF Awaited, RegisterReceivable, books
        <5> QED BY <2>0, <3>0, <3>1, <5>1 DEF RevenueOK, Awaited, Exists
      <4> QED BY <4>1, <4>2
    <3>2. ASSUME NEW total, NEW m, NEW declared, NEW trigger,
                 Settle(p, total, m, declared, trigger), row.status # "ABSENT",
                 Exists(p) => (m = order[p].method \/ m = "ONLINE") /\ row.method = m
          PROVE  RevenueOK(o)'
      <4>1. /\ Ref("RECEIVABLE", o) \in journal' <=> Ref("RECEIVABLE", o) \in journal
            /\ Ref("ISSUED", o) \in journal' /\ o # p => Ref("ISSUED", o) \in journal
            /\ m \in LinkMethods /\ Ref("RECEIVABLE", p) \in journal
                 => (Ref("ISSUED", p) \in journal' => Ref("ISSUED", p) \in journal)
        BY <3>2, SettleRevenue
      <4>2. CASE o # p
        BY <2>0, <3>0, <4>1, <4>2 DEF RevenueOK, Exists
      <4>3. CASE o = p
        <5>1. Ref("RECEIVABLE", p) \in journal => Exists(p) /\ m \in LinkMethods
          BY <3>0, <3>2 DEF RevenueOK, LinkMethods
        <5> QED BY <2>0, <3>0, <3>2, <4>1, <4>3, <5>1 DEF RevenueOK, Exists
      <4> QED BY <4>2, <4>3
    <3>3. CASE SoldNew(p, row)
      BY <3>2, <3>3 DEF SoldNew
    <3>4. CASE ClosedByDriver(p, row)
      BY <3>2, <3>4 DEF ClosedByDriver
    <3>5. CASE ClosedByGateway(p, row)
      BY <3>2, <3>5 DEF ClosedByGateway
    <3> QED BY <2>2, <3>1, <3>3, <3>4, <3>5
  <2> QED BY <2>0, <2>1, <2>2 DEF BookStep
<1>3. Inv => RevenueRecognisedOnce
  BY DEF RevenueOK, RevenueRecognisedOnce
<1> QED BY <1>1, <1>2, <1>3, AlwaysIInv, AlwaysCheckoutOK, PTL DEF Spec

-----------------------------------------------------------------------------
(* The receivable and the debt, when every open order is a link order *)

\* No entry of order o but the receivable of its link.
Clear(o) == \A r \in journal : r.ord = o => r = Ref("RECEIVABLE", o)

\* An absent order owes nothing, an open one exactly its total.
DebtOK(o) ==
    /\ ar[o] \in Nat
    /\ ~Exists(o) => Clear(o) /\ Ref("RECEIVABLE", o) \notin journal /\ ar[o] = 0
    /\ Exists(o) /\ order[o].settled = FALSE
          => Clear(o) /\ Ref("RECEIVABLE", o) \in journal /\ ar[o] = order[o].total

\* What Clear leaves to be posted.
LEMMA ClearEntries ==
    ASSUME NEW o, Clear(o), NEW m, NEW trigger
    PROVE  /\ Ref("ISSUED", o) \notin journal /\ Ref("ABSORBED", o) \notin journal
           /\ PaymentRef(o, m, trigger) \notin journal
BY DEF Clear, Ref, PaymentRef

\* A settlement posts entries of its own order only.
LEMMA SettleEntries ==
    ASSUME NEW p, NEW total, NEW m, NEW declared, NEW trigger,
           Settle(p, total, m, declared, trigger)
    PROVE  journal \subseteq journal' /\ \A r \in journal' : r \in journal \/ r.ord = p
<1> DEFINE refs == Settlement(p, total, m, declared, trigger).refs
<1>1. journal' = journal \cup refs
  BY DEF Settle
<1>2. refs \subseteq {Ref("ISSUED", p), Ref("ABSORBED", p), PaymentRef(p, m, trigger)}
  BY DEF Settlement
<1>3. Ref("ISSUED", p).ord = p /\ Ref("ABSORBED", p).ord = p /\ PaymentRef(p, m, trigger).ord = p
  BY DEF Ref, PaymentRef
<1> HIDE DEF refs
<1> QED BY <1>1, <1>2, <1>3

\* What a settlement writes to the receivable and to the wallet.
LEMMA SettleAccounts ==
    ASSUME NEW p, NEW total, NEW m, NEW declared, NEW trigger,
           Settle(p, total, m, declared, trigger)
    PROVE  /\ ar' = [ar EXCEPT ![p] = @ + (Issued(p, total, m) - Absorbed(p, total, m)
                                           - Received(p, total, m, declared, trigger))]
           /\ wallet'.debt = Settlement(p, total, m, declared, trigger).wallet.debt
<1>1. Settlement(p, total, m, declared, trigger).ar =
        Issued(p, total, m) - Absorbed(p, total, m) - Received(p, total, m, declared, trigger)
  BY DEF Settlement
<1> QED BY <1>1 DEF Settle

\* A sale that is settled at once adds to the debt what it adds to the receivable.
LEMMA SaleDebt ==
    ASSUME TypeOK, NEW p \in Orders, NEW total \in Nat, NEW m \in Methods,
           NEW declared \in BOOLEAN, declared = FALSE, NEW trigger,
           Clear(p), Ref("RECEIVABLE", p) \notin journal,
           Settle(p, total, m, declared, trigger)
    PROVE  \E n \in Nat : /\ ar' = [ar EXCEPT ![p] = @ + n]
                          /\ wallet'.debt = wallet.debt + n
<1>0. wallet.debt \in Nat /\ ar[p] \in Int
  BY DEF TypeOK
<1>1. Take(total, m) \in Nat /\ Take(total, m) <= total
  BY TakeType
<1>2. /\ Issued(p, total, m) = total /\ Absorbed(p, total, m) = Take(total, m)
  BY ClearEntries DEF Issued, Absorbed, appendBalanced
<1>3. Paydown(total, m, declared) = 0
  BY DEF Paydown
<1>4. Received(p, total, m, declared, trigger) = IF m \in ExternalMethods THEN total ELSE 0
  BY <1>3, ClearEntries DEF Received, appendBalanced
<1>5. m \in ExternalMethods => Take(total, m) = 0
  BY DEF Take, ExternalMethods, LinkMethods, WalletMethods
<1>6. wallet'.debt = DebtWithInvoice(total, m)
  <2>1. DebtWithInvoice(total, m) \in Nat
    BY <1>0, <1>1 DEF DebtWithInvoice
  <2>2. Settlement(p, total, m, declared, trigger).wallet.debt =
               IF DebtWithInvoice(total, m) > Paydown(total, m, declared)
               THEN DebtWithInvoice(total, m) - Paydown(total, m, declared) ELSE 0
    BY <1>3, <2>1, SettlementDebt
  <2>3. wallet'.debt = Settlement(p, total, m, declared, trigger).wallet.debt
    BY SettleAccounts
  <2> QED BY <1>3, <2>1, <2>2, <2>3
<1> DEFINE n == IF m \in ExternalMethods THEN 0 ELSE total - Take(total, m)
<1>7. n \in Nat
  BY <1>1
<1>8. wallet'.debt = wallet.debt + n
  BY <1>6 DEF DebtWithInvoice
<1>9. n = Issued(p, total, m) - Absorbed(p, total, m) - Received(p, total, m, declared, trigger)
  BY <1>1, <1>2, <1>4, <1>5
<1>10. ar' = [ar EXCEPT ![p] = @ + n]
  BY <1>9, SettleAccounts
<1> QED BY <1>7, <1>8, <1>10

\* A captured payment is declared in full, and covers no more than is owed.
LEMMA PaydownInFull ==
    ASSUME TypeOK, NEW total \in Nat, total <= wallet.debt, NEW m \in LinkMethods
    PROVE  Paydown(total, m, TRUE) = total
<1>0. wallet.debt \in Nat /\ m \in ExternalMethods /\ m \notin WalletMethods
  BY DEF TypeOK, LinkMethods, ExternalMethods, WalletMethods
<1>1. DebtWithInvoice(total, m) = wallet.debt /\ Take(total, m) = 0
  BY <1>0 DEF DebtWithInvoice, Take
<1> QED BY <1>0, <1>1 DEF Paydown, Least

\* A link order that is paid takes its total off the receivable and off the debt.
LEMMA LinkDebt ==
    ASSUME TypeOK, NEW p \in Orders, NEW total \in Nat, total <= wallet.debt,
           NEW m \in LinkMethods,
           NEW declared, Paydown(total, m, declared) = total, NEW trigger,
           Clear(p), Ref("RECEIVABLE", p) \in journal,
           Settle(p, total, m, declared, trigger)
    PROVE  /\ ar' = [ar EXCEPT ![p] = @ - total]
           /\ wallet'.debt = wallet.debt - total
<1>0. wallet.debt \in Nat /\ ar[p] \in Int /\ ar \in [Orders -> Int]
  BY DEF TypeOK
<1>1. m \in LinkMethods /\ m \in ExternalMethods /\ m \notin WalletMethods
  BY DEF LinkMethods, ExternalMethods, WalletMethods
<1>2. Take(total, m) = 0
  BY <1>1 DEF Take
<1>3. Issued(p, total, m) = 0 /\ Absorbed(p, total, m) = 0
  BY <1>1, <1>2 DEF Issued, Absorbed, appendBalanced
<1>4. Received(p, total, m, declared, trigger) = total
  BY <1>1, ClearEntries DEF Received, appendBalanced
<1>5. DebtWithInvoice(total, m) = wallet.debt
  BY <1>0, <1>1 DEF DebtWithInvoice
<1>7. wallet'.debt = wallet.debt - total
  <2>1. Settlement(p, total, m, declared, trigger).wallet.debt =
               IF wallet.debt > total THEN wallet.debt - total ELSE 0
    <3>1. DebtWithInvoice(total, m) \in Nat /\ Paydown(total, m, declared) \in Nat
      BY <1>0, <1>5
    <3>2. Settlement(p, total, m, declared, trigger).wallet.debt =
               IF DebtWithInvoice(total, m) > Paydown(total, m, declared)
               THEN DebtWithInvoice(total, m) - Paydown(total, m, declared) ELSE 0
      BY <3>1, SettlementDebt, Zenon
    <3> QED BY <1>5, <3>2
  <2>2. wallet'.debt = Settlement(p, total, m, declared, trigger).wallet.debt
    BY SettleAccounts
  <2> QED BY <1>0, <2>1, <2>2
<1>8. ar' = [ar EXCEPT ![p] = @ + (0 - 0 - total)]
  BY <1>3, <1>4, SettleAccounts
<1>9. ar[p] + (0 - 0 - total) = ar[p] - total
  BY <1>0
<1> QED BY <1>7, <1>8, <1>9

\* One account that moves moves the sum by as much.
LEMMA SumMoves ==
    ASSUME NEW f, NEW g, NEW p \in Orders, NEW n \in Int,
           \A o \in Orders : f[o] \in Int /\ g[o] = IF o = p THEN f[o] + n ELSE f[o]
    PROVE  SumFunctionOnSet(g, Orders) = SumFunctionOnSet(f, Orders) + n
<1>1. IsFiniteSet(Orders)
  BY ConstantsAssumption, FS_Interval DEF Orders
<1>2. \A o \in Orders : f[o] \in Int /\ g[o] \in Int
  OBVIOUS
<1>3. \A o \in Orders \ {p} : g[o] = f[o]
  OBVIOUS
<1>4. SumFunctionOnSet(g, Orders) = SumFunctionOnSet(f, Orders) + (g[p] - f[p])
  BY <1>1, <1>2, <1>3, SumChange
<1> QED BY <1>4

\* The receivables and their sum.
LEMMA ReceivableSum ==
    ASSUME TypeOK, NEW p \in Orders, NEW n \in Int, ar' = [ar EXCEPT ![p] = @ + n]
    PROVE  SumFunctionOnSet(ar', Orders) = SumFunctionOnSet(ar, Orders) + n
<1>1. \A o \in Orders : ar[o] \in Int /\ ar'[o] = IF o = p THEN ar[o] + n ELSE ar[o]
  BY DEF TypeOK
<1> DEFINE f == ar
           g == ar'
<1>2. \A o \in Orders : f[o] \in Int /\ g[o] = IF o = p THEN f[o] + n ELSE f[o]
  BY <1>1
<1> HIDE DEF f, g
<1>3. SumFunctionOnSet(g, Orders) = SumFunctionOnSet(f, Orders) + n
  BY <1>2, SumMoves
<1> QED BY <1>3 DEF f, g

\* No order owes more than all of them.
LEMMA OwedAtMost ==
    ASSUME \A o \in Orders : ar[o] \in Nat, NEW p \in Orders
    PROVE  ar[p] <= SumFunctionOnSet(ar, Orders)
<1>0. IsFiniteSet(Orders)
  BY ConstantsAssumption, FS_Interval DEF Orders
<1>1. IsFiniteSet(Orders \ {p})
  BY <1>0, FS_RemoveElement
<1>2. SumFunctionOnSet(ar, Orders) = ar[p] + SumFunctionOnSet(ar, Orders \ {p})
  BY <1>0, SumRemove
<1>3. SumFunctionOnSet(ar, Orders \ {p}) \in Nat
  BY <1>1, SumNat
<1> QED BY <1>2, <1>3

\* An order that is not in a step's hands keeps what it owes.
LEMMA OtherDebt ==
    ASSUME NEW o, NEW p, o # p, DebtOK(o), order'[o] = order[o], ar'[o] = ar[o],
           journal \subseteq journal', \A r \in journal' : r \in journal \/ r.ord = p
    PROVE  DebtOK(o)'
<1>1. Ref("RECEIVABLE", o).ord = o
  BY DEF Ref
<1>2. Ref("RECEIVABLE", o) \in journal' <=> Ref("RECEIVABLE", o) \in journal
  BY <1>1
<1>3. Clear(o) => Clear(o)'
  BY DEF Clear
<1> QED BY <1>2, <1>3 DEF DebtOK, Exists

\* The invariant of the theorem below survives every step.
LEMMA DebtStep ==
    ASSUME IInv, TypeOK', NoDelivery, BookStep, ImmediateDebt,
           "createQuick" \in Handlers => PosMethods \subseteq LinkMethods,
           \A o \in Orders : DebtOK(o), DebtMatchesReceivable
    PROVE  (\A o \in Orders : DebtOK(o)') /\ DebtMatchesReceivable'
<1> DEFINE Goal == (\A o \in Orders : DebtOK(o)') /\ DebtMatchesReceivable'
<1>0. /\ TypeOK /\ wallet.debt \in Nat /\ wallet.debt = SumFunctionOnSet(ar, Orders)
      /\ ar \in [Orders -> Int]
  BY DEF IInv, TypeOK, DebtMatchesReceivable
<1>1. CASE NothingBooked
  <2>1. ASSUME NEW o \in Orders PROVE DebtOK(o)'
    BY <1>1 DEF NothingBooked, DebtOK, Clear
  <2>2. DebtMatchesReceivable'
    BY <1>0, <1>1 DEF NothingBooked, DebtMatchesReceivable
  <2> QED BY <2>1, <2>2
<1>2. ASSUME NEW p \in Orders, NEW row \in Row, order' = [order EXCEPT ![p] = row],
             NEW n \in Int, ar' = [ar EXCEPT ![p] = @ + n], wallet'.debt = wallet.debt + n,
             journal \subseteq journal', \A r \in journal' : r \in journal \/ r.ord = p,
             DebtOK(p)'
      PROVE  Goal
  <2>1. ASSUME NEW o \in Orders, o # p PROVE DebtOK(o)'
    <3>1. order'[o] = order[o] /\ ar'[o] = ar[o]
      BY <1>0, <1>2, <2>1 DEF TypeOK
    <3> QED BY <1>2, <2>1, <3>1, OtherDebt
  <2>2. SumFunctionOnSet(ar', Orders) = wallet.debt + n
    BY <1>0, <1>2, ReceivableSum
  <2>3. DebtMatchesReceivable'
    BY <1>2, <2>2 DEF DebtMatchesReceivable
  <2> QED BY <1>2, <2>1, <2>3
<1> HIDE DEF Goal
<1>3. ASSUME NEW p \in Orders, NEW row \in Row, order' = [order EXCEPT ![p] = row],
             Awaited(p, row)
      PROVE  Goal
  <2>1. row.method \in LinkMethods /\ row.total \in Nat
    BY <1>3 DEF Awaited, Row
  <2>2. Clear(p) /\ Ref("RECEIVABLE", p) \notin journal /\ ar[p] = 0
    BY <1>3 DEF Awaited, DebtOK
  <2>3. /\ wallet' = [wallet EXCEPT !.debt = @ + row.total]
        /\ journal' = journal \cup {Ref("RECEIVABLE", p)}
        /\ ar' = [ar EXCEPT ![p] = @ + appendBalanced(Ref("RECEIVABLE", p), row.total)]
    BY <1>3, <2>1, Zenon DEF Awaited, RegisterReceivable
  <2>4. ar' = [ar EXCEPT ![p] = @ + row.total]
    BY <2>2, <2>3 DEF appendBalanced
  <2>5. wallet'.debt = wallet.debt + row.total
    BY <1>0, <2>3 DEF TypeOK
  <2>6. Ref("RECEIVABLE", p).ord = p
    BY DEF Ref
  <2>7. DebtOK(p)'
    <3>1. order'[p] = row /\ ar'[p] = row.total
      BY <1>0, <1>3, <2>1, <2>2, <2>4 DEF TypeOK
    <3>2. Clear(p)'
      BY <2>2, <2>3 DEF Clear
    <3> QED BY <1>3, <2>1, <2>3, <3>1, <3>2 DEF DebtOK, Awaited, Exists
  <2>8. /\ journal \subseteq journal' /\ \A r \in journal' : r \in journal \/ r.ord = p
        /\ row.total \in Int
    BY <2>1, <2>3, <2>6
  <2> QED BY <1>2, <1>3, <2>4, <2>5, <2>7, <2>8
<1>4. ASSUME NEW p \in Orders, NEW row \in Row, order' = [order EXCEPT ![p] = row],
             SoldNew(p, row)
      PROVE  Goal
  <2>1. Clear(p) /\ Ref("RECEIVABLE", p) \notin journal /\ ar[p] = 0
    BY <1>4 DEF SoldNew, DebtOK
  <2>2. row.total \in Nat /\ row.method \in Methods
    BY DEF Row
  <2> DEFINE d == FALSE
  <2>3. d \in BOOLEAN /\ d = FALSE /\ Settle(p, row.total, row.method, d, "WALLET_SETTLEMENT")
    BY <1>4 DEF SoldNew
  <2> HIDE DEF d
  <2>4. PICK n \in Nat : ar' = [ar EXCEPT ![p] = @ + n] /\ wallet'.debt = wallet.debt + n
    BY <1>0, <2>1, <2>2, <2>3, SaleDebt
  <2>5. journal \subseteq journal' /\ \A r \in journal' : r \in journal \/ r.ord = p
    BY <2>3, SettleEntries
  <2>6. DebtOK(p)'
    <3>1. order'[p] = row /\ ar'[p] = n
      BY <1>0, <1>4, <2>1, <2>4 DEF TypeOK
    <3> QED BY <1>4, <2>4, <3>1 DEF DebtOK, SoldNew, Exists
  <2>7. n \in Int
    OBVIOUS
  <2> QED BY <1>2, <1>4, <2>4, <2>5, <2>6, <2>7
<1>5. ASSUME NEW p \in Orders, NEW row \in Row, order' = [order EXCEPT ![p] = row],
             ClosedByGateway(p, row)
      PROVE  Goal
  <2> DEFINE total == order[p].total
  <2>1. Clear(p) /\ Ref("RECEIVABLE", p) \in journal /\ ar[p] = total
    BY <1>5 DEF ClosedByGateway, DebtOK
  <2>2. total \in Nat /\ "ONLINE" \in LinkMethods
    BY <1>0 DEF TypeOK, Row, LinkMethods
  <2>3. total <= wallet.debt
    <3>1. \A o \in Orders : ar[o] \in Nat
      BY DEF DebtOK
    <3>2. ar[p] <= SumFunctionOnSet(ar, Orders)
      BY <3>1, OwedAtMost
    <3> QED BY <1>0, <2>1, <3>2
  <2>4. Settle(p, total, "ONLINE", TRUE, "PAYMENT_LINK_CALLBACK")
    BY <1>5 DEF ClosedByGateway
  <2> DEFINE d == TRUE
             m == "ONLINE"
  <2>5. Paydown(total, "ONLINE", TRUE) = total
    BY <1>0, <2>2, <2>3, PaydownInFull
  <2>6. /\ m \in LinkMethods /\ Paydown(total, m, d) = total
        /\ Settle(p, total, m, d, "PAYMENT_LINK_CALLBACK")
    BY <2>2, <2>4, <2>5
  <2> HIDE DEF d, m, total
  <2>7. /\ ar' = [ar EXCEPT ![p] = @ - total]
        /\ wallet'.debt = wallet.debt - total
    BY <1>0, <2>1, <2>2, <2>3, <2>6, LinkDebt
  <2>8. journal \subseteq journal' /\ \A r \in journal' : r \in journal \/ r.ord = p
    BY <2>6, SettleEntries
  <2> DEFINE k == 0 - total
  <2>9. /\ k \in Int /\ ar' = [ar EXCEPT ![p] = @ + k]
        /\ wallet'.debt = wallet.debt + k
    <3>1. ar[p] - total = ar[p] + k
      BY <1>0, <2>2
    <3>2. k \in Int /\ wallet'.debt = wallet.debt + k
      BY <1>0, <2>2, <2>7
    <3> HIDE DEF k
    <3> QED BY <2>7, <3>1, <3>2
  <2>10. DebtOK(p)'
    <3>1. order'[p] = row /\ ar'[p] = 0
      BY <1>0, <1>5, <2>1, <2>2, <2>7 DEF TypeOK
    <3> QED BY <1>5, <3>1 DEF DebtOK, ClosedByGateway, Exists
  <2> HIDE DEF k
  <2> QED BY <1>2, <1>5, <2>8, <2>9, <2>10
<1>6. ASSUME NEW p \in Orders, NEW row \in Row, ClosedByDriver(p, row) PROVE FALSE
  BY <1>6 DEF ClosedByDriver, NoDelivery, At
<1>7. Goal
  <2>1. ASSUME NothingBooked PROVE Goal
    BY <1>1, <2>1 DEF Goal
  <2> QED BY <2>1, <1>3, <1>4, <1>5, <1>6 DEF BookStep
<1> QED BY <1>7 DEF Goal

\* Under immediate payment-link debt, and as long as every order that waits for its
\* payment is a link order and only the gateway closes it, the journal's receivables
\* add up to the wallet's debt at every moment ("the resulting AR balance equals the
\* customer's actual debt"), however checkouts, status changes and repeated callbacks
\* interleave and fail.
THEOREM DebtIsReceivable ==
    ASSUME ImmediateDebt, "COMPLETED" \notin StaffTargets,
           Handlers \cap {"manualMark", "autoReconcile"} = {},
           "createQuick" \in Handlers => PosMethods \subseteq LinkMethods
    PROVE  Spec => []DebtMatchesReceivable
<1> DEFINE Inv == (\A o \in Orders : DebtOK(o)) /\ DebtMatchesReceivable
<1>1. Init => Inv
  <2> SUFFICES ASSUME Init PROVE Inv
    OBVIOUS
  <2>1. IsFiniteSet(Orders) /\ \A o \in Orders : ar[o] = 0
    BY ConstantsAssumption, FS_Interval DEF Orders, Init
  <2>2. SumFunctionOnSet(ar, Orders) = 0
    BY <2>1, SumZero
  <2>3. \A o \in Orders : DebtOK(o)
    BY DEF Init, DebtOK, NoRow, Clear, Exists
  <2>4. wallet.debt = 0
    BY DEF Init
  <2> QED BY <2>2, <2>3, <2>4 DEF DebtMatchesReceivable
<1>2. IInv /\ IInv' /\ CheckoutOK /\ NoDelivery /\ Inv /\ [Next]_vars => Inv'
  <2> SUFFICES ASSUME IInv, IInv', CheckoutOK, NoDelivery, Inv, [Next]_vars PROVE Inv'
    OBVIOUS
  <2>1. NoDesk
    BY DEF NoDesk
  <2>2. BookStep /\ TypeOK'
    BY <2>1, BookSteps DEF IInv
  <2> QED BY <2>2, DebtStep
<1>3. Inv => DebtMatchesReceivable
  OBVIOUS
<1> QED BY <1>1, <1>2, <1>3, AlwaysIInv, AlwaysCheckoutOK, AlwaysNoDelivery, PTL DEF Spec

=============================================================================
