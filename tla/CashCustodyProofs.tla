------------------------- MODULE CashCustodyProofs -------------------------
(***************************************************************************)
(* For any number of orders, bags, deposits, drivers and sessions: the cash *)
(* of an order leaves its driver once, and a bag's amount is the cash that  *)
(* moved into it.                                                           *)
(*                                                                          *)
(* CashInOnePlace is not inductive: the commit of an approval moves orders  *)
(* it locked some steps before.  HeldOK adds what those locks mean - the    *)
(* orders are still with a driver, and no other session holds them - and    *)
(* SessionOK which row each session works on.                               *)
(*                                                                          *)
(* The second part is about requests that run one at a time (OneAtATime):   *)
(* a bag and a deposit are booked once, the orders a deposit releases are   *)
(* covered by its amount up to the tolerance, and the branch balance is     *)
(* what the ledger says.  BagsInv and DepositsInv say what the one session  *)
(* at work has checked or already written.  How far the loop over the       *)
(* orders of a deposit gets is proved by induction on its prefixes.         *)
(*                                                                          *)
(* The third part is about module EventDispatcher, which shares nothing     *)
(* with the cash: for any number of events, pods, attempts, faults and      *)
(* replays, a row that counts as delivered was shipped, and how often the   *)
(* broker and the listeners see an event.                                   *)
(***************************************************************************)
EXTENDS CashCustody, EventDispatcher, SumTheorems

SessionRecord ==
    [op : AllOperations \cup {"idle"}, pc : {"idle", "read", "updated", "released"},
     id : Nat, seen : SUBSET Orders, held : SUBSET Orders, balance : Nat,
     slip : Slips \cup {NoSlip}]

SessionOK(s) ==
    /\ session[s].op \in {"upload", "verify", "reject"} => session[s].id \in Bags
    /\ session[s].op \in {"approve", "rejectDeposit"} => session[s].id \in Deposits
    /\ session[s].pc # "released" => session[s].held = {}

HeldOK ==
    /\ \A s \in Sessions : \A o \in session[s].held : WithDriver(o)
    /\ \A s, r \in Sessions : s # r => session[s].held \cap session[r].held = {}

CInv ==
    /\ TypeOK
    /\ \A s \in Sessions : SessionOK(s)
    /\ HeldOK
    /\ CashInOnePlace
    /\ BagAmountExact

-----------------------------------------------------------------------------
(* Sessions *)

\* The idle session is well formed and holds nothing.
LEMMA IdleType ==
    Idle \in SessionRecord /\ Idle.held = {} /\ Idle.op = "idle" /\ Idle.pc = "idle"
BY DEF Idle, SessionRecord

\* A step that replaces one session's record by one that holds no order keeps what
\* is said of the sessions, when the orders do not move.
LEMMA OneSession ==
    ASSUME session \in [Sessions -> SessionRecord], \A s \in Sessions : SessionOK(s),
           HeldOK,
           NEW s \in Sessions, NEW r \in SessionRecord,
           session' = [session EXCEPT ![s] = r], r.held = {},
           r.op \in {"upload", "verify", "reject"} => r.id \in Bags,
           r.op \in {"approve", "rejectDeposit"} => r.id \in Deposits,
           \A p \in Sessions \ {s} : \A o \in session[p].held : order'[o] = order[o]
    PROVE  /\ session' \in [Sessions -> SessionRecord]
           /\ \A p \in Sessions : SessionOK(p)'
           /\ HeldOK'
<1>1. session'[s] = r /\ \A p \in Sessions : p # s => session'[p] = session[p]
  OBVIOUS
<1>2. session' \in [Sessions -> SessionRecord]
  OBVIOUS
<1>3. ASSUME NEW p \in Sessions PROVE SessionOK(p)'
  <2>1. CASE p = s
    BY <1>1, <2>1 DEF SessionOK
  <2>2. CASE p # s
    BY <1>1, <2>2 DEF SessionOK
  <2> QED BY <2>1, <2>2
<1>4. \A p \in Sessions : \A o \in session'[p].held : WithDriver(o)'
  BY <1>1 DEF HeldOK, WithDriver
<1>5. \A p, q \in Sessions : p # q => session'[p].held \cap session'[q].held = {}
  BY <1>1 DEF HeldOK
<1> QED BY <1>2, <1>3, <1>4, <1>5 DEF HeldOK

\* A handler that starts.
LEMMA BeginSession ==
    ASSUME session \in [Sessions -> SessionRecord], \A s \in Sessions : SessionOK(s),
           HeldOK, UNCHANGED order,
           NEW s \in Sessions, NEW op \in AllOperations, NEW id \in Nat,
           NEW seen \in SUBSET Orders, NEW slip \in Slips \cup {NoSlip},
           Begin(s, op, id, seen, slip),
           op \in {"upload", "verify", "reject"} => id \in Bags,
           op \in {"approve", "rejectDeposit"} => id \in Deposits
    PROVE  /\ session' \in [Sessions -> SessionRecord]
           /\ \A p \in Sessions : SessionOK(p)'
           /\ HeldOK'
<1> DEFINE r == [Idle EXCEPT !.op = op, !.pc = "read", !.id = id, !.seen = seen,
                             !.slip = slip]
<1>1. r \in SessionRecord /\ r.held = {} /\ r.op = op /\ r.id = id
  BY DEF Idle, SessionRecord
<1>2. session' = [session EXCEPT ![s] = r]
  BY DEF Begin
<1> HIDE DEF r
<1> QED BY <1>1, <1>2, OneSession

\* The end of a session: what it held is released.
LEMMA EndSession ==
    ASSUME session \in [Sessions -> SessionRecord], \A s \in Sessions : SessionOK(s),
           HeldOK, NEW s \in Sessions, End(s),
           \A p \in Sessions \ {s} : \A o \in session[p].held : order'[o] = order[o]
    PROVE  /\ session' \in [Sessions -> SessionRecord]
           /\ \A p \in Sessions : SessionOK(p)'
           /\ HeldOK'
BY IdleType, OneSession DEF End

-----------------------------------------------------------------------------
(* Moving cash *)

\* Orders that are with a driver move into an empty bag.
LEMMA IntoBag ==
    ASSUME CashInOnePlace, NEW S \in SUBSET Orders, \A o \in S : WithDriver(o),
           NEW b \in Bags, bag[b].orders = {},
           \A o \in Orders : order'[o].cash = IF o \in S THEN "OFFICE" ELSE order[o].cash,
           bag'[b].orders = S, \A c \in Bags : c # b => bag'[c].orders = bag[c].orders,
           deposit' = deposit
    PROVE  CashInOnePlace'
<1>1. \A o \in S : /\ \A c \in Bags : o \notin bag[c].orders
                   /\ \A d \in Deposits : o \notin deposit[d].orders
  BY DEF CashInOnePlace, WithDriver
<1>2. \A o \in Orders : order'[o].cash = "OFFICE" <=>
            \/ \E c \in Bags : o \in bag'[c].orders
            \/ \E d \in Deposits : o \in deposit'[d].orders
  BY <1>1 DEF CashInOnePlace
<1>3. \A c, e \in Bags : c # e => bag'[c].orders \cap bag'[e].orders = {}
  BY <1>1 DEF CashInOnePlace
<1>4. \A c \in Bags, d \in Deposits : bag'[c].orders \cap deposit'[d].orders = {}
  BY <1>1 DEF CashInOnePlace
<1> QED BY <1>2, <1>3, <1>4 DEF CashInOnePlace

\* Orders that are with a driver are released by a deposit.
LEMMA ByDeposit ==
    ASSUME CashInOnePlace, NEW S \in SUBSET Orders, \A o \in S : WithDriver(o),
           NEW d \in Deposits,
           \A o \in Orders : order'[o].cash = IF o \in S THEN "OFFICE" ELSE order[o].cash,
           deposit'[d].orders = deposit[d].orders \cup S,
           \A e \in Deposits : e # d => deposit'[e].orders = deposit[e].orders,
           bag' = bag
    PROVE  CashInOnePlace'
<1>1. \A o \in S : /\ \A c \in Bags : o \notin bag[c].orders
                   /\ \A e \in Deposits : o \notin deposit[e].orders
  BY DEF CashInOnePlace, WithDriver
<1>2. \A o \in Orders : order'[o].cash = "OFFICE" <=>
            \/ \E c \in Bags : o \in bag'[c].orders
            \/ \E e \in Deposits : o \in deposit'[e].orders
  BY <1>1 DEF CashInOnePlace
<1>3. \A e, f \in Deposits : e # f => deposit'[e].orders \cap deposit'[f].orders = {}
  BY <1>1 DEF CashInOnePlace
<1>4. \A c \in Bags, e \in Deposits : bag'[c].orders \cap deposit'[e].orders = {}
  BY <1>1 DEF CashInOnePlace
<1> QED BY <1>2, <1>3, <1>4 DEF CashInOnePlace

\* Nothing moves when no order and no set of orders changes.
LEMMA NothingMoves ==
    ASSUME CashInOnePlace, BagAmountExact,
           \A o \in Orders : order'[o].cash = "OFFICE" <=> order[o].cash = "OFFICE",
           \A b \in Bags : /\ bag'[b].orders = bag[b].orders
                           /\ bag'[b].amount = bag[b].amount,
           \A d \in Deposits : deposit'[d].orders = deposit[d].orders
    PROVE  CashInOnePlace' /\ BagAmountExact'
BY DEF CashInOnePlace, BagAmountExact

-----------------------------------------------------------------------------
(* The invariant holds *)

BagRecord ==
    [status : BagStatus \cup {"ABSENT"}, orders : SUBSET Orders,
     amount : {TotalOf(S) : S \in SUBSET Orders}, slip : Slips \cup {NoSlip}]

DepositRecord ==
    [status : DepositStatus \cup {"ABSENT"}, driver : Drivers \cup {NoDriver},
     amount : Nat, orders : SUBSET Orders]

OrderRecord ==
    [cash : {"NONE", "DRIVER", "OFFICE"}, driver : Drivers \cup {NoDriver}]

\* The status and the slip of a bag change; its orders and amount do not.
LEMMA BagUpdated ==
    ASSUME bag \in [Bags -> BagRecord], NEW b \in Bags, NEW status \in BagStatus,
           NEW slip \in Slips \cup {NoSlip},
           bag' = [bag EXCEPT ![b] = [bag[b] EXCEPT !.status = status, !.slip = slip]]
    PROVE  /\ bag' \in [Bags -> BagRecord]
           /\ \A c \in Bags : bag'[c].orders = bag[c].orders /\ bag'[c].amount = bag[c].amount
<1> DEFINE r == [bag[b] EXCEPT !.status = status, !.slip = slip]
<1>1. bag[b] \in BagRecord
  OBVIOUS
<1>2. r \in BagRecord /\ r.orders = bag[b].orders /\ r.amount = bag[b].amount
  BY <1>1 DEF BagRecord
<1> HIDE DEF r
<1>3. bag' = [bag EXCEPT ![b] = r]
  BY DEF r
<1> QED BY <1>2, <1>3

\* The empty database satisfies the invariant.
LEMMA InitCInv == Init => CInv
<1> SUFFICES ASSUME Init PROVE CInv
  OBVIOUS
<1>1. NoBag \in BagRecord /\ NoBag.orders = {} /\ NoBag.amount = TotalOf({})
  BY DEF NoBag, BagRecord
<1>2. NoDeposit \in DepositRecord /\ NoDeposit.orders = {}
  BY DEF NoDeposit, DepositRecord
<1>3. TypeOK
  BY <1>1, <1>2, IdleType
     DEF Init, TypeOK, BagRecord, DepositRecord, SessionRecord
<1>4. (\A s \in Sessions : SessionOK(s)) /\ HeldOK
  BY IdleType DEF Init, SessionOK, HeldOK
<1>5. CashInOnePlace
  BY <1>1, <1>2 DEF Init, CashInOnePlace
<1>6. BagAmountExact
  BY <1>1 DEF Init, BagAmountExact
<1> QED BY <1>3, <1>4, <1>5, <1>6 DEF CInv

\* Every step of every handler keeps the invariant.
LEMMA NextCInv == CInv /\ [Next]_vars => CInv'
<1> SUFFICES ASSUME CInv, [Next]_vars PROVE CInv'
  OBVIOUS
<1> USE CustodyAssumption
<1>0. /\ order \in [Orders -> OrderRecord] /\ bag \in [Bags -> BagRecord]
      /\ bagGL \in [Bags -> Nat] /\ log \in [Bags -> Slips \cup {NoSlip}]
      /\ loose \subseteq [slip : Slips, amount : Amounts]
      /\ deposit \in [Deposits -> DepositRecord]
      /\ depositGL \in [Deposits -> Nat] /\ branchCash \in Nat
      /\ session \in [Sessions -> SessionRecord]
      /\ \A s \in Sessions : SessionOK(s)
      /\ HeldOK /\ CashInOnePlace /\ BagAmountExact
  BY DEF CInv, TypeOK, OrderRecord, BagRecord, DepositRecord, SessionRecord
<1>a. ASSUME order' \in [Orders -> OrderRecord], bag' \in [Bags -> BagRecord],
             bagGL' \in [Bags -> Nat], log' \in [Bags -> Slips \cup {NoSlip}],
             loose' \subseteq [slip : Slips, amount : Amounts],
             deposit' \in [Deposits -> DepositRecord],
             depositGL' \in [Deposits -> Nat], branchCash' \in Nat,
             session' \in [Sessions -> SessionRecord],
             \A s \in Sessions : SessionOK(s)',
             HeldOK', CashInOnePlace', BagAmountExact'
      PROVE  CInv'
  BY <1>a DEF CInv, TypeOK, OrderRecord, BagRecord, DepositRecord, SessionRecord
<1>b. \A s \in Sessions :
        /\ session[s].seen \in SUBSET Orders /\ session[s].held \in SUBSET Orders
        /\ session[s].id \in Nat /\ session[s].balance \in Nat
        /\ session[s].slip \in Slips \cup {NoSlip}
        /\ session[s].op \in AllOperations \cup {"idle"}
  BY <1>0 DEF SessionRecord
<1>c. ASSUME UNCHANGED <<order, bag, bagGL, bank, deposit, depositGL, branchCash>>,
             session' \in [Sessions -> SessionRecord],
             \A s \in Sessions : SessionOK(s)', HeldOK'
      PROVE  CInv'
  <2>1. CashInOnePlace' /\ BagAmountExact'
    BY <1>0, <1>c, NothingMoves
  <2> QED BY <1>0, <1>a, <1>c, <2>1 DEF bank
<1>1. ASSUME NEW o \in Orders, NEW d \in Drivers, Collect(o, d)
      PROVE  CInv'
  <2>1. order' \in [Orders -> OrderRecord] /\ session' = session
        /\ \A p \in Orders : p # o => order'[p] = order[p]
    BY <1>0, <1>1 DEF Collect, OrderRecord
  <2>2. \A p \in Orders : order'[p].cash = "OFFICE" <=> order[p].cash = "OFFICE"
    BY <1>0, <1>1 DEF Collect
  <2>3. CashInOnePlace' /\ BagAmountExact'
    BY <1>0, <1>1, <2>2, NothingMoves DEF Collect
  <2>4. \A p \in Orders : WithDriver(p) => WithDriver(p)'
    BY <1>0, <1>1 DEF Collect, WithDriver
  <2>5. (\A s \in Sessions : SessionOK(s)') /\ HeldOK'
    BY <1>0, <1>b, <2>1, <2>4 DEF SessionOK, HeldOK
  <2> QED BY <1>0, <1>1, <1>a, <2>1, <2>3, <2>5 DEF Collect, bank
<1>2. ASSUME NEW d \in Deposits, NEW driver \in Drivers, NEW amount \in Amounts,
             CreateDeposit(d, driver, amount)
      PROVE  CInv'
  <2> DEFINE r == [status |-> "PENDING", driver |-> driver, amount |-> amount,
                   orders |-> {}]
  <2>1. r \in DepositRecord /\ r.orders = {}
    BY DEF DepositRecord, DepositStatus
  <2>2. deposit' = [deposit EXCEPT ![d] = r] /\ deposit[d].orders = {}
    BY <1>2 DEF CreateDeposit, NoDeposit
  <2> HIDE DEF r
  <2>3. deposit' \in [Deposits -> DepositRecord]
        /\ \A e \in Deposits : deposit'[e].orders = deposit[e].orders
    BY <1>0, <2>1, <2>2
  <2>4. CashInOnePlace' /\ BagAmountExact'
    BY <1>0, <1>2, <2>3, NothingMoves DEF CreateDeposit
  <2>5. (\A s \in Sessions : SessionOK(s)') /\ HeldOK'
    BY <1>0, <1>2 DEF CreateDeposit, SessionOK, HeldOK, WithDriver
  <2> QED BY <1>0, <1>2, <1>a, <2>3, <2>4, <2>5 DEF CreateDeposit, bank
<1>3. ASSUME NEW slip \in Slips, NEW amount \in Amounts, RegisterSlip(slip, amount)
      PROVE  CInv'
  <2>1. CashInOnePlace' /\ BagAmountExact'
    BY <1>0, <1>3, NothingMoves DEF RegisterSlip
  <2>2. (\A s \in Sessions : SessionOK(s)') /\ HeldOK'
    BY <1>0, <1>3 DEF RegisterSlip, SessionOK, HeldOK, WithDriver
  <2> QED BY <1>0, <1>3, <1>a, <2>1, <2>2 DEF RegisterSlip
<1>4. ASSUME NEW s \in Sessions, NEW d \in Drivers, NEW slip \in Slips \cup {NoSlip},
             BeginHandover(s, d, slip)
      PROVE  CInv'
  <2>1. Pending(d) \in SUBSET Orders
    BY DEF Pending
  <2>2. /\ session' \in [Sessions -> SessionRecord]
        /\ \A p \in Sessions : SessionOK(p)'
        /\ HeldOK'
    BY <1>0, <1>4, <2>1, BeginSession DEF BeginHandover, AllOperations
  <2> QED BY <1>4, <1>c, <2>2 DEF BeginHandover
<1>5. ASSUME NEW s \in Sessions, NEW b \in Bags, CommitHandover(s, b)
      PROVE  CInv'
  <2> DEFINE S == StillWithDriver(session[s].seen)
             r == [status |-> IF session[s].slip = NoSlip THEN "PENDING_DEPOSIT"
                              ELSE "AWAITING_VERIFICATION",
                   orders |-> S, amount |-> TotalOf(session[s].seen),
                   slip |-> session[s].slip]
  <2>1. /\ S \in SUBSET Orders /\ S = session[s].seen
        /\ \A o \in S : WithDriver(o) /\ o \notin Held
    BY <1>5, <1>b DEF CommitHandover, StillWithDriver, Unmoved
  <2>2. r \in BagRecord /\ r.orders = S /\ r.amount = TotalOf(S)
    BY <1>b, <2>1 DEF BagRecord, BagStatus
  <2>3. /\ bag' = [bag EXCEPT ![b] = r] /\ bag[b].orders = {} /\ End(s)
        /\ order' = [o \in Orders |-> IF o \in S THEN [order[o] EXCEPT !.cash = "OFFICE"]
                                      ELSE order[o]]
        /\ UNCHANGED <<bagGL, bank, deposit, depositGL, branchCash>>
    BY <1>5 DEF CommitHandover, NoBag, ToOffice
  <2> HIDE DEF S, r
  <2>4. /\ order' \in [Orders -> OrderRecord]
        /\ \A o \in Orders : order'[o].cash = IF o \in S THEN "OFFICE" ELSE order[o].cash
    BY <1>0, <2>3 DEF OrderRecord
  <2>5. bag' \in [Bags -> BagRecord] /\ bag'[b] = r /\ \A c \in Bags : c # b => bag'[c] = bag[c]
    BY <1>0, <2>2, <2>3
  <2>6. CashInOnePlace'
    BY <1>0, <2>1, <2>2, <2>3, <2>4, <2>5, IntoBag
  <2>7. BagAmountExact'
    BY <1>0, <2>2, <2>5 DEF BagAmountExact
  <2>8. \A p \in Sessions \ {s} : \A o \in session[p].held : order'[o] = order[o]
    BY <1>b, <2>1, <2>3 DEF Held
  <2>9. /\ session' \in [Sessions -> SessionRecord]
        /\ \A p \in Sessions : SessionOK(p)'
        /\ HeldOK'
    BY <1>0, <2>3, <2>8, EndSession
  <2> QED BY <1>0, <1>a, <2>3, <2>4, <2>5, <2>6, <2>7, <2>9 DEF bank
<1>6. ASSUME NEW s \in Sessions, NEW op \in {"upload", "verify", "reject"}, NEW b \in Bags,
             NEW slip \in Slips \cup {NoSlip}, BeginBag(s, op, b, slip)
      PROVE  CInv'
  <2>1. b \in Nat /\ op \in AllOperations /\ {} \in SUBSET Orders
    BY DEF Bags, AllOperations
  <2>2. /\ session' \in [Sessions -> SessionRecord]
        /\ \A p \in Sessions : SessionOK(p)'
        /\ HeldOK'
    BY <1>0, <1>6, <2>1, BeginSession DEF BeginBag
  <2> QED BY <1>6, <1>c, <2>2 DEF BeginBag
<1>7. ASSUME NEW s \in Sessions, UploadSlip(s) \/ RejectBag(s) \/ VerifyBag(s)
      PROVE  CInv'
  <2> DEFINE b == session[s].id
  <2>1. /\ b \in Bags /\ End(s)
        /\ UNCHANGED <<order, deposit, depositGL, branchCash>>
    BY <1>0, <1>7 DEF UploadSlip, RejectBag, VerifyBag, SessionOK, At
  <2>2. /\ bag' \in [Bags -> BagRecord]
        /\ \A c \in Bags : bag'[c].orders = bag[c].orders /\ bag'[c].amount = bag[c].amount
    <3>1. CASE UploadSlip(s)
      <4>1. bag' = [bag EXCEPT ![b] = [bag[b] EXCEPT
                        !.status = "AWAITING_VERIFICATION", !.slip = session[s].slip]]
        BY <3>1 DEF UploadSlip
      <4> HIDE DEF b
      <4> QED BY <1>0, <1>b, <2>1, <4>1, BagUpdated DEF BagStatus
    <3>2. CASE RejectBag(s)
      <4>1. bag' = [bag EXCEPT ![b] = [bag[b] EXCEPT !.status = "REJECTED",
                                                     !.slip = bag[b].slip]]
        BY <1>0, <2>1, <3>2 DEF RejectBag, BagRecord
      <4>2. bag[b].slip \in Slips \cup {NoSlip}
        BY <1>0, <2>1 DEF BagRecord
      <4> HIDE DEF b
      <4> QED BY <1>0, <2>1, <4>1, <4>2, BagUpdated DEF BagStatus
    <3>3. CASE VerifyBag(s)
      <4>1. bag' = [bag EXCEPT ![b] = [bag[b] EXCEPT !.status = "VERIFIED",
                                                     !.slip = bag[b].slip]]
        BY <1>0, <2>1, <3>3 DEF VerifyBag, BagRecord
      <4>2. bag[b].slip \in Slips \cup {NoSlip}
        BY <1>0, <2>1 DEF BagRecord
      <4> HIDE DEF b
      <4> QED BY <1>0, <2>1, <4>1, <4>2, BagUpdated DEF BagStatus
    <3> QED BY <1>7, <3>1, <3>2, <3>3
  <2>3. bagGL' \in [Bags -> Nat]
    BY <1>0, <1>7, <2>1 DEF UploadSlip, RejectBag, VerifyBag
  <2>4. /\ log' \in [Bags -> Slips \cup {NoSlip}]
        /\ loose' \subseteq [slip : Slips, amount : Amounts]
    <3>1. CASE VerifyBag(s)
      <4>1. bag[b].slip \in Slips \cup {NoSlip}
        BY <1>0, <2>1 DEF BagRecord
      <4> QED BY <1>0, <2>1, <3>1, <4>1 DEF VerifyBag, LinkDeposit, bank
    <3>2. CASE ~VerifyBag(s)
      BY <1>0, <1>7, <3>2 DEF UploadSlip, RejectBag, bank
    <3> QED BY <3>1, <3>2
  <2>5. CashInOnePlace' /\ BagAmountExact'
    BY <1>0, <2>1, <2>2, NothingMoves
  <2>6. /\ session' \in [Sessions -> SessionRecord]
        /\ \A p \in Sessions : SessionOK(p)'
        /\ HeldOK'
    BY <1>0, <2>1, EndSession
  <2> QED BY <1>0, <1>a, <2>1, <2>2, <2>3, <2>4, <2>5, <2>6
<1>8. ASSUME NEW s \in Sessions, NEW d \in Deposits, NEW op \in {"approve", "rejectDeposit"},
             BeginAudit(s, op, d)
      PROVE  CInv'
  <2>1. d \in Nat /\ op \in AllOperations /\ {} \in SUBSET Orders
    BY DEF Deposits, AllOperations
  <2>2. /\ session' \in [Sessions -> SessionRecord]
        /\ \A p \in Sessions : SessionOK(p)'
        /\ HeldOK'
    BY <1>0, <1>8, <2>1, BeginSession DEF BeginAudit
  <2> QED BY <1>8, <1>c, <2>2 DEF BeginAudit
<1>9. ASSUME NEW s \in Sessions, RejectDeposit(s)
      PROVE  CInv'
  <2> DEFINE d == session[s].id
  <2>1. d \in Deposits /\ End(s) /\ UNCHANGED <<order, bag, bagGL, bank, depositGL, branchCash>>
    BY <1>0, <1>9 DEF RejectDeposit, SessionOK, At
  <2>2. /\ deposit' \in [Deposits -> DepositRecord]
        /\ \A e \in Deposits : deposit'[e].orders = deposit[e].orders
    BY <1>0, <1>9, <2>1 DEF RejectDeposit, DepositRecord, DepositStatus
  <2>3. CashInOnePlace' /\ BagAmountExact'
    BY <1>0, <2>1, <2>2, NothingMoves
  <2>4. /\ session' \in [Sessions -> SessionRecord]
        /\ \A p \in Sessions : SessionOK(p)'
        /\ HeldOK'
    BY <1>0, <2>1, EndSession
  <2> QED BY <1>0, <1>a, <2>1, <2>2, <2>3, <2>4 DEF bank
<1>10. ASSUME NEW s \in Sessions, LockDeposit(s)
       PROVE  CInv'
  <2> DEFINE S == Released(Pending(deposit[session[s].id].driver),
                           deposit[session[s].id].amount)
             r == [session[s] EXCEPT !.pc = "updated", !.seen = S]
  <2>1. S \in SUBSET Orders
    BY DEF Released, Pending
  <2>2. session' = [session EXCEPT ![s] = r]
    BY <1>0, <1>10 DEF LockDeposit
  <2> HIDE DEF S
  <2>3. r \in SessionRecord /\ r.held = session[s].held /\ r.op = session[s].op
        /\ r.id = session[s].id
    BY <1>0, <2>1 DEF SessionRecord
  <2>4. session[s].held = {} /\ SessionOK(s)
    BY <1>0, <1>10 DEF LockDeposit, At, SessionOK
  <2> HIDE DEF r
  <2>5. /\ session' \in [Sessions -> SessionRecord]
        /\ \A p \in Sessions : SessionOK(p)'
        /\ HeldOK'
    BY <1>0, <1>10, <2>2, <2>3, <2>4, OneSession, ZenonT(30) DEF SessionOK, LockDeposit
  <2> QED BY <1>10, <1>c, <2>5 DEF LockDeposit
<1>11. ASSUME NEW s \in Sessions, ReleaseOrders(s)
       PROVE  CInv'
  <2> DEFINE S == StillWithDriver(session[s].seen)
             r == [session[s] EXCEPT !.pc = "released", !.held = S, !.balance = branchCash]
  <2>1. S \in SUBSET Orders /\ \A o \in S : WithDriver(o) /\ o \notin Held
    BY <1>11, <1>b DEF ReleaseOrders, StillWithDriver
  <2>2. session' = [session EXCEPT ![s] = r]
    BY <1>0, <1>11 DEF ReleaseOrders
  <2> HIDE DEF S
  <2>3. r \in SessionRecord /\ r.held = S /\ r.op = session[s].op
        /\ r.id = session[s].id /\ r.pc = "released"
    BY <1>0, <2>1 DEF SessionRecord
  <2> HIDE DEF r
  <2>4. session' \in [Sessions -> SessionRecord] /\ session'[s] = r
        /\ \A p \in Sessions : p # s => session'[p] = session[p]
    BY <1>0, <2>2, <2>3
  <2>5. ASSUME NEW p \in Sessions PROVE SessionOK(p)'
    <3>1. CASE p = s
      BY <1>0, <2>3, <2>4, <3>1 DEF SessionOK
    <3>2. CASE p # s
      BY <1>0, <2>4, <3>2 DEF SessionOK
    <3> QED BY <3>1, <3>2
  <2>6. \A p \in Sessions : S \cap session[p].held = {}
    BY <2>1 DEF Held
  <2>7. order' = order
    BY <1>11 DEF ReleaseOrders
  <2>8. \A p \in Sessions : \A o \in session'[p].held : WithDriver(o)'
    BY <1>0, <2>1, <2>3, <2>4, <2>7 DEF HeldOK, WithDriver
  <2>9. \A p, q \in Sessions : p # q => session'[p].held \cap session'[q].held = {}
    BY <1>0, <2>3, <2>4, <2>6 DEF HeldOK
  <2> QED BY <1>11, <1>c, <2>4, <2>5, <2>8, <2>9 DEF ReleaseOrders, HeldOK
<1>12. ASSUME NEW s \in Sessions, CommitApproval(s)
       PROVE  CInv'
  <2> DEFINE d == session[s].id
             S == session[s].held
             r == [deposit[d] EXCEPT !.status = "APPROVED", !.orders = @ \cup S]
  <2>1. /\ d \in Deposits /\ End(s)
        /\ UNCHANGED <<bag, bagGL, bank>>
        /\ order' = [o \in Orders |-> IF o \in S THEN [order[o] EXCEPT !.cash = "OFFICE"]
                                      ELSE order[o]]
    BY <1>0, <1>12 DEF CommitApproval, SessionOK, At, ToOffice
  <2>2. S \in SUBSET Orders /\ \A o \in S : WithDriver(o)
    BY <1>0, <1>b DEF HeldOK
  <2>3. deposit[d] \in DepositRecord
    BY <1>0, <2>1
  <2>4. deposit' = [deposit EXCEPT ![d] = r]
    BY <1>0, <1>12, <2>1 DEF CommitApproval
  <2>5. r \in DepositRecord /\ r.orders = deposit[d].orders \cup S
    BY <2>2, <2>3 DEF DepositRecord, DepositStatus
  <2>6. depositGL' \in [Deposits -> Nat] /\ branchCash' \in Nat
    BY <1>0, <1>b, <1>12, <2>1, <2>3 DEF CommitApproval, NewBalance, DepositRecord
  <2> HIDE DEF r, S, d
  <2>7. /\ order' \in [Orders -> OrderRecord]
        /\ \A o \in Orders : order'[o].cash = IF o \in S THEN "OFFICE" ELSE order[o].cash
    BY <1>0, <2>1 DEF OrderRecord
  <2>8. /\ deposit' \in [Deposits -> DepositRecord] /\ deposit'[d] = r
        /\ \A e \in Deposits : e # d => deposit'[e] = deposit[e]
    BY <1>0, <2>1, <2>4, <2>5
  <2>9. CashInOnePlace'
    BY <1>0, <2>1, <2>2, <2>5, <2>7, <2>8, ByDeposit
  <2>10. BagAmountExact'
    BY <1>0, <2>1 DEF BagAmountExact
  <2>11. \A p \in Sessions \ {s} : \A o \in session[p].held : order'[o] = order[o]
    BY <1>0, <1>b, <2>1 DEF HeldOK, S
  <2>12. /\ session' \in [Sessions -> SessionRecord]
         /\ \A p \in Sessions : SessionOK(p)'
         /\ HeldOK'
    BY <1>0, <2>1, <2>11, EndSession
  <2> QED BY <1>0, <1>a, <2>1, <2>6, <2>7, <2>8, <2>9, <2>10, <2>12 DEF bank
<1>13. ASSUME NEW s \in Sessions, Rollback(s)
       PROVE  CInv'
  <2>1. /\ session' \in [Sessions -> SessionRecord]
        /\ \A p \in Sessions : SessionOK(p)'
        /\ HeldOK'
    BY <1>0, <1>13, EndSession DEF Rollback
  <2> QED BY <1>13, <1>c, <2>1 DEF Rollback
<1>14. CASE UNCHANGED vars
  <2>1. session' = session /\ order' = order
    BY <1>14 DEF vars
  <2>2. (\A s \in Sessions : SessionOK(s)') /\ HeldOK'
    BY <1>0, <2>1 DEF SessionOK, HeldOK, WithDriver
  <2> QED BY <1>0, <1>14, <1>c, <2>2 DEF vars
<1> QED
  BY <1>1, <1>2, <1>3, <1>4, <1>5, <1>6, <1>7, <1>8, <1>9, <1>10, <1>11, <1>12,
     <1>13, <1>14 DEF Next

\* The invariant holds in every state of every behaviour.
LEMMA AlwaysCInv == Spec => []CInv
BY InitCInv, NextCInv, PTL DEF Spec

\* Rows, sessions and the branch's cash keep their types.
THEOREM TypeCorrect == Spec => []TypeOK
<1>1. CInv => TypeOK
  BY DEF CInv
<1> QED BY <1>1, AlwaysCInv, PTL

\* However handovers and approvals of deposits overlap, the cash of an order
\* leaves its driver once and is accounted for in one place: updateMany re-checks
\* cashStatus under the row locks.
THEOREM CashMovesOnce == Spec => []CashInOnePlace
<1>1. CInv => CashInOnePlace
  BY DEF CInv
<1> QED BY <1>1, AlwaysCInv, PTL

\* confirmHandover opens a bag of exactly the cash that moved into it, although it
\* adds up the orders before it locks them: the count check rolls back otherwise.
THEOREM HandoverExact == Spec => []BagAmountExact
<1>1. CInv => BagAmountExact
  BY DEF CInv
<1> QED BY <1>1, AlwaysCInv, PTL

-----------------------------------------------------------------------------
(* What an approval releases *)

Fits(orders, o, rest) == o \in orders /\ rest > 0 /\ Total[o] <= rest + Tolerance

\* One turn of the loop of applyDriverDepositSettlement, given the one before.
RestStep(g, orders, amount, o) ==
    IF o = 0 THEN amount
    ELSE IF Fits(orders, o, g[o - 1]) THEN g[o - 1] - Total[o]
    ELSE g[o - 1]

\* g tabulates what remains after each of the first n orders.
IsRest(g, orders, amount, n) == g = [o \in 0 .. n |-> RestStep(g, orders, amount, o)]

\* There is such a table, whatever the number of orders.
LEMMA RestExists ==
    ASSUME NEW orders, NEW amount, NEW n \in Nat
    PROVE  \E g : IsRest(g, orders, amount, n)
<1> DEFINE Good == {k \in Nat : \E g : IsRest(g, orders, amount, k)}
<1>1. 0 \in Good
  <2>1. IsRest([o \in 0 .. 0 |-> amount], orders, amount, 0)
    BY DEF IsRest, RestStep
  <2> QED BY <2>1
<1>2. ASSUME NEW k \in Nat, k \in Good PROVE k + 1 \in Good
  <2>1. PICK g : IsRest(g, orders, amount, k)
    BY <1>2
  <2> DEFINE h == [o \in 0 .. k + 1 |-> RestStep(g, orders, amount, o)]
  <2>2. ASSUME NEW o \in 0 .. k + 1, o # 0 PROVE h[o - 1] = g[o - 1]
    <3>1. o - 1 \in 0 .. k /\ o - 1 \in 0 .. k + 1
      BY <2>2
    <3>2. g[o - 1] = RestStep(g, orders, amount, o - 1)
      BY <2>1, <3>1 DEF IsRest
    <3> QED BY <3>1, <3>2
  <2>3. ASSUME NEW o \in 0 .. k + 1
        PROVE  RestStep(h, orders, amount, o) = RestStep(g, orders, amount, o)
    <3>1. o # 0 => h[o - 1] = g[o - 1]
      BY <2>2
    <3> HIDE DEF h
    <3> QED BY <3>1 DEF RestStep
  <2>4. IsRest(h, orders, amount, k + 1)
    BY <2>3 DEF IsRest
  <2> QED BY <2>4
<1> HIDE DEF Good
<1>3. Nat \subseteq Good
  BY <1>1, <1>2, NatGood
<1> QED BY <1>3 DEF Good

\* The orders released are those that fit in what remains before them.
LEMMA ReleasedByRest ==
    ASSUME NEW orders, NEW amount
    PROVE  \E g : /\ IsRest(g, orders, amount, MaxOrders)
                  /\ Released(orders, amount) = {o \in orders : Fits(orders, o, g[o - 1])}
<1> DEFINE g == CHOOSE u : IsRest(u, orders, amount, MaxOrders)
<1>1. IsRest(g, orders, amount, MaxOrders)
  BY CustodyAssumption, RestExists
<1>2. Released(orders, amount) = {o \in orders : Fits(orders, o, g[o - 1])}
  BY DEF Released, Fits, IsRest, RestStep
<1> QED BY <1>1, <1>2

\* A set of orders is finite, and its total a natural number.
LEMMA TotalType ==
    ASSUME NEW S \in SUBSET Orders
    PROVE  IsFiniteSet(S) /\ TotalOf(S) \in Nat /\ \A o \in S : Total[o] \in Nat
<1>0. IsFiniteSet(Orders)
  <2>1. MaxOrders \in Int /\ 1 \in Int
    BY CustodyAssumption
  <2> QED BY <2>1, FS_Interval DEF Orders
<1>1. IsFiniteSet(S)
  BY <1>0, FS_Subset
<1>2. \A o \in S : Total[o] \in Nat
  BY CustodyAssumption
<1> QED BY <1>1, <1>2, SumNat DEF TotalOf

\* What is released is covered by the amount, up to the tolerance: an order is
\* taken only when it fits, and what remains never falls below minus one unit.
LEMMA ReleasedCovered ==
    ASSUME NEW orders \in SUBSET Orders, NEW amount \in Nat
    PROVE  /\ Released(orders, amount) \in SUBSET orders
           /\ TotalOf(Released(orders, amount)) <= amount + Tolerance
<1>1. PICK g : /\ IsRest(g, orders, amount, MaxOrders)
               /\ Released(orders, amount) = {o \in orders : Fits(orders, o, g[o - 1])}
  BY ReleasedByRest
<1> DEFINE R == Released(orders, amount)
           Upto(n) == {o \in R : o <= n}
           Good == {n \in Nat : n <= MaxOrders =>
                       /\ g[n] \in Int /\ g[n] >= 0 - Tolerance
                       /\ TotalOf(Upto(n)) = amount - g[n]}
<1>2. R \in SUBSET orders /\ R \in SUBSET Orders /\ MaxOrders \in Nat
  BY <1>1, CustodyAssumption
<1>3. \A o \in orders : o \in R <=> Fits(orders, o, g[o - 1])
  BY <1>1
<1>4. \A o \in 0 .. MaxOrders : g[o] = RestStep(g, orders, amount, o)
  BY <1>1 DEF IsRest
<1>r. \A o \in R : o \in Nat /\ 1 <= o /\ o <= MaxOrders
  BY <1>2 DEF Orders
<1> HIDE DEF R
<1>5. 0 \in Good
  <2>1. g[0] = amount
    BY <1>2, <1>4 DEF RestStep
  <2>2. Upto(0) = {}
    BY <1>r
  <2>3. TotalOf({}) = 0
    BY SumEmpty DEF TotalOf
  <2> QED BY <2>1, <2>2, <2>3 DEF Tolerance
<1>6. ASSUME NEW n \in Nat, n \in Good PROVE n + 1 \in Good
  <2> SUFFICES ASSUME n + 1 <= MaxOrders
               PROVE  /\ g[n + 1] \in Int /\ g[n + 1] >= 0 - Tolerance
                      /\ TotalOf(Upto(n + 1)) = amount - g[n + 1]
    OBVIOUS
  <2>1. n + 1 \in 0 .. MaxOrders /\ n + 1 \in Orders /\ n + 1 # 0 /\ (n + 1) - 1 = n
    BY <1>2 DEF Orders
  <2>2. /\ g[n] \in Int /\ g[n] >= 0 - Tolerance /\ TotalOf(Upto(n)) = amount - g[n]
    BY <1>2, <1>6
  <2>3. g[n + 1] = IF Fits(orders, n + 1, g[n]) THEN g[n] - Total[n + 1] ELSE g[n]
    BY <1>4, <2>1 DEF RestStep
  <2>4. n + 1 \in R <=> Fits(orders, n + 1, g[n])
    BY <1>2, <1>3, <2>1 DEF Fits
  <2>5. CASE n + 1 \in R
    <3>1. Total[n + 1] \in Nat /\ Total[n + 1] <= g[n] + Tolerance
          /\ g[n + 1] = g[n] - Total[n + 1]
      BY <2>1, <2>3, <2>4, <2>5, CustodyAssumption DEF Fits
    <3>2. Upto(n + 1) = Upto(n) \cup {n + 1} /\ n + 1 \notin Upto(n)
          /\ Upto(n) \in SUBSET Orders /\ Upto(n + 1) \in SUBSET Orders
      BY <1>2, <1>r, <2>5
    <3> DEFINE U == Upto(n)
               V == Upto(n + 1)
    <3>3. V = U \cup {n + 1} /\ n + 1 \notin U /\ U \in SUBSET Orders
          /\ V \in SUBSET Orders /\ TotalOf(U) = amount - g[n]
      BY <2>2, <3>2
    <3> HIDE DEF U, V
    <3>4. IsFiniteSet(U) /\ \A o \in U \cup {n + 1} : Total[o] \in Int
      BY <3>1, <3>3, TotalType
    <3>6. TotalOf(V) = Total[n + 1] + TotalOf(U)
      BY <3>3, <3>4, SumAddElement DEF TotalOf
    <3>5. TotalOf(V) = amount - g[n + 1]
      BY <2>2, <3>1, <3>3, <3>6
    <3> QED BY <2>2, <3>1, <3>5 DEF V, Tolerance
  <2>6. CASE n + 1 \notin R
    <3>1. Upto(n + 1) = Upto(n)
      BY <1>r, <2>6
    <3>2. g[n + 1] = g[n]
      BY <2>3, <2>4, <2>6
    <3> QED BY <2>2, <3>1, <3>2
  <2> QED BY <2>5, <2>6
<1> HIDE DEF Good
<1>7. MaxOrders \in Good
  BY <1>2, <1>5, <1>6, NatGood
<1>8. Upto(MaxOrders) = R
  BY <1>r
<1>9. g[MaxOrders] \in Int /\ g[MaxOrders] >= 0 - Tolerance
      /\ TotalOf(R) = amount - g[MaxOrders]
  BY <1>2, <1>7, <1>8 DEF Good
<1> QED BY <1>2, <1>9 DEF R, Tolerance

-----------------------------------------------------------------------------
(* One request at a time *)

\* No two requests of the branch overlap.
OneAtATime == \A s, r \in Sessions : s = r

BagOperations == {"upload", "verify", "reject"}
AuditOperations == {"approve", "rejectDeposit"}

\* The status a handler checked still holds when it writes.
BagSeen ==
    \A s \in Sessions : session[s].op \in BagOperations =>
        bag[session[s].id].status \in Accepts(session[s].op)

BagsInv == BagSeen /\ BookedOnce

\* The deposit an auditor works on is still pending, the orders chosen for it are
\* covered by its amount, and the branch's balance is the one that was read.
DepositSeen ==
    \A s \in Sessions :
        /\ session[s].op \in AuditOperations => deposit[session[s].id].status = "PENDING"
        /\ session[s].op = "approve" /\ session[s].pc = "updated" =>
              TotalOf(session[s].seen) <= deposit[session[s].id].amount + Tolerance
        /\ session[s].op = "approve" /\ session[s].pc = "released" =>
              /\ TotalOf(session[s].held) <= deposit[session[s].id].amount + Tolerance
              /\ session[s].balance = branchCash

EmptyUntilApproved ==
    \A d \in Deposits : deposit[d].status # "APPROVED" => deposit[d].orders = {}

DepositsInv ==
    DepositSeen /\ EmptyUntilApproved /\ ApprovedOnce /\ DepositCoversOrders
        /\ BranchCashMatchesLedger

\* The invariant, with the types by their names.
LEMMA Rows ==
    ASSUME CInv
    PROVE  /\ bag \in [Bags -> BagRecord] /\ bagGL \in [Bags -> Nat]
           /\ deposit \in [Deposits -> DepositRecord] /\ depositGL \in [Deposits -> Nat]
           /\ branchCash \in Nat /\ session \in [Sessions -> SessionRecord]
           /\ \A s \in Sessions : SessionOK(s)
BY DEF CInv, TypeOK, BagRecord, DepositRecord, SessionRecord

\* The record of a session that has just started.
LEMMA Begun ==
    ASSUME session \in [Sessions -> SessionRecord], NEW s \in Sessions, NEW op, NEW id,
           NEW seen, NEW slip, Begin(s, op, id, seen, slip)
    PROVE  session'[s].op = op /\ session'[s].id = id /\ session'[s].pc = "read"
BY DEF Begin, Idle

\* The record of a session that has ended.
LEMMA Ended ==
    ASSUME session \in [Sessions -> SessionRecord], NEW s \in Sessions, End(s)
    PROVE  session'[s].op = "idle"
BY IdleType DEF End

\* A step that changes no bag, and after which a session works on a bag only if it
\* did before.
LEMMA BagsKept ==
    ASSUME BagsInv, UNCHANGED <<bag, bagGL>>,
           \A s \in Sessions : session'[s].op \in BagOperations => session'[s] = session[s]
    PROVE  BagsInv'
BY DEF BagsInv, BagSeen, BookedOnce, Accepts

\* The general ledger's row of a bag appears when the bag becomes verified.
LEMMA BagWritten ==
    ASSUME bag \in [Bags -> BagRecord], bagGL \in [Bags -> Nat], BookedOnce,
           NEW b \in Bags, NEW r \in BagRecord, bag' = [bag EXCEPT ![b] = r],
           bag[b].status # "VERIFIED",
           bagGL' = IF r.status = "VERIFIED" THEN [bagGL EXCEPT ![b] = @ + 1] ELSE bagGL
    PROVE  BookedOnce'
<1>1. bagGL[b] = 0
  BY DEF BookedOnce
<1>2. bag'[b] = r /\ \A c \in Bags : c # b => bag'[c] = bag[c]
  OBVIOUS
<1>3. /\ bagGL'[b] = IF r.status = "VERIFIED" THEN 1 ELSE 0
      /\ \A c \in Bags : c # b => bagGL'[c] = bagGL[c]
  BY <1>1
<1> QED BY <1>2, <1>3 DEF BookedOnce

\* Nothing is booked in the empty database.
LEMMA BagsInvInit == Init => BagsInv
<1>1. NoBag.status = "ABSENT"
  BY DEF NoBag
<1> QED BY <1>1, IdleType DEF Init, BagsInv, BagSeen, BookedOnce, BagOperations

\* Every step keeps what is said of the bags, when requests do not overlap.
LEMMA BagsInvNext ==
    ASSUME OneAtATime, CInv, BagsInv, [Next]_vars
    PROVE  BagsInv'
<1>0. /\ bag \in [Bags -> BagRecord] /\ bagGL \in [Bags -> Nat]
      /\ session \in [Sessions -> SessionRecord]
      /\ \A s \in Sessions : SessionOK(s)
      /\ BagSeen /\ BookedOnce
  BY Rows DEF BagsInv
<1>1. CASE \/ \E o \in Orders, d \in Drivers : Collect(o, d)
           \/ \E d \in Deposits, driver \in Drivers, amount \in Amounts :
                  CreateDeposit(d, driver, amount)
           \/ \E slip \in Slips, amount \in Amounts : RegisterSlip(slip, amount)
           \/ UNCHANGED vars
  BY <1>1, BagsKept DEF Collect, CreateDeposit, RegisterSlip, vars
<1>2. ASSUME NEW s \in Sessions, NEW d \in Drivers, NEW slip \in Slips \cup {NoSlip},
             BeginHandover(s, d, slip)
      PROVE  BagsInv'
  <2>1. session'[s].op = "handover" /\ UNCHANGED <<bag, bagGL>>
    BY <1>0, <1>2, Begun DEF BeginHandover
  <2> QED BY <2>1, BagsKept DEF OneAtATime, BagOperations
<1>3. ASSUME NEW s \in Sessions, NEW b \in Bags, CommitHandover(s, b)
      PROVE  BagsInv'
  <2> DEFINE r == [status |-> IF session[s].slip = NoSlip THEN "PENDING_DEPOSIT"
                              ELSE "AWAITING_VERIFICATION",
                   orders |-> StillWithDriver(session[s].seen),
                   amount |-> TotalOf(session[s].seen), slip |-> session[s].slip]
  <2>1. session[s].seen \in SUBSET Orders /\ session[s].slip \in Slips \cup {NoSlip}
    BY <1>0 DEF SessionRecord
  <2>2. r \in BagRecord /\ r.status # "VERIFIED"
    BY <2>1 DEF BagRecord, BagStatus, StillWithDriver
  <2>3. /\ bag' = [bag EXCEPT ![b] = r] /\ bag[b].status # "VERIFIED"
        /\ bagGL' = bagGL /\ End(s)
    BY <1>3 DEF CommitHandover, NoBag
  <2> HIDE DEF r
  <2>4. BookedOnce'
    BY <1>0, <2>2, <2>3, BagWritten
  <2>5. session'[s].op = "idle"
    BY <1>0, <2>3, Ended
  <2> QED BY <2>4, <2>5 DEF BagsInv, BagSeen, OneAtATime, BagOperations
<1>4. ASSUME NEW s \in Sessions, NEW op \in BagOperations, NEW b \in Bags,
             NEW slip \in Slips \cup {NoSlip}, BeginBag(s, op, b, slip)
      PROVE  BagsInv'
  <2>1. session'[s].op = op /\ session'[s].id = b /\ UNCHANGED <<bag, bagGL>>
    BY <1>0, <1>4, Begun DEF BeginBag
  <2>2. bag[b].status \in Accepts(op)
    BY <1>4 DEF BeginBag
  <2>3. BagSeen'
    BY <2>1, <2>2 DEF BagSeen, OneAtATime, Accepts
  <2> QED BY <1>0, <2>1, <2>3 DEF BagsInv, BookedOnce
<1>5. ASSUME NEW s \in Sessions, UploadSlip(s) \/ RejectBag(s) \/ VerifyBag(s)
      PROVE  BagsInv'
  <2>1. PICK b : b = session[s].id
    OBVIOUS
  <2>2. b \in Bags /\ End(s) /\ bag[b].status \in Accepts(session[s].op)
    BY <1>0, <1>5, <2>1
       DEF UploadSlip, RejectBag, VerifyBag, SessionOK, At, BagSeen, BagOperations
  <2>3. bag[b] \in BagRecord /\ bag[b].status # "VERIFIED"
    BY <1>0, <2>2 DEF Accepts
  <2>4. session[s].slip \in Slips \cup {NoSlip}
    BY <1>0 DEF SessionRecord
  <2>5. CASE UploadSlip(s)
    <3> DEFINE r == [bag[b] EXCEPT !.status = "AWAITING_VERIFICATION",
                                   !.slip = session[s].slip]
    <3>1. bag' = [bag EXCEPT ![b] = r] /\ bagGL' = bagGL
      BY <1>0, <2>1, <2>2, <2>5 DEF UploadSlip
    <3>2. r \in BagRecord /\ r.status = "AWAITING_VERIFICATION"
      BY <2>3, <2>4 DEF BagRecord, BagStatus
    <3> HIDE DEF r
    <3> QED BY <1>0, <2>2, <2>3, <3>1, <3>2, BagWritten, Ended
            DEF BagsInv, BagSeen, OneAtATime, BagOperations
  <2>6. CASE RejectBag(s)
    <3> DEFINE r == [bag[b] EXCEPT !.status = "REJECTED"]
    <3>1. bag' = [bag EXCEPT ![b] = r] /\ bagGL' = bagGL
      BY <1>0, <2>1, <2>2, <2>6 DEF RejectBag
    <3>2. r \in BagRecord /\ r.status = "REJECTED"
      BY <2>3 DEF BagRecord, BagStatus
    <3> HIDE DEF r
    <3> QED BY <1>0, <2>2, <2>3, <3>1, <3>2, BagWritten, Ended
            DEF BagsInv, BagSeen, OneAtATime, BagOperations
  <2>7. CASE VerifyBag(s)
    <3> DEFINE r == [bag[b] EXCEPT !.status = "VERIFIED"]
    <3>1. bag' = [bag EXCEPT ![b] = r] /\ bagGL' = [bagGL EXCEPT ![b] = @ + 1]
      BY <1>0, <2>1, <2>2, <2>7 DEF VerifyBag
    <3>2. r \in BagRecord /\ r.status = "VERIFIED"
      BY <2>3 DEF BagRecord, BagStatus
    <3> HIDE DEF r
    <3> QED BY <1>0, <2>2, <2>3, <3>1, <3>2, BagWritten, Ended
            DEF BagsInv, BagSeen, OneAtATime, BagOperations
  <2> QED BY <1>5, <2>5, <2>6, <2>7
<1>6. ASSUME NEW s \in Sessions, NEW d \in Deposits, NEW op \in AuditOperations,
             BeginAudit(s, op, d)
      PROVE  BagsInv'
  <2>1. session'[s].op = op /\ UNCHANGED <<bag, bagGL>>
    BY <1>0, <1>6, Begun DEF BeginAudit
  <2> QED BY <2>1, BagsKept DEF OneAtATime, BagOperations, AuditOperations
<1>7. ASSUME NEW s \in Sessions, RejectDeposit(s) \/ CommitApproval(s) \/ Rollback(s)
      PROVE  BagsInv'
  <2>1. session'[s].op = "idle" /\ UNCHANGED <<bag, bagGL>>
    BY <1>0, <1>7, Ended DEF RejectDeposit, CommitApproval, Rollback
  <2> QED BY <2>1, BagsKept DEF OneAtATime, BagOperations
<1>8. ASSUME NEW s \in Sessions, LockDeposit(s) \/ ReleaseOrders(s)
      PROVE  BagsInv'
  <2>1. session'[s].op = "approve" /\ UNCHANGED <<bag, bagGL>>
    BY <1>0, <1>8 DEF LockDeposit, ReleaseOrders, At, SessionRecord
  <2> QED BY <2>1, BagsKept DEF OneAtATime, BagOperations
<1> QED
  BY <1>1, <1>2, <1>3, <1>4, <1>5, <1>6, <1>7, <1>8
     DEF Next, BagOperations, AuditOperations

\* When no two requests overlap, verifyCustody books each bag in the general ledger
\* once, and no later handler takes a verified bag back: the status each handler
\* checks before its transaction is still the one it overwrites.
THEOREM BagsBookedOnce == ASSUME OneAtATime PROVE Spec => []BookedOnce
<1>1. CInv /\ BagsInv /\ [Next]_vars => BagsInv'
  BY BagsInvNext
<1>2. BagsInv => BookedOnce
  BY DEF BagsInv
<1> QED BY <1>1, <1>2, BagsInvInit, AlwaysCInv, PTL DEF Spec

-----------------------------------------------------------------------------
(* The deposits, one request at a time *)

\* What the general ledger booked for each deposit.
Booked == [d \in Deposits |-> depositGL[d] * deposit[d].amount]

\* The deposits are finitely many.
LEMMA DepositsFinite == IsFiniteSet(Deposits)
<1>1. MaxDeposits \in Int /\ 1 \in Int
  BY CustodyAssumption
<1> QED BY <1>1, FS_Interval DEF Deposits

\* The first booking of a deposit adds to the sum.
LEMMA FirstBooking ==
    ASSUME NEW f, NEW g, NEW d \in Deposits, f[d] = 0,
           \A e \in Deposits : f[e] \in Int /\ g[e] \in Int /\ (e # d => g[e] = f[e])
    PROVE  SumFunctionOnSet(g, Deposits) = SumFunctionOnSet(f, Deposits) + g[d]
<1>1. (\A e \in Deposits : f[e] \in Int /\ g[e] \in Int)
      /\ \A e \in Deposits \ {d} : g[e] = f[e]
  OBVIOUS
<1>2. SumFunctionOnSet(g, Deposits) = SumFunctionOnSet(f, Deposits) + (g[d] - f[d])
  BY <1>1, DepositsFinite, SumChange
<1> QED BY <1>2

\* A step that changes no deposit, and after which an auditor works on a deposit
\* only if he did before.
LEMMA DepositsKept ==
    ASSUME DepositsInv, UNCHANGED <<deposit, depositGL, branchCash>>,
           \A s \in Sessions : session'[s].op \in AuditOperations => session'[s] = session[s]
    PROVE  DepositsInv'
<1>1. DepositSeen'
  BY DEF DepositsInv, DepositSeen, AuditOperations
<1>2. /\ EmptyUntilApproved' /\ ApprovedOnce' /\ DepositCoversOrders'
      /\ BranchCashMatchesLedger'
  BY DEF DepositsInv, EmptyUntilApproved, ApprovedOnce, DepositCoversOrders,
         BranchCashMatchesLedger
<1> QED BY <1>1, <1>2 DEF DepositsInv

\* One deposit is written: its ledger row appears when it is approved, and the
\* branch's cash grows by what is booked.
LEMMA DepositWritten ==
    ASSUME deposit \in [Deposits -> DepositRecord], depositGL \in [Deposits -> Nat],
           branchCash \in Nat, EmptyUntilApproved, ApprovedOnce, DepositCoversOrders,
           BranchCashMatchesLedger,
           NEW d \in Deposits, NEW r \in DepositRecord,
           deposit' = [deposit EXCEPT ![d] = r], deposit[d].status # "APPROVED",
           r.status # "APPROVED" => /\ r.orders = {} /\ depositGL' = depositGL
                                    /\ branchCash' = branchCash,
           r.status = "APPROVED" => /\ depositGL' = [depositGL EXCEPT ![d] = @ + 1]
                                    /\ branchCash' = branchCash + r.amount
                                    /\ TotalOf(r.orders) <= r.amount + Tolerance
    PROVE  EmptyUntilApproved' /\ ApprovedOnce' /\ DepositCoversOrders'
           /\ BranchCashMatchesLedger'
<1>1. depositGL[d] = 0 /\ r.amount \in Nat
  BY DEF ApprovedOnce, DepositRecord
<1>2. deposit'[d] = r /\ \A e \in Deposits : e # d => deposit'[e] = deposit[e]
  OBVIOUS
<1>3. /\ depositGL'[d] = IF r.status = "APPROVED" THEN 1 ELSE 0
      /\ \A e \in Deposits : e # d => depositGL'[e] = depositGL[e]
  BY <1>1
<1>4. EmptyUntilApproved' /\ ApprovedOnce'
  BY <1>2, <1>3 DEF EmptyUntilApproved, ApprovedOnce
<1>5. TotalOf({}) = 0
  BY SumEmpty DEF TotalOf
<1>6. DepositCoversOrders'
  <2>1. TotalOf(r.orders) <= r.amount + Tolerance
    BY <1>1, <1>5 DEF Tolerance
  <2> QED BY <1>2, <2>1 DEF DepositCoversOrders
<1>7. BranchCashMatchesLedger'
  <2>1. PICK f : f = Booked
    OBVIOUS
  <2>2. PICK g : g = Booked'
    OBVIOUS
  <2>3. \A e \in Deposits : /\ f[e] = depositGL[e] * deposit[e].amount
                            /\ g[e] = depositGL'[e] * deposit'[e].amount
    BY <2>1, <2>2 DEF Booked
  <2>4. \A e \in Deposits : deposit[e].amount \in Nat /\ depositGL[e] \in {0, 1}
    BY DEF DepositRecord, ApprovedOnce
  <2>5. \A e \in Deposits : f[e] \in Int
    BY <2>3, <2>4
  <2>6. f[d] = 0 /\ g[d] = IF r.status = "APPROVED" THEN r.amount ELSE 0
    BY <1>1, <1>2, <1>3, <2>3, <2>4
  <2>7. \A e \in Deposits : e # d => g[e] = f[e]
    BY <1>2, <1>3, <2>3
  <2>8. \A e \in Deposits : f[e] \in Int /\ g[e] \in Int /\ (e # d => g[e] = f[e])
    BY <1>1, <2>5, <2>6, <2>7
  <2>9. SumFunctionOnSet(g, Deposits) = SumFunctionOnSet(f, Deposits) + g[d]
    BY <2>6, <2>8, FirstBooking
  <2>10. branchCash = SumFunctionOnSet(f, Deposits)
    BY <2>1 DEF BranchCashMatchesLedger, Booked
  <2>11. branchCash' = SumFunctionOnSet(g, Deposits)
    BY <1>1, <2>6, <2>9, <2>10
  <2> QED BY <2>2, <2>11 DEF BranchCashMatchesLedger, Booked
<1> QED BY <1>4, <1>6, <1>7

\* Nothing is deposited in the empty database.
LEMMA DepositsInvInit == Init => DepositsInv
<1> SUFFICES ASSUME Init PROVE DepositsInv
  OBVIOUS
<1>1. /\ NoDeposit.status = "ABSENT" /\ NoDeposit.orders = {} /\ NoDeposit.amount = 0
  BY DEF NoDeposit
<1>2. TotalOf({}) = 0
  BY SumEmpty DEF TotalOf
<1>3. DepositSeen
  BY IdleType DEF Init, DepositSeen, AuditOperations
<1>4. EmptyUntilApproved /\ ApprovedOnce /\ DepositCoversOrders
  BY <1>1, <1>2, SMTT(30)
     DEF Init, EmptyUntilApproved, ApprovedOnce, DepositCoversOrders, Tolerance
<1>5. \A d \in Deposits : Booked[d] = 0
  BY <1>1 DEF Init, Booked
<1>6. SumFunctionOnSet(Booked, Deposits) = 0
  BY <1>5, DepositsFinite, SumZero
<1>7. BranchCashMatchesLedger
  BY <1>6 DEF Init, BranchCashMatchesLedger, Booked
<1> QED BY <1>3, <1>4, <1>7 DEF DepositsInv

\* Every step keeps what is said of the deposits, when requests do not overlap.
LEMMA DepositsInvNext ==
    ASSUME OneAtATime, CInv, DepositsInv, [Next]_vars
    PROVE  DepositsInv'
<1>0. /\ deposit \in [Deposits -> DepositRecord] /\ depositGL \in [Deposits -> Nat]
      /\ branchCash \in Nat /\ session \in [Sessions -> SessionRecord]
      /\ \A s \in Sessions : SessionOK(s)
      /\ DepositSeen /\ EmptyUntilApproved /\ ApprovedOnce /\ DepositCoversOrders
      /\ BranchCashMatchesLedger
  BY Rows DEF DepositsInv
<1>1. CASE \/ \E o \in Orders, d \in Drivers : Collect(o, d)
           \/ \E slip \in Slips, amount \in Amounts : RegisterSlip(slip, amount)
           \/ UNCHANGED vars
  BY <1>1, DepositsKept DEF Collect, RegisterSlip, vars
<1>2. ASSUME NEW d \in Deposits, NEW driver \in Drivers, NEW amount \in Amounts,
             CreateDeposit(d, driver, amount)
      PROVE  DepositsInv'
  <2> DEFINE r == [status |-> "PENDING", driver |-> driver, amount |-> amount,
                   orders |-> {}]
  <2>1. r \in DepositRecord /\ r.orders = {} /\ r.status = "PENDING"
    BY CustodyAssumption DEF DepositRecord, DepositStatus
  <2>2. /\ deposit' = [deposit EXCEPT ![d] = r] /\ deposit[d].status = "ABSENT"
        /\ UNCHANGED <<depositGL, branchCash, session>>
    BY <1>2 DEF CreateDeposit, NoDeposit
  <2> HIDE DEF r
  <2>3. EmptyUntilApproved' /\ ApprovedOnce' /\ DepositCoversOrders'
        /\ BranchCashMatchesLedger'
    BY <1>0, <2>1, <2>2, DepositWritten
  <2>4. \A e \in Deposits : deposit[e].status = "PENDING" => deposit'[e] = deposit[e]
    BY <1>0, <2>2
  <2>5. \A s \in Sessions : session[s].op \in AuditOperations =>
            deposit'[session[s].id] = deposit[session[s].id]
    BY <1>0, <2>4 DEF DepositSeen, SessionOK, AuditOperations
  <2>6. DepositSeen'
    BY <1>0, <2>2, <2>5 DEF DepositSeen, AuditOperations
  <2> QED BY <2>3, <2>6 DEF DepositsInv
<1>3. ASSUME NEW s \in Sessions, NEW d \in Drivers, NEW slip \in Slips \cup {NoSlip},
             BeginHandover(s, d, slip)
      PROVE  DepositsInv'
  <2>1. session'[s].op = "handover" /\ UNCHANGED <<deposit, depositGL, branchCash>>
    BY <1>0, <1>3, Begun DEF BeginHandover
  <2> QED BY <2>1, DepositsKept DEF OneAtATime, AuditOperations
<1>4. ASSUME NEW s \in Sessions, NEW op \in BagOperations, NEW b \in Bags,
             NEW slip \in Slips \cup {NoSlip}, BeginBag(s, op, b, slip)
      PROVE  DepositsInv'
  <2>1. session'[s].op = op /\ UNCHANGED <<deposit, depositGL, branchCash>>
    BY <1>0, <1>4, Begun DEF BeginBag
  <2> QED BY <2>1, DepositsKept DEF OneAtATime, AuditOperations, BagOperations
<1>5. ASSUME NEW s \in Sessions,
             \/ \E b \in Bags : CommitHandover(s, b)
             \/ UploadSlip(s) \/ RejectBag(s) \/ VerifyBag(s) \/ Rollback(s)
      PROVE  DepositsInv'
  <2>1. End(s) /\ UNCHANGED <<deposit, depositGL, branchCash>>
    BY <1>5 DEF CommitHandover, UploadSlip, RejectBag, VerifyBag, Rollback
  <2>2. session'[s].op = "idle"
    BY <1>0, <2>1, Ended
  <2> QED BY <2>1, <2>2, DepositsKept DEF OneAtATime, AuditOperations
<1>6. ASSUME NEW s \in Sessions, NEW d \in Deposits, NEW op \in AuditOperations,
             BeginAudit(s, op, d)
      PROVE  DepositsInv'
  <2>1. session'[s].op = op /\ session'[s].id = d /\ session'[s].pc = "read"
        /\ UNCHANGED <<deposit, depositGL, branchCash>> /\ deposit[d].status = "PENDING"
    BY <1>0, <1>6, Begun DEF BeginAudit
  <2>2. DepositSeen'
    BY <2>1 DEF DepositSeen, OneAtATime
  <2> QED BY <1>0, <2>1, <2>2 DEF DepositsInv, EmptyUntilApproved, ApprovedOnce,
             DepositCoversOrders, BranchCashMatchesLedger
<1>7. ASSUME NEW s \in Sessions, RejectDeposit(s)
      PROVE  DepositsInv'
  <2>1. PICK d : d = session[s].id
    OBVIOUS
  <2>2. d \in Deposits /\ End(s) /\ deposit[d].status = "PENDING"
        /\ UNCHANGED <<depositGL, branchCash>>
    BY <1>0, <1>7, <2>1 DEF RejectDeposit, At, SessionOK, DepositSeen, AuditOperations
  <2>3. deposit[d] \in DepositRecord /\ deposit[d].orders = {}
    BY <1>0, <2>2 DEF EmptyUntilApproved
  <2> DEFINE r == [deposit[d] EXCEPT !.status = "REJECTED"]
  <2>4. deposit' = [deposit EXCEPT ![d] = r]
    BY <1>0, <1>7, <2>1, <2>2 DEF RejectDeposit
  <2>5. r \in DepositRecord /\ r.status = "REJECTED" /\ r.orders = {}
    BY <2>3 DEF DepositRecord, DepositStatus
  <2> HIDE DEF r
  <2>6. EmptyUntilApproved' /\ ApprovedOnce' /\ DepositCoversOrders'
        /\ BranchCashMatchesLedger'
    BY <1>0, <2>2, <2>4, <2>5, DepositWritten
  <2>7. session'[s].op = "idle"
    BY <1>0, <2>2, Ended
  <2>8. DepositSeen'
    BY <2>7 DEF DepositSeen, OneAtATime, AuditOperations
  <2> QED BY <2>6, <2>8 DEF DepositsInv
<1>8. ASSUME NEW s \in Sessions, LockDeposit(s)
      PROVE  DepositsInv'
  <2>1. PICK d : d = session[s].id
    OBVIOUS
  <2>2. PICK S : S = Released(Pending(deposit[d].driver), deposit[d].amount)
    OBVIOUS
  <2>3. d \in Deposits /\ deposit[d].status = "PENDING" /\ session[s].op = "approve"
        /\ UNCHANGED <<deposit, depositGL, branchCash>>
    BY <1>0, <1>8, <2>1 DEF LockDeposit, At, SessionOK, DepositSeen, AuditOperations
  <2>4. deposit[d].amount \in Nat /\ Pending(deposit[d].driver) \in SUBSET Orders
    BY <1>0, <2>3 DEF DepositRecord, Pending
  <2>5. TotalOf(S) <= deposit[d].amount + Tolerance
    BY <2>2, <2>4, ReleasedCovered
  <2>6. session' = [session EXCEPT ![s] = [session[s] EXCEPT !.pc = "updated", !.seen = S]]
    BY <1>0, <1>8, <2>1, <2>2 DEF LockDeposit
  <2>7. session'[s].op = "approve" /\ session'[s].id = d /\ session'[s].pc = "updated"
        /\ session'[s].seen = S
    BY <1>0, <2>1, <2>3, <2>6 DEF SessionRecord
  <2>8. DepositSeen'
    BY <2>3, <2>5, <2>7 DEF DepositSeen, OneAtATime
  <2> QED BY <1>0, <2>3, <2>8 DEF DepositsInv, EmptyUntilApproved, ApprovedOnce,
             DepositCoversOrders, BranchCashMatchesLedger
<1>9. ASSUME NEW s \in Sessions, ReleaseOrders(s)
      PROVE  DepositsInv'
  <2>1. PICK d : d = session[s].id
    OBVIOUS
  <2>2. PICK S : S = StillWithDriver(session[s].seen)
    OBVIOUS
  <2>3. d \in Deposits /\ deposit[d].status = "PENDING" /\ session[s].op = "approve"
        /\ TotalOf(session[s].seen) <= deposit[d].amount + Tolerance
        /\ UNCHANGED <<deposit, depositGL, branchCash>>
    BY <1>0, <1>9, <2>1 DEF ReleaseOrders, At, SessionOK, DepositSeen, AuditOperations
  <2>4. deposit[d].amount \in Nat
    BY <1>0, <2>3 DEF DepositRecord
  <2>5. session[s].seen \in SUBSET Orders /\ S \in SUBSET session[s].seen
    BY <1>0, <2>2 DEF SessionRecord, StillWithDriver
  <2>6. TotalOf(S) <= TotalOf(session[s].seen)
    <3>1. PICK R : R = session[s].seen
      OBVIOUS
    <3>2. IsFiniteSet(R) /\ S \in SUBSET R /\ \A o \in R : Total[o] \in Nat
      BY <2>5, <3>1, TotalType
    <3> QED BY <3>1, <3>2, SumSubset DEF TotalOf
  <2>7. TotalOf(S) <= deposit[d].amount + Tolerance
    BY <2>3, <2>4, <2>5, <2>6, TotalType DEF Tolerance
  <2>8. session' = [session EXCEPT ![s] = [session[s] EXCEPT !.pc = "released",
                        !.held = S, !.balance = branchCash]]
    BY <1>0, <1>9, <2>2 DEF ReleaseOrders
  <2>9. session'[s].op = "approve" /\ session'[s].id = d /\ session'[s].pc = "released"
        /\ session'[s].held = S /\ session'[s].balance = branchCash
    BY <1>0, <2>1, <2>3, <2>8 DEF SessionRecord
  <2>10. DepositSeen'
    BY <2>3, <2>7, <2>9 DEF DepositSeen, OneAtATime
  <2> QED BY <1>0, <2>3, <2>10 DEF DepositsInv, EmptyUntilApproved, ApprovedOnce,
             DepositCoversOrders, BranchCashMatchesLedger
<1>10. ASSUME NEW s \in Sessions, CommitApproval(s)
       PROVE  DepositsInv'
  <2>1. PICK d, S : d = session[s].id /\ S = session[s].held
    OBVIOUS
  <2>2. d \in Deposits /\ End(s) /\ deposit[d].status = "PENDING"
        /\ TotalOf(S) <= deposit[d].amount + Tolerance
        /\ session[s].balance = branchCash
    BY <1>0, <1>10, <2>1 DEF CommitApproval, At, SessionOK, DepositSeen, AuditOperations
  <2>3. deposit[d] \in DepositRecord /\ deposit[d].orders = {} /\ S \in SUBSET Orders
    BY <1>0, <2>1, <2>2 DEF EmptyUntilApproved, SessionRecord
  <2> DEFINE r == [deposit[d] EXCEPT !.status = "APPROVED", !.orders = @ \cup S]
  <2>4. deposit' = [deposit EXCEPT ![d] = r]
    BY <1>0, <1>10, <2>1, <2>2 DEF CommitApproval
  <2>5. r \in DepositRecord /\ r.status = "APPROVED" /\ r.orders = S
        /\ r.amount = deposit[d].amount
    BY <2>3 DEF DepositRecord, DepositStatus
  <2>6. depositGL' = [depositGL EXCEPT ![d] = @ + 1] /\ branchCash' = branchCash + r.amount
    BY <1>10, <2>1, <2>2, <2>5 DEF CommitApproval, NewBalance
  <2> HIDE DEF r
  <2>7. EmptyUntilApproved' /\ ApprovedOnce' /\ DepositCoversOrders'
        /\ BranchCashMatchesLedger'
    BY <1>0, <2>2, <2>4, <2>5, <2>6, DepositWritten
  <2>8. session'[s].op = "idle"
    BY <1>0, <2>2, Ended
  <2>9. DepositSeen'
    BY <2>8 DEF DepositSeen, OneAtATime, AuditOperations
  <2> QED BY <2>7, <2>9 DEF DepositsInv
<1> QED
  BY <1>1, <1>2, <1>3, <1>4, <1>5, <1>6, <1>7, <1>8, <1>9, <1>10
     DEF Next, BagOperations, AuditOperations

\* The invariant of the deposits holds in every state, when requests do not overlap.
LEMMA AlwaysDepositsInv == ASSUME OneAtATime PROVE Spec => []DepositsInv
<1>1. CInv /\ DepositsInv /\ [Next]_vars => DepositsInv'
  BY DepositsInvNext
<1> QED BY <1>1, DepositsInvInit, AlwaysCInv, PTL DEF Spec

\* When no two requests overlap, the orders an approved deposit releases cost no
\* more than what was deposited, up to one minor unit, for every number of orders
\* and every amount: the loop of applyDriverDepositSettlement never overspends.
THEOREM DepositsCover == ASSUME OneAtATime PROVE Spec => []DepositCoversOrders
<1>1. DepositsInv => DepositCoversOrders
  BY DEF DepositsInv
<1> QED BY <1>1, AlwaysDepositsInv, PTL

\* When no two requests overlap, the branch's cash is the sum of what the ledger
\* booked: the balance an approval read is still the one it overwrites.
THEOREM BranchCashExact == ASSUME OneAtATime PROVE Spec => []BranchCashMatchesLedger
<1>1. DepositsInv => BranchCashMatchesLedger
  BY DEF DepositsInv
<1> QED BY <1>1, AlwaysDepositsInv, PTL

\* When no two requests overlap, a deposit is booked in the ledger once, when it is
\* approved, and never after it was rejected.
THEOREM DepositBookedOnce == ASSUME OneAtATime PROVE Spec => []ApprovedOnce
<1>1. DepositsInv => ApprovedOnce
  BY DEF DepositsInv
<1> QED BY <1>1, AlwaysDepositsInv, PTL

-----------------------------------------------------------------------------
(* EventDispatcher: the inductive invariant *)

\* What a tick holds: a row is waiting, accepted or refused, and only one of
\* them; an accepted row did reach the broker, and a row that is not accepted
\* had attempts left when it was read.
PodOK(p) ==
    /\ pod[p].queue \cap pod[p].acked = {}
    /\ pod[p].queue \cap pod[p].refused = {}
    /\ pod[p].acked \cap pod[p].refused = {}
    /\ \A e \in pod[p].acked : shipped[e] > 0
    /\ \A e \in pod[p].queue \cup pod[p].refused : pod[p].seen[e] < MaxAttempts

\* Every emission is accounted for by the stored row, an outage or a replay, with
\* room for the emission a publisher still owes.
EmitsOK(e) ==
    emitted[e] + (IF e \in emitting THEN 1 ELSE 0)
        <= (IF published[e] > 0 THEN 1 ELSE 0) + faults + replays

DInv ==
    /\ OutboxTypeOK
    /\ \A p \in Pods : PodOK(p)
    /\ DeliveredWasShipped
    /\ \A e \in Events : EmitsOK(e)

\* Before anything is published the invariant holds.
LEMMA InitDInv == OutboxInit => DInv
<1> SUFFICES ASSUME OutboxInit PROVE DInv
  OBVIOUS
<1> USE DispatcherAssumption DEF OutboxInit, NoTick
<1>1. OutboxTypeOK
  BY DEF OutboxTypeOK, PodState
<1>2. \A p \in Pods : PodOK(p)
  BY DEF PodOK
<1>3. DeliveredWasShipped
  BY DEF DeliveredWasShipped
<1>4. \A e \in Events : EmitsOK(e)
  BY DEF EmitsOK
<1> QED BY <1>1, <1>2, <1>3, <1>4 DEF DInv

\* A new row gets a position after every row stored so far.
LEMMA PositionType == Cardinality(Stored) \in Nat
<1>1. IsFiniteSet(Stored)
  BY DispatcherAssumption, FS_Subset DEF Stored
<1> QED BY <1>1, FS_CardinalityType

\* A step of the bus leaves the ticks alone, and a broker count that grows does
\* not disturb them.
LEMMA PodsUntouched ==
    ASSUME DInv, pod' = pod, shipped' \in [Events -> Nat],
           \A e \in Events : shipped'[e] >= shipped[e]
    PROVE  \A p \in Pods : PodOK(p)'
<1> SUFFICES ASSUME NEW p \in Pods PROVE PodOK(p)'
  OBVIOUS
<1>1. PodOK(p) /\ pod[p] \in PodState /\ shipped \in [Events -> Nat]
  BY DEF DInv, OutboxTypeOK
<1>2. \A e \in pod[p].acked : e \in Events
  BY <1>1 DEF PodState
<1> QED BY <1>1, <1>2 DEF PodOK

\* A step that changes the tick of one pod.
LEMMA OneTick ==
    ASSUME DInv, NEW p \in Pods, NEW s \in PodState, pod' = [pod EXCEPT ![p] = s],
           shipped' \in [Events -> Nat],
           \A e \in Events : shipped'[e] >= shipped[e],
           s.queue \cap s.acked = {}, s.queue \cap s.refused = {},
           s.acked \cap s.refused = {},
           \A e \in s.acked : shipped'[e] > 0,
           \A e \in s.queue \cup s.refused : s.seen[e] < MaxAttempts
    PROVE  pod' \in [Pods -> PodState] /\ \A q \in Pods : PodOK(q)'
<1>1. pod \in [Pods -> PodState] /\ shipped \in [Events -> Nat] /\ \A q \in Pods : PodOK(q)
  BY DEF DInv, OutboxTypeOK
<1>2. pod' \in [Pods -> PodState]
  BY <1>1
<1>3. ASSUME NEW q \in Pods PROVE PodOK(q)'
  <2>1. CASE q = p
    <3>1. pod'[q] = s
      BY <1>1, <2>1
    <3> QED BY <3>1 DEF PodOK
  <2>2. CASE q # p
    <3>1. pod'[q] = pod[q]
      BY <1>1, <2>2
    <3>2. PodOK(q) /\ pod[q] \in PodState
      BY <1>1
    <3>3. \A e \in pod[q].acked : e \in Events
      BY <3>2 DEF PodState
    <3> QED BY <1>1, <3>1, <3>2, <3>3 DEF PodOK
  <2> QED BY <2>1, <2>2
<1> QED BY <1>2, <1>3

\* Every step keeps the invariant.
LEMMA NextDInv == DInv /\ [OutboxNext]_outboxVars => DInv'
<1> SUFFICES ASSUME DInv, [OutboxNext]_outboxVars PROVE DInv'
  OBVIOUS
<1>0. /\ OutboxTypeOK
      /\ \A p \in Pods : PodOK(p)
      /\ DeliveredWasShipped
      /\ \A e \in Events : EmitsOK(e)
  BY DEF DInv
<1> USE DispatcherAssumption
<1>a. ASSUME NEW f \in [Events -> Nat], NEW e \in Events
      PROVE  /\ Count(f, e) \in [Events -> Nat]
             /\ Count(f, e)[e] = f[e] + 1
             /\ \A g \in Events \ {e} : Count(f, e)[g] = f[g]
             /\ \A g \in Events : Count(f, e)[g] >= f[g]
  BY DEF Count
<1>1. ASSUME NEW e \in Events, Insert(e)
      PROVE  DInv'
  <2>1. OutboxTypeOK'
    BY <1>0, <1>1, PositionType DEF Insert, OutboxTypeOK
  <2>2. \A p \in Pods : PodOK(p)'
    BY <1>0, <1>1, PodsUntouched DEF Insert, OutboxTypeOK
  <2>3. DeliveredWasShipped'
    BY <1>0, <1>1 DEF Insert, DeliveredWasShipped
  <2>4. \A g \in Events : EmitsOK(g)'
    BY <1>0, <1>1, PositionType DEF Insert, EmitsOK, OutboxTypeOK, Stored
  <2> QED BY <2>1, <2>2, <2>3, <2>4 DEF DInv
<1>2. ASSUME NEW e \in Events,
             Emit(e) \/ PersistFails(e) \/ PublisherCrash(e) \/ ReplayEmit(e)
      PROVE  DInv'
  <2>0. pod' = pod /\ shipped' = shipped /\ published' = published
        /\ attempts' = attempts /\ delivered' = delivered
    BY <1>2 DEF Emit, PersistFails, PublisherCrash, ReplayEmit, rows
  <2>1. OutboxTypeOK'
    BY <1>0, <1>2, <2>0, <1>a
       DEF Emit, PersistFails, PublisherCrash, ReplayEmit, OutboxTypeOK, Fault, Replay
  <2>2. \A p \in Pods : PodOK(p)'
    BY <1>0, <2>0, PodsUntouched DEF OutboxTypeOK
  <2>3. DeliveredWasShipped'
    BY <1>0, <2>0 DEF DeliveredWasShipped
  <2>4. ASSUME NEW g \in Events PROVE EmitsOK(g)'
    <3>0. /\ emitted \in [Events -> Nat] /\ faults \in Nat /\ replays \in Nat
          /\ EmitsOK(g)
      BY <1>0 DEF OutboxTypeOK
    <3>1. CASE Emit(e)
      BY <3>0, <2>0, <3>1 DEF Emit, EmitsOK, Count
    <3>2. CASE PersistFails(e)
      BY <3>0, <2>0, <3>2 DEF PersistFails, Fault, EmitsOK, Count
    <3>3. CASE PublisherCrash(e)
      BY <3>0, <2>0, <3>3 DEF PublisherCrash, Fault, EmitsOK
    <3>4. CASE ReplayEmit(e)
      BY <3>0, <2>0, <3>4 DEF ReplayEmit, Replay, EmitsOK, Count
    <3> QED BY <1>2, <3>1, <3>2, <3>3, <3>4
  <2> QED BY <2>1, <2>2, <2>3, <2>4 DEF DInv
<1>3. ASSUME NEW e \in Events, ReplayShip(e)
      PROVE  DInv'
  <2>1. OutboxTypeOK'
    BY <1>0, <1>3, <1>a DEF ReplayShip, Replay, OutboxTypeOK, rows
  <2>2. \A p \in Pods : PodOK(p)'
    BY <1>0, <1>3, <1>a, PodsUntouched DEF ReplayShip, OutboxTypeOK
  <2>3. DeliveredWasShipped'
    BY <1>0, <1>3, <1>a DEF ReplayShip, DeliveredWasShipped, OutboxTypeOK, rows
  <2>4. \A g \in Events : EmitsOK(g)'
    BY <1>0, <1>3 DEF ReplayShip, Replay, EmitsOK, OutboxTypeOK, rows
  <2> QED BY <2>1, <2>2, <2>3, <2>4 DEF DInv
<1>b. ASSUME emitted' = emitted, emitting' = emitting, published' = published,
             faults' \in Nat, faults' >= faults, replays' = replays
      PROVE  \A g \in Events : EmitsOK(g)'
  BY <1>0, <1>b DEF EmitsOK, OutboxTypeOK
<1>4. ASSUME NEW p \in Pods,
             \/ BeginTick(p) \/ Unhealthy(p) \/ Fetch(p) \/ EndTick(p) \/ Restart(p)
      PROVE  DInv'
  <2>0. /\ UNCHANGED <<published, attempts, delivered, emitting, emitted, shipped, replays>>
        /\ faults' \in 0 .. MaxFaults /\ faults' >= faults
    BY <1>0, <1>4 DEF BeginTick, Unhealthy, Fetch, EndTick, Restart, Fault, rows, OutboxTypeOK
  <2>1. /\ pod[p] \in PodState /\ NoTick \in PodState /\ PodOK(p)
        /\ attempts \in [Events -> 0 .. MaxAttempts]
        /\ shipped' \in [Events -> Nat] /\ \A e \in Events : shipped'[e] >= shipped[e]
    BY <1>0, <2>0 DEF OutboxTypeOK, PodState, NoTick
  <2>2. pod' \in [Pods -> PodState] /\ \A q \in Pods : PodOK(q)'
    <3>1. CASE BeginTick(p)
      <4> DEFINE s == [pod[p] EXCEPT !.phase = "checking"]
      <4>1. /\ s \in PodState /\ s.queue = pod[p].queue /\ s.seen = pod[p].seen
            /\ s.acked = pod[p].acked /\ s.refused = pod[p].refused
        BY <2>1 DEF PodState
      <4>2. pod' = [pod EXCEPT ![p] = s]
        BY <3>1 DEF BeginTick
      <4>3. /\ s.queue \cap s.acked = {} /\ s.queue \cap s.refused = {}
            /\ s.acked \cap s.refused = {}
            /\ \A e \in s.acked : shipped'[e] > 0
            /\ \A e \in s.queue \cup s.refused : s.seen[e] < MaxAttempts
        BY <2>0, <2>1, <4>1 DEF PodOK
      <4> HIDE DEF s
      <4> QED BY <2>1, <4>1, <4>2, <4>3, OneTick
    <3>2. CASE Fetch(p)
      <4> DEFINE s == [NoTick EXCEPT !.phase = "shipping", !.queue = Batch, !.seen = attempts]
      <4>1. Batch \subseteq Events /\ \A e \in Batch : attempts[e] < MaxAttempts
        BY DEF Batch, Selectable
      <4>2. /\ s \in PodState /\ s.queue = Batch /\ s.seen = attempts
            /\ s.acked = {} /\ s.refused = {}
        BY <2>1, <4>1 DEF PodState, NoTick
      <4>3. pod' = [pod EXCEPT ![p] = s]
        BY <3>2 DEF Fetch
      <4> HIDE DEF s
      <4>4. /\ s.queue \cap s.acked = {} /\ s.queue \cap s.refused = {}
            /\ s.acked \cap s.refused = {}
            /\ \A e \in s.acked : shipped'[e] > 0
            /\ \A e \in s.queue \cup s.refused : s.seen[e] < MaxAttempts
        BY <4>1, <4>2
      <4> QED BY <2>1, <4>2, <4>3, <4>4, OneTick
    <3>3. CASE Unhealthy(p) \/ EndTick(p) \/ Restart(p)
      <4>1. pod' = [pod EXCEPT ![p] = NoTick]
        BY <3>3 DEF Unhealthy, EndTick, Restart
      <4>2. NoTick.queue = {} /\ NoTick.acked = {} /\ NoTick.refused = {}
        BY DEF NoTick
      <4> QED BY <2>1, <4>1, <4>2, OneTick
    <3> QED BY <1>4, <3>1, <3>2, <3>3
  <2>3. OutboxTypeOK'
    BY <1>0, <2>0, <2>2 DEF OutboxTypeOK
  <2>4. DeliveredWasShipped'
    BY <1>0, <2>0 DEF DeliveredWasShipped
  <2>5. \A g \in Events : EmitsOK(g)'
    BY <1>b, <2>0
  <2> QED BY <2>2, <2>3, <2>4, <2>5 DEF DInv
<1>5. ASSUME NEW p \in Pods, NEW e \in Events,
             \/ Ship(p, e) \/ Refuse(p, e) \/ MarkDelivered(p, e)
             \/ RecordFailure(p, e) \/ UpdateFails(p, e)
      PROVE  DInv'
  <2>0. /\ UNCHANGED <<published, emitting, emitted, replays>>
        /\ faults' \in 0 .. MaxFaults /\ faults' >= faults
    BY <1>0, <1>5
       DEF Ship, Refuse, MarkDelivered, RecordFailure, UpdateFails, Fault, rows, OutboxTypeOK
  <2>1. /\ pod[p] \in PodState /\ PodOK(p) /\ shipped \in [Events -> Nat]
        /\ attempts \in [Events -> 0 .. MaxAttempts]
        /\ pod[p].seen \in [Events -> 0 .. MaxAttempts]
    BY <1>0 DEF OutboxTypeOK, PodState
  <2>2. shipped' \in [Events -> Nat] /\ \A g \in Events : shipped'[g] >= shipped[g]
    <3>1. CASE Ship(p, e)
      BY <2>1, <3>1, <1>a DEF Ship
    <3>2. CASE Refuse(p, e)
      BY <2>1, <3>2, <1>a DEF Refuse
    <3>3. CASE ~Ship(p, e) /\ ~Refuse(p, e)
      <4>1. shipped' = shipped
        BY <1>5, <3>3 DEF MarkDelivered, RecordFailure, UpdateFails
      <4> QED BY <2>1, <4>1
    <3> QED BY <3>1, <3>2, <3>3
  <2>3. /\ delivered' \subseteq Events
        /\ attempts' \in [Events -> 0 .. MaxAttempts]
    <3>1. CASE RecordFailure(p, e)
      <4>1. pod[p].seen[e] + 1 \in 0 .. MaxAttempts
        BY <2>1, <3>1 DEF RecordFailure, PodOK
      <4> QED BY <1>0, <3>1, <4>1 DEF RecordFailure, OutboxTypeOK
    <3>2. CASE ~RecordFailure(p, e)
      BY <1>0, <1>5, <3>2 DEF Ship, Refuse, MarkDelivered, UpdateFails, rows, OutboxTypeOK
    <3> QED BY <3>1, <3>2
  <2>4. DeliveredWasShipped'
    <3>1. CASE MarkDelivered(p, e)
      BY <1>0, <2>1, <2>2, <3>1 DEF MarkDelivered, DeliveredWasShipped, PodOK
    <3>2. CASE ~MarkDelivered(p, e)
      <4>1. delivered' = delivered
        BY <1>5, <3>2 DEF Ship, Refuse, RecordFailure, UpdateFails, rows
      <4> QED BY <1>0, <2>1, <2>2, <4>1 DEF DeliveredWasShipped, OutboxTypeOK
    <3> QED BY <3>1, <3>2
  <2>5. \A g \in Events : EmitsOK(g)'
    BY <1>b, <2>0
  <2>6. pod' \in [Pods -> PodState] /\ \A q \in Pods : PodOK(q)'
    <3> DEFINE row(queue, acked, refused) ==
                  [pod[p] EXCEPT !.queue = queue, !.acked = acked, !.refused = refused]
    <3>1. PICK queue \in SUBSET Events, acked \in SUBSET Events, refused \in SUBSET Events :
            /\ pod' = [pod EXCEPT ![p] = row(queue, acked, refused)]
            /\ queue \subseteq pod[p].queue
            /\ acked \subseteq pod[p].acked \cup pod[p].queue
            /\ refused \subseteq pod[p].refused \cup pod[p].queue
            /\ queue \cap acked = {} /\ queue \cap refused = {} /\ acked \cap refused = {}
            /\ \A g \in acked : shipped'[g] > 0
      <4>0. /\ pod[p].queue \in SUBSET Events /\ pod[p].acked \in SUBSET Events
            /\ pod[p].refused \in SUBSET Events
            /\ pod[p] = [phase |-> pod[p].phase, queue |-> pod[p].queue, seen |-> pod[p].seen,
                          acked |-> pod[p].acked, refused |-> pod[p].refused]
        BY <2>1 DEF PodState
      <4>a. /\ pod[p].queue \cap pod[p].acked = {} /\ pod[p].queue \cap pod[p].refused = {}
            /\ pod[p].acked \cap pod[p].refused = {}
            /\ \A g \in pod[p].acked : shipped'[g] > 0
        BY <2>1, <2>2, <4>0 DEF PodOK
      <4>1. CASE Ship(p, e)
        <5>1. pod' = [pod EXCEPT ![p] = row(pod[p].queue \ {e}, pod[p].acked \cup {e}, pod[p].refused)]
          BY <4>0, <4>1 DEF Ship
        <5>2. shipped'[e] > 0
          BY <2>1, <4>1, <1>a DEF Ship
        <5>3. e \in pod[p].queue
          BY <4>1 DEF Ship, Takes
        <5> HIDE DEF row
        <5> DEFINE Q == pod[p].queue \ {e}
                   A == pod[p].acked \cup {e}
                   R == pod[p].refused
        <5>8. /\ Q \in SUBSET Events /\ A \in SUBSET Events /\ R \in SUBSET Events
              /\ Q \subseteq pod[p].queue /\ A \subseteq pod[p].acked \cup pod[p].queue
              /\ R \subseteq pod[p].refused \cup pod[p].queue
              /\ Q \cap A = {} /\ Q \cap R = {} /\ A \cap R = {}
              /\ \A g \in A : shipped'[g] > 0
          BY <4>0, <4>a, <5>1, <5>2, <5>3
        <5>9. pod' = [pod EXCEPT ![p] = row(Q, A, R)]
          BY <5>1
        <5> HIDE DEF Q, A, R
        <5> QED BY <5>8, <5>9
      <4>2. CASE Refuse(p, e)
        <5>1. pod' = [pod EXCEPT ![p] = row(pod[p].queue \ {e}, pod[p].acked, pod[p].refused \cup {e})]
          BY <4>0, <4>2 DEF Refuse
        <5>2. e \in pod[p].queue
          BY <4>2 DEF Refuse, Takes
        <5> HIDE DEF row
        <5> DEFINE Q == pod[p].queue \ {e}
                   A == pod[p].acked
                   R == pod[p].refused \cup {e}
        <5>8. /\ Q \in SUBSET Events /\ A \in SUBSET Events /\ R \in SUBSET Events
              /\ Q \subseteq pod[p].queue /\ A \subseteq pod[p].acked \cup pod[p].queue
              /\ R \subseteq pod[p].refused \cup pod[p].queue
              /\ Q \cap A = {} /\ Q \cap R = {} /\ A \cap R = {}
              /\ \A g \in A : shipped'[g] > 0
          BY <4>0, <4>a, <5>1, <5>2
        <5>9. pod' = [pod EXCEPT ![p] = row(Q, A, R)]
          BY <5>1
        <5> HIDE DEF Q, A, R
        <5> QED BY <5>8, <5>9
      <4>3. CASE MarkDelivered(p, e)
        <5>1. pod' = [pod EXCEPT ![p] = row(pod[p].queue, pod[p].acked \ {e}, pod[p].refused)]
          BY <4>0, <4>3 DEF MarkDelivered
        <5> HIDE DEF row
        <5> DEFINE Q == pod[p].queue
                   A == pod[p].acked \ {e}
                   R == pod[p].refused
        <5>8. /\ Q \in SUBSET Events /\ A \in SUBSET Events /\ R \in SUBSET Events
              /\ Q \subseteq pod[p].queue /\ A \subseteq pod[p].acked \cup pod[p].queue
              /\ R \subseteq pod[p].refused \cup pod[p].queue
              /\ Q \cap A = {} /\ Q \cap R = {} /\ A \cap R = {}
              /\ \A g \in A : shipped'[g] > 0
          BY <4>0, <4>a, <5>1
        <5>9. pod' = [pod EXCEPT ![p] = row(Q, A, R)]
          BY <5>1
        <5> HIDE DEF Q, A, R
        <5> QED BY <5>8, <5>9
      <4>4. CASE RecordFailure(p, e)
        <5>1. pod' = [pod EXCEPT ![p] = row(pod[p].queue, pod[p].acked, pod[p].refused \ {e})]
          BY <4>0, <4>4 DEF RecordFailure
        <5> HIDE DEF row
        <5> DEFINE Q == pod[p].queue
                   A == pod[p].acked
                   R == pod[p].refused \ {e}
        <5>8. /\ Q \in SUBSET Events /\ A \in SUBSET Events /\ R \in SUBSET Events
              /\ Q \subseteq pod[p].queue /\ A \subseteq pod[p].acked \cup pod[p].queue
              /\ R \subseteq pod[p].refused \cup pod[p].queue
              /\ Q \cap A = {} /\ Q \cap R = {} /\ A \cap R = {}
              /\ \A g \in A : shipped'[g] > 0
          BY <4>0, <4>a, <5>1
        <5>9. pod' = [pod EXCEPT ![p] = row(Q, A, R)]
          BY <5>1
        <5> HIDE DEF Q, A, R
        <5> QED BY <5>8, <5>9
      <4>5. CASE UpdateFails(p, e)
        <5>1. pod' = [pod EXCEPT ![p] = row(pod[p].queue, pod[p].acked \ {e}, pod[p].refused \ {e})]
          BY <4>0, <4>5 DEF UpdateFails
        <5> HIDE DEF row
        <5> DEFINE Q == pod[p].queue
                   A == pod[p].acked \ {e}
                   R == pod[p].refused \ {e}
        <5>8. /\ Q \in SUBSET Events /\ A \in SUBSET Events /\ R \in SUBSET Events
              /\ Q \subseteq pod[p].queue /\ A \subseteq pod[p].acked \cup pod[p].queue
              /\ R \subseteq pod[p].refused \cup pod[p].queue
              /\ Q \cap A = {} /\ Q \cap R = {} /\ A \cap R = {}
              /\ \A g \in A : shipped'[g] > 0
          BY <4>0, <4>a, <5>1
        <5>9. pod' = [pod EXCEPT ![p] = row(Q, A, R)]
          BY <5>1
        <5> HIDE DEF Q, A, R
        <5> QED BY <5>8, <5>9
      <4> HIDE DEF row
      <4> QED BY <1>5, <4>1, <4>2, <4>3, <4>4, <4>5
    <3> DEFINE s == row(queue, acked, refused)
    <3>2. /\ s \in PodState /\ s.queue = queue /\ s.acked = acked
          /\ s.refused = refused /\ s.seen = pod[p].seen
      BY <2>1 DEF PodState
    <3>3. pod' = [pod EXCEPT ![p] = s]
      BY <3>1
    <3> HIDE DEF s
    <3>4. /\ s.queue \cap s.acked = {} /\ s.queue \cap s.refused = {}
          /\ s.acked \cap s.refused = {}
          /\ \A g \in s.acked : shipped'[g] > 0
          /\ \A g \in s.queue \cup s.refused : s.seen[g] < MaxAttempts
      BY <2>1, <3>1, <3>2 DEF PodOK
    <3> QED BY <2>2, <3>2, <3>3, <3>4, OneTick
  <2>7. OutboxTypeOK'
    BY <1>0, <2>0, <2>2, <2>3, <2>6 DEF OutboxTypeOK
  <2> QED BY <2>4, <2>5, <2>6, <2>7 DEF DInv
<1>6. CASE UNCHANGED outboxVars
  BY <1>0, <1>6 DEF outboxVars, rows, DInv, OutboxTypeOK, PodOK, DeliveredWasShipped, EmitsOK
<1> QED
  BY <1>1, <1>2, <1>3, <1>4, <1>5, <1>6 DEF OutboxNext, Dispatch

\* The invariant holds in every reachable state.
LEMMA AlwaysDInv == OutboxSpec => []DInv
BY InitDInv, NextDInv, PTL DEF OutboxSpec

-----------------------------------------------------------------------------
(* The theorems *)

\* Every variable keeps its type; the attempts of a row never pass maxAttempts,
\* even when pods overwrite each other's counts.
THEOREM OutboxTypeCorrect == OutboxSpec => []OutboxTypeOK
<1>1. DInv => OutboxTypeOK
  BY DEF DInv
<1> QED BY <1>1, AlwaysDInv, PTL

\* A row is marked delivered only if the broker has accepted the event, for any
\* number of pods and whatever restarts, refusals and lost updates happen.
THEOREM DeliveredShipped == OutboxSpec => []DeliveredWasShipped
<1>1. DInv => DeliveredWasShipped
  BY DEF DInv
<1> QED BY <1>1, AlwaysDInv, PTL

\* The in-process listeners see an event again only after an outage of the outbox
\* or a replay, however often it is published again.
THEOREM EmitsBounded == OutboxSpec => []EmitBound
<1>1. DInv => EmitBound
  <2> SUFFICES ASSUME DInv, NEW e \in Events PROVE emitted[e] <= 1 + faults + replays
    BY DEF EmitBound
  <2>1. /\ EmitsOK(e) /\ emitted[e] \in Nat /\ published[e] \in Nat
        /\ faults \in Nat /\ replays \in Nat
    BY DispatcherAssumption DEF DInv, OutboxTypeOK
  <2> QED BY <2>1 DEF EmitsOK
<1> QED BY <1>1, AlwaysDInv, PTL

\* With one dispatcher the rows of its batch do not change behind its back: they
\* are undelivered and have the attempts it read.
Fresh(q) ==
    \A e \in pod[q].queue \cup pod[q].refused :
        e \notin delivered /\ pod[q].seen[e] = attempts[e]

\* Every step of a one-dispatcher system keeps the batch fresh.
LEMMA NextFresh ==
    ASSUME NEW q, Pods = {q}, DInv, Fresh(q), [OutboxNext]_outboxVars
    PROVE  Fresh(q)'
<1>0. /\ q \in Pods /\ pod[q] \in PodState /\ PodOK(q) /\ pod \in [Pods -> PodState]
      /\ attempts \in [Events -> 0 .. MaxAttempts]
  BY DEF DInv, OutboxTypeOK
<1>1. ASSUME NEW e \in Events,
             \/ Insert(e) \/ Emit(e) \/ PersistFails(e) \/ PublisherCrash(e)
             \/ ReplayEmit(e) \/ ReplayShip(e)
      PROVE  Fresh(q)'
  BY <1>1 DEF Insert, Emit, PersistFails, PublisherCrash, ReplayEmit, ReplayShip, rows, Fresh
<1>2. CASE BeginTick(q)
  <2>1. /\ pod'[q].queue = pod[q].queue /\ pod'[q].refused = pod[q].refused
        /\ pod'[q].seen = pod[q].seen
    BY <1>0, <1>2 DEF BeginTick, PodState
  <2> QED BY <1>2, <2>1 DEF BeginTick, rows, Fresh
<1>3. CASE Fetch(q)
  <2>1. /\ pod'[q].queue = Batch /\ pod'[q].refused = {} /\ pod'[q].seen = attempts
    BY <1>0, <1>3 DEF Fetch, NoTick
  <2>2. \A e \in Batch : e \notin delivered
    BY DEF Batch, Selectable
  <2> QED BY <1>3, <2>1, <2>2 DEF Fetch, rows, Fresh
<1>4. CASE Unhealthy(q) \/ EndTick(q) \/ Restart(q)
  <2>1. pod'[q] = NoTick
    BY <1>0, <1>4 DEF Unhealthy, EndTick, Restart
  <2> QED BY <2>1 DEF NoTick, Fresh
<1>5. ASSUME NEW e \in Events, Ship(q, e) \/ Refuse(q, e) \/ UpdateFails(q, e)
      PROVE  Fresh(q)'
  <2>1. /\ pod'[q].queue \subseteq pod[q].queue
        /\ pod'[q].refused \subseteq pod[q].refused \cup pod[q].queue
        /\ pod'[q].seen = pod[q].seen
    BY <1>0, <1>5 DEF Ship, Refuse, UpdateFails, Takes, PodState
  <2>2. delivered' = delivered /\ attempts' = attempts
    BY <1>5 DEF Ship, Refuse, UpdateFails, rows
  <2> QED BY <2>1, <2>2 DEF Fresh
<1>6. ASSUME NEW e \in Events, MarkDelivered(q, e)
      PROVE  Fresh(q)'
  <2>1. /\ pod'[q].queue = pod[q].queue /\ pod'[q].refused = pod[q].refused
        /\ pod'[q].seen = pod[q].seen
    BY <1>0, <1>6 DEF MarkDelivered, PodState
  <2>2. e \notin pod[q].queue \cup pod[q].refused
    BY <1>0, <1>6 DEF MarkDelivered, PodOK
  <2> QED BY <1>6, <2>1, <2>2 DEF MarkDelivered, Fresh
<1>7. ASSUME NEW e \in Events, RecordFailure(q, e)
      PROVE  Fresh(q)'
  <2>1. /\ pod'[q].queue = pod[q].queue /\ pod'[q].refused = pod[q].refused \ {e}
        /\ pod'[q].seen = pod[q].seen
    BY <1>0, <1>7 DEF RecordFailure, PodState
  <2>2. e \notin pod[q].queue
    BY <1>0, <1>7 DEF RecordFailure, PodOK
  <2>3. /\ delivered' = delivered
        /\ \A f \in Events \ {e} : attempts'[f] = attempts[f]
    BY <1>0, <1>7 DEF RecordFailure
  <2>4. pod[q].queue \subseteq Events /\ pod[q].refused \subseteq Events
    BY <1>0 DEF PodState
  <2> QED BY <2>1, <2>2, <2>3, <2>4 DEF Fresh
<1>8. CASE UNCHANGED outboxVars
  BY <1>8 DEF outboxVars, rows, Fresh
<1> QED
  BY <1>1, <1>2, <1>3, <1>4, <1>5, <1>6, <1>7, <1>8 DEF OutboxNext, Dispatch

\* A single dispatcher never ships a row that is marked delivered, and never
\* lowers the attempts of a row, through any restarts, refusals and lost updates.
THEOREM OneDispatcher ==
    ASSUME NEW q, Pods = {q}
    PROVE  OutboxSpec => NeverReships /\ AttemptsNeverFall
<1> DEFINE Reships == \A e \in delivered : shipped'[e] > shipped[e] => replays' > replays
           Falls == \A e \in Events : attempts'[e] >= attempts[e]
<1>1. OutboxInit => Fresh(q)
  BY DEF OutboxInit, Fresh, NoTick
<1>2. DInv /\ Fresh(q) /\ [OutboxNext]_outboxVars => Fresh(q)'
  BY NextFresh
<1>3. DInv /\ Fresh(q) /\ [OutboxNext]_outboxVars => [Reships]_outboxVars
  <2> SUFFICES ASSUME DInv, Fresh(q), [OutboxNext]_outboxVars, NEW g \in delivered,
                      shipped'[g] > shipped[g]
               PROVE  replays' > replays
    OBVIOUS
  <2>1. g \in Events /\ shipped \in [Events -> Nat] /\ replays \in Nat
    BY DispatcherAssumption DEF DInv, OutboxTypeOK
  <2>2. shipped' # shipped
    BY <2>1
  <2>3. CASE \E e \in Events : ReplayShip(e)
    BY <2>1, <2>3 DEF ReplayShip, Replay
  <2>4. ASSUME NEW e \in Events, Ship(q, e) \/ Refuse(q, e) PROVE FALSE
    <3>1. e \notin delivered
      BY <2>4 DEF Ship, Refuse, Takes, Fresh
    <3>2. shipped'[g] = shipped[g]
      BY <2>1, <2>4, <3>1 DEF Ship, Refuse, Count
    <3> QED BY <2>1, <3>2
  <2>5. CASE UNCHANGED outboxVars
    BY <2>2, <2>5 DEF outboxVars
  <2> QED BY <2>2, <2>3, <2>4, <2>5
       DEF OutboxNext, Dispatch, Insert, Emit, PersistFails, PublisherCrash, ReplayEmit,
           BeginTick, Unhealthy, Fetch, EndTick, Restart, MarkDelivered,
           RecordFailure, UpdateFails
<1>4. DInv /\ Fresh(q) /\ [OutboxNext]_outboxVars => [Falls]_outboxVars
  <2> SUFFICES ASSUME DInv, Fresh(q), [OutboxNext]_outboxVars, NEW g \in Events
               PROVE  attempts'[g] >= attempts[g]
    OBVIOUS
  <2>1. attempts \in [Events -> 0 .. MaxAttempts]
    BY DEF DInv, OutboxTypeOK
  <2>2. ASSUME NEW e \in Events, RecordFailure(q, e)
        PROVE  attempts'[g] >= attempts[g]
    <3>1. pod[q].seen[e] = attempts[e]
      BY <2>2 DEF RecordFailure, Fresh
    <3> QED BY <2>1, <2>2, <3>1, DispatcherAssumption DEF RecordFailure
  <2>3. CASE attempts' = attempts
    BY <2>1, <2>3, DispatcherAssumption
  <2>4. CASE UNCHANGED outboxVars
    BY <2>3, <2>4 DEF outboxVars, rows
  <2> QED BY <2>2, <2>3, <2>4
       DEF OutboxNext, Dispatch, Insert, Emit, PersistFails, PublisherCrash, ReplayEmit,
           ReplayShip, BeginTick, Unhealthy, Fetch, EndTick, Restart, Ship, Refuse,
           MarkDelivered, UpdateFails, rows
<1> QED BY <1>1, <1>2, <1>3, <1>4, AlwaysDInv, PTL
        DEF OutboxSpec, NeverReships, AttemptsNeverFall

-----------------------------------------------------------------------------
(* How often the broker sees an event *)

\* The pods that cannot ship e again unless an outcome is lost: they wait to mark
\* it, or it is marked and not in a batch they fetched before.
Spent(e) == {p \in Pods : e \in pod[p].acked \/ (e \in delivered /\ e \notin pod[p].queue)}

ShipsOK(e) == shipped[e] <= Cardinality(Spent(e)) + faults + replays

\* Between ticks a pod holds nothing.
QuietOK ==
    \A p \in Pods : pod[p].phase # "shipping" =>
        pod[p].queue = {} /\ pod[p].acked = {} /\ pod[p].refused = {}

\* Sets of pods by size.
LEMMA PodSets ==
    ASSUME NEW S \in SUBSET Pods, NEW T \in SUBSET Pods
    PROVE  /\ Cardinality(S) \in Nat /\ Cardinality(T) \in Nat
           /\ Cardinality(S) <= Cardinality(Pods) /\ Cardinality(Pods) \in Nat
           /\ S \subseteq T => Cardinality(S) <= Cardinality(T)
           /\ \A p \in Pods : S \ {p} \subseteq T => Cardinality(S) <= Cardinality(T) + 1
           /\ \A p \in T : S \subseteq T \ {p} => Cardinality(S) + 1 <= Cardinality(T)
<1>1. IsFiniteSet(Pods) /\ IsFiniteSet(S) /\ IsFiniteSet(T)
  BY DispatcherAssumption, FS_Subset
<1>2. /\ Cardinality(S) \in Nat /\ Cardinality(T) \in Nat /\ Cardinality(Pods) \in Nat
      /\ Cardinality(S) <= Cardinality(Pods)
      /\ S \subseteq T => Cardinality(S) <= Cardinality(T)
  BY <1>1, FS_Subset, FS_CardinalityType
<1>3. ASSUME NEW p \in Pods, S \ {p} \subseteq T
      PROVE  Cardinality(S) <= Cardinality(T) + 1
  <2>1. /\ IsFiniteSet(T \cup {p})
        /\ Cardinality(T \cup {p}) = IF p \in T THEN Cardinality(T) ELSE Cardinality(T) + 1
    BY <1>1, FS_AddElement
  <2>2. S \subseteq T \cup {p}
    BY <1>3
  <2>3. Cardinality(S) <= Cardinality(T \cup {p})
    BY <2>1, <2>2, FS_Subset
  <2> QED BY <1>2, <2>1, <2>3
<1>4. ASSUME NEW p \in T, S \subseteq T \ {p}
      PROVE  Cardinality(S) + 1 <= Cardinality(T)
  <2>1. IsFiniteSet(T \ {p}) /\ Cardinality(T \ {p}) = Cardinality(T) - 1
    BY <1>1, FS_RemoveElement
  <2>2. Cardinality(S) <= Cardinality(T \ {p})
    BY <1>4, <2>1, FS_Subset
  <2> QED BY <1>2, <2>1, <2>2
<1> QED BY <1>2, <1>3, <1>4

\* One more shipment is accounted for by one more failure or replay.
LEMMA OneMoreShipped ==
    ASSUME NEW n \in Nat, NEW n1 \in Nat, NEW c \in Nat, NEW c1 \in Nat,
           NEW f \in Nat, NEW f1 \in Nat, NEW r \in Nat, NEW r1 \in Nat,
           n <= c + f + r, n1 <= n + 1, c <= c1, f1 + r1 >= f + r + 1
    PROVE  n1 <= c1 + f1 + r1
OBVIOUS

\* What is said of one event survives a step that accounts for what it ships, or
\* for a pod it sets free.
LEMMA ShipsStep ==
    ASSUME NEW e \in Events, ShipsOK(e), shipped[e] \in Nat, faults \in Nat, replays \in Nat,
           faults' \in Nat, replays' \in Nat, faults' >= faults, replays' >= replays,
           \/ /\ Spent(e) \subseteq Spent(e)'
              /\ shipped'[e] = shipped[e]
           \/ /\ Spent(e) \subseteq Spent(e)'
              /\ shipped'[e] <= shipped[e] + 1 /\ shipped'[e] \in Nat
              /\ faults' + replays' >= faults + replays + 1
           \/ /\ \E p \in Pods : Spent(e) \ {p} \subseteq Spent(e)'
              /\ shipped'[e] = shipped[e] /\ faults' = faults + 1
           \/ /\ \E p \in Spent(e)' : Spent(e) \subseteq Spent(e)' \ {p}
              /\ shipped'[e] = shipped[e] + 1
    PROVE  ShipsOK(e)'
<1>1. PICK S, T : S = Spent(e) /\ T = Spent(e)'
  OBVIOUS
<1>2. S \in SUBSET Pods /\ T \in SUBSET Pods
  BY <1>1 DEF Spent
<1>3. Cardinality(S) \in Nat /\ Cardinality(T) \in Nat
  BY <1>2, PodSets
<1>4. shipped[e] <= Cardinality(S) + faults + replays
  BY <1>1 DEF ShipsOK
<1>5. shipped'[e] <= Cardinality(T) + faults' + replays'
  <2>1. CASE S \subseteq T /\ shipped'[e] = shipped[e]
    BY <1>2, <1>3, <1>4, <2>1, PodSets
  <2>2. CASE /\ S \subseteq T /\ shipped'[e] <= shipped[e] + 1 /\ shipped'[e] \in Nat
             /\ faults' + replays' >= faults + replays + 1
    <3>1. Cardinality(S) <= Cardinality(T)
      BY <1>2, <2>2, PodSets
    <3> QED BY <1>3, <1>4, <2>2, <3>1, OneMoreShipped
  <2>3. CASE (\E p \in Pods : S \ {p} \subseteq T) /\ shipped'[e] = shipped[e]
             /\ faults' = faults + 1
    <3>1. Cardinality(S) <= Cardinality(T) + 1
      BY <1>2, <2>3, PodSets
    <3> QED BY <1>3, <1>4, <2>3, <3>1
  <2>4. CASE (\E p \in T : S \subseteq T \ {p}) /\ shipped'[e] = shipped[e] + 1
    <3>1. Cardinality(S) + 1 <= Cardinality(T)
      BY <1>2, <2>4, PodSets
    <3> QED BY <1>3, <1>4, <2>4, <3>1
  <2> QED BY <1>1, <2>1, <2>2, <2>3, <2>4
<1> QED BY <1>1, <1>5 DEF ShipsOK

\* Every step keeps the account of the broker's events.
LEMMA NextShips ==
    ASSUME DInv, QuietOK, \A e \in Events : ShipsOK(e), [OutboxNext]_outboxVars
    PROVE  QuietOK' /\ \A e \in Events : ShipsOK(e)'
<1>0. /\ pod \in [Pods -> PodState] /\ shipped \in [Events -> Nat]
      /\ faults \in Nat /\ replays \in Nat /\ delivered \subseteq Events
      /\ \A p \in Pods : PodOK(p) /\ pod[p] \in PodState
  BY DispatcherAssumption DEF DInv, OutboxTypeOK
<1>1. ASSUME NEW g \in Events,
             \/ Insert(g) \/ Emit(g) \/ PersistFails(g) \/ PublisherCrash(g)
             \/ ReplayEmit(g)
      PROVE  QuietOK' /\ \A e \in Events : ShipsOK(e)'
  <2>1. pod' = pod /\ shipped' = shipped /\ delivered' = delivered
        /\ faults' \in Nat /\ faults' >= faults /\ replays' \in Nat /\ replays' >= replays
    BY <1>0, <1>1
       DEF Insert, Emit, PersistFails, PublisherCrash, ReplayEmit, Fault, Replay, rows
  <2>2. \A e \in Events : Spent(e)' = Spent(e)
    BY <2>1 DEF Spent
  <2> QED BY <1>0, <2>1, <2>2, ShipsStep DEF QuietOK
<1>2. ASSUME NEW g \in Events, ReplayShip(g)
      PROVE  QuietOK' /\ \A e \in Events : ShipsOK(e)'
  <2>1. pod' = pod /\ delivered' = delivered /\ faults' = faults /\ replays' = replays + 1
        /\ shipped' \in [Events -> Nat]
        /\ \A e \in Events : shipped'[e] <= shipped[e] + 1
    BY <1>0, <1>2 DEF ReplayShip, Replay, Count, rows
  <2>2. \A e \in Events : Spent(e)' = Spent(e)
    BY <2>1 DEF Spent
  <2>3. ASSUME NEW e \in Events PROVE ShipsOK(e)'
    BY <1>0, <2>1, <2>2, ShipsStep
  <2> QED BY <2>1, <2>3 DEF QuietOK
<1>3. ASSUME NEW p \in Pods, BeginTick(p) \/ EndTick(p) \/ Fetch(p)
      PROVE  QuietOK' /\ \A e \in Events : ShipsOK(e)'
  <2>1. shipped' = shipped /\ delivered' = delivered /\ faults' = faults /\ replays' = replays
        /\ \A q \in Pods : q # p => pod'[q] = pod[q]
    BY <1>0, <1>3 DEF BeginTick, EndTick, Fetch, rows
  <2>2. pod[p].acked = {} /\ pod[p].queue = {} /\ pod[p].refused = {}
    BY <1>3 DEF BeginTick, EndTick, Fetch, QuietOK
  <2>3. pod'[p].queue \cap delivered = {}
        /\ (pod'[p].phase # "shipping" =>
                pod'[p].queue = {} /\ pod'[p].acked = {} /\ pod'[p].refused = {})
    <3>1. CASE BeginTick(p)
      BY <1>0, <2>2, <3>1 DEF BeginTick, PodState
    <3>2. CASE EndTick(p)
      BY <1>0, <3>2 DEF EndTick, NoTick
    <3>3. CASE Fetch(p)
      <4>1. pod'[p].queue = Batch /\ pod'[p].phase = "shipping"
        BY <1>0, <3>3 DEF Fetch, NoTick
      <4>2. Batch \cap delivered = {}
        BY DEF Batch, Selectable
      <4> QED BY <4>1, <4>2
    <3> QED BY <1>3, <3>1, <3>2, <3>3
  <2>4. \A e \in Events : Spent(e) \subseteq Spent(e)'
    BY <2>1, <2>2, <2>3 DEF Spent
  <2>5. ASSUME NEW e \in Events PROVE ShipsOK(e)'
    BY <1>0, <2>1, <2>4, ShipsStep
  <2>6. QuietOK'
    BY <2>1, <2>3 DEF QuietOK
  <2> QED BY <2>5, <2>6
<1>4. ASSUME NEW p \in Pods, Unhealthy(p) \/ Restart(p)
      PROVE  QuietOK' /\ \A e \in Events : ShipsOK(e)'
  <2>1. shipped' = shipped /\ delivered' = delivered /\ faults' = faults + 1
        /\ replays' = replays /\ pod'[p] = NoTick
        /\ \A q \in Pods : q # p => pod'[q] = pod[q]
    BY <1>0, <1>4 DEF Unhealthy, Restart, Fault, rows
  <2>2. \A e \in Events : Spent(e) \ {p} \subseteq Spent(e)'
    BY <2>1 DEF Spent
  <2>3. ASSUME NEW e \in Events PROVE ShipsOK(e)'
    BY <1>0, <2>1, <2>2, ShipsStep
  <2>4. QuietOK'
    BY <2>1 DEF QuietOK, NoTick
  <2> QED BY <2>3, <2>4
<1>5. ASSUME NEW p \in Pods, NEW g \in Events,
             \/ Ship(p, g) \/ Refuse(p, g) \/ MarkDelivered(p, g)
             \/ RecordFailure(p, g) \/ UpdateFails(p, g)
      PROVE  QuietOK' /\ \A e \in Events : ShipsOK(e)'
  <2>1. /\ replays' = replays /\ faults' \in Nat /\ faults' >= faults
        /\ \A q \in Pods : q # p => pod'[q] = pod[q]
        /\ pod'[p].phase = pod[p].phase
    BY <1>0, <1>5
       DEF Ship, Refuse, MarkDelivered, RecordFailure, UpdateFails, Fault, rows, PodState
  <2>2. g \in pod[p].queue \cup pod[p].acked \cup pod[p].refused
    BY <1>5 DEF Ship, Refuse, MarkDelivered, RecordFailure, UpdateFails, Takes
  <2>3. pod[p].phase = "shipping"
    BY <2>2 DEF QuietOK
  <2>4. QuietOK'
    BY <2>1, <2>3 DEF QuietOK
  <2>5. pod[p].queue \cap pod[p].acked = {} /\ pod[p].queue \cap pod[p].refused = {}
    BY <1>0 DEF PodOK
  <2>6. ASSUME NEW e \in Events PROVE ShipsOK(e)'
    <3>0. /\ ShipsOK(e) /\ shipped[e] \in Nat /\ faults \in Nat /\ replays \in Nat
          /\ faults' \in Nat /\ replays' \in Nat /\ faults' >= faults /\ replays' >= replays
      BY <1>0, <2>1
    <3>1. CASE Ship(p, g)
      <4>1. /\ pod'[p].queue = pod[p].queue \ {g} /\ pod'[p].acked = pod[p].acked \cup {g}
            /\ delivered' = delivered /\ g \in pod[p].queue
            /\ shipped'[e] = IF e = g THEN shipped[e] + 1 ELSE shipped[e]
        BY <1>0, <3>1 DEF Ship, Takes, Count, rows, PodState
      <4>2. Spent(e) \subseteq Spent(e)'
        BY <2>1, <4>1 DEF Spent
      <4>3. e = g => p \in Spent(e)' /\ p \notin Spent(e)
        BY <2>5, <4>1 DEF Spent
      <4>4. CASE e = g
        <5>1. p \in Spent(e)' /\ Spent(e) \subseteq Spent(e)' \ {p}
          BY <4>2, <4>3, <4>4
        <5> QED BY <3>0, <4>1, <4>4, <5>1, ShipsStep
      <4>5. CASE e # g
        BY <3>0, <4>1, <4>2, <4>5, ShipsStep
      <4> QED BY <4>4, <4>5
    <3>2. CASE Refuse(p, g)
      <4>1. /\ pod'[p].queue = pod[p].queue \ {g} /\ pod'[p].acked = pod[p].acked
            /\ delivered' = delivered /\ faults' = faults + 1
            /\ shipped'[e] \in Nat /\ shipped'[e] <= shipped[e] + 1
        BY <1>0, <3>2 DEF Refuse, Takes, Fault, Count, rows, PodState
      <4>2. Spent(e) \subseteq Spent(e)'
        BY <2>1, <4>1 DEF Spent
      <4>3. faults' + replays' >= faults + replays + 1
        BY <2>1, <3>0, <4>1
      <4> QED BY <3>0, <4>1, <4>2, <4>3, ShipsStep
    <3>3. CASE MarkDelivered(p, g)
      <4>1. /\ pod'[p].queue = pod[p].queue /\ pod'[p].acked = pod[p].acked \ {g}
            /\ delivered' = delivered \cup {g} /\ g \in pod[p].acked
            /\ shipped' = shipped
        BY <1>0, <3>3 DEF MarkDelivered, PodState
      <4>2. Spent(e) \subseteq Spent(e)'
        BY <2>1, <2>5, <4>1 DEF Spent
      <4> QED BY <3>0, <4>1, <4>2, ShipsStep
    <3>4. CASE RecordFailure(p, g)
      <4>1. /\ pod'[p].queue = pod[p].queue /\ pod'[p].acked = pod[p].acked
            /\ delivered' = delivered /\ shipped' = shipped
        BY <1>0, <3>4 DEF RecordFailure, PodState
      <4>2. Spent(e) \subseteq Spent(e)'
        BY <2>1, <4>1 DEF Spent
      <4> QED BY <3>0, <4>1, <4>2, ShipsStep
    <3>5. CASE UpdateFails(p, g)
      <4>1. delivered' = delivered /\ shipped' = shipped /\ faults' = faults + 1
        BY <3>5 DEF UpdateFails, Fault, rows
      <4>2. Spent(e) \ {p} \subseteq Spent(e)'
        BY <2>1, <4>1 DEF Spent
      <4> QED BY <3>0, <4>1, <4>2, ShipsStep
    <3> QED BY <1>5, <3>1, <3>2, <3>3, <3>4, <3>5
  <2> QED BY <2>4, <2>6
<1>6. CASE UNCHANGED outboxVars
  <2>1. pod' = pod /\ shipped' = shipped /\ delivered' = delivered /\ faults' = faults
        /\ replays' = replays
    BY <1>6 DEF outboxVars, rows
  <2> QED BY <2>1 DEF QuietOK, ShipsOK, Spent
<1> QED
  BY <1>1, <1>2, <1>3, <1>4, <1>5, <1>6 DEF OutboxNext, Dispatch

\* The broker sees an event at most once per pod, plus once for every failure and
\* every replay: a pod ships a row again only when the outcome of its last attempt
\* was lost, and a row marked delivered is never fetched.
THEOREM ReshipsBounded == OutboxSpec => []ReshipBound
<1> DEFINE All == QuietOK /\ \A e \in Events : ShipsOK(e)
<1>1. OutboxInit => All
  <2> SUFFICES ASSUME OutboxInit PROVE All
    OBVIOUS
  <2>1. QuietOK
    BY DEF OutboxInit, QuietOK, NoTick
  <2>2. \A e \in Events : Spent(e) = {}
    BY DEF OutboxInit, Spent, NoTick
  <2> QED BY <2>1, <2>2, FS_EmptySet DEF OutboxInit, ShipsOK
<1>2. DInv /\ All /\ [OutboxNext]_outboxVars => All'
  BY NextShips
<1>3. DInv /\ All => ReshipBound
  <2> SUFFICES ASSUME DInv, All, NEW e \in Events
               PROVE  shipped[e] <= Cardinality(Pods) + faults + replays
    BY DEF ReshipBound
  <2>1. PICK S : S = Spent(e)
    OBVIOUS
  <2>2. S \in SUBSET Pods /\ shipped[e] <= Cardinality(S) + faults + replays
    BY <2>1 DEF ShipsOK, Spent
  <2>3. Cardinality(S) \in Nat /\ Cardinality(Pods) \in Nat
        /\ Cardinality(S) <= Cardinality(Pods)
    BY <2>2, PodSets
  <2>4. shipped[e] \in Nat /\ faults \in Nat /\ replays \in Nat
    BY DispatcherAssumption DEF DInv, OutboxTypeOK
  <2> QED BY <2>2, <2>3, <2>4
<1> HIDE DEF All
<1> QED BY <1>1, <1>2, <1>3, AlwaysDInv, PTL DEF OutboxSpec
=============================================================================
