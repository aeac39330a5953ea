------------------------ MODULE OrderLifecycleProofs ------------------------
(***************************************************************************)
(* The statuses of the orders: every step moves one order along the line   *)
(* of OrderLifecycle or none (NextMoves).  That orders are delivered only  *)
(* after payment, that their histories are unbroken, and that the pipeline *)
(* implements OrderLifecycle all follow from this one fact.  So does most  *)
(* of what is said of bypass requests: an order never comes back to a      *)
(* station it has left.                                                    *)
(***************************************************************************)
EXTENDS OrderTaskProofs, OrderPaymentProofs

-----------------------------------------------------------------------------
(* Every step leaves the orders and their histories alone or moves one     *)
(* order along the line, with a history row that says so.  The safety of   *)
(* the delivery, the history and the refinement all follow from this.      *)

OrderMoves(o, new) ==
  /\ new \in Lifecycle!Successors[orderStatus[o]]
  /\ new = "ready_for_delivery" => Settled(o)
  /\ orderStatus' = [orderStatus EXCEPT ![o] = new]
  /\ history' = [history EXCEPT ![o] = Append(@, [old |-> orderStatus[o], new |-> new])]

OrdersStep ==
  \/ UNCHANGED <<orderStatus, history>>
  \/ \E o \in Orders, new \in OrderStatuses : OrderMoves(o, new)

\* A guarded update and the history row of the same transaction.
LEMMA GuardedMove ==
  ASSUME NEW o \in Orders, NEW old, NEW new \in OrderStatuses,
         UpdateOrderStatusIfCurrent(o, old, new), CreateOrderStatusHistory(o, old, new),
         new \in Lifecycle!Successors[old], new = "ready_for_delivery" => Settled(o)
  PROVE  OrdersStep
  BY DEF UpdateOrderStatusIfCurrent, CreateOrderStatusHistory, OrderMoves, OrdersStep

LEMMA IntakeMoves == Intake => OrdersStep
<1> SUFFICES ASSUME Intake PROVE OrdersStep
  OBVIOUS
<1>1. ASSUME NEW o \in Orders, CreateOrder(o) PROVE OrdersStep
  <2>1. UpdateOrderStatusIfCurrent(o, "none", "waiting_pickup_driver")
    BY <1>1 DEF CreateOrder, UpdateOrderStatusIfCurrent
  <2> QED
    BY <1>1, <2>1, GuardedMove DEF CreateOrder, OrderStatuses, Lifecycle!Successors
<1>2. ASSUME NEW o \in Orders, NEW total \in BOOLEAN, ProcessOrder(o, total) PROVE OrdersStep
  BY <1>2, GuardedMove DEF ProcessOrder, OrderStatuses, Stations, Lifecycle!Successors
<1>3. ASSUME NEW o \in Orders, CompleteOrder(o) PROVE OrdersStep
  BY <1>3, GuardedMove DEF CompleteOrder, FinishOrder, OrderStatuses, Lifecycle!Successors
<1> QED
  BY <1>1, <1>2, <1>3 DEF Intake, IntakeNext

LEMMA CronMoves == Cron => OrdersStep
<1> SUFFICES ASSUME Cron PROVE OrdersStep
  OBVIOUS
<1>1. ASSUME NEW r \in Sweepers, NEW o \in Orders, AutoCompleteOrder(r, o) PROVE OrdersStep
  BY <1>1, GuardedMove DEF AutoCompleteOrder, FinishOrder, OrderStatuses, Lifecycle!Successors
<1> QED
  BY <1>1 DEF Cron, CronNext, ListOrdersReadyForAutoComplete, AutoConfirmPasses,
     AutoCompleteSkip, AutoCompleteFails, OrdersStep, tableVars, orderVars

\* The claim's unguarded update: the agreement of task and order is the guard.
LEMMA ClaimMoves ==
  ASSUME TypeInv, TaskOrderAgreement, NEW c \in claims, ClaimTask(c)
  PROVE  OrdersStep
<1>1. c.order \in Orders /\ c.type \in TaskTypes
  BY DEF TypeInv, TypeOK, DispatchTypeOK, ClaimRequests
<1>2. taskStatus[c.order][c.type] = "available"
  BY DEF ClaimTask, ClaimDriverTaskIfAvailable
<1>3. orderStatus[c.order] = claimOldStatus[c.type]
  BY <1>1, <1>2 DEF TaskOrderAgreement, PickupTaskAt, DeliveryTaskAt, TaskTypes, claimOldStatus
<1>4. UpdateOrderStatusIfCurrent(c.order, claimOldStatus[c.type], claimNextStatus[c.type])
  BY <1>3 DEF ClaimTask, ClaimOrderForTask, UpdateOrderStatusIfCurrent
<1>5. /\ claimNextStatus[c.type] \in Lifecycle!Successors[claimOldStatus[c.type]]
      /\ claimNextStatus[c.type] \in OrderStatuses \ {"ready_for_delivery"}
  BY <1>1 DEF claimOldStatus, claimNextStatus, TaskTypes, OrderStatuses, Lifecycle!Successors
<1> QED
  BY <1>1, <1>4, <1>5, GuardedMove DEF ClaimTask

LEMMA DispatchMoves == TypeInv /\ TaskOrderAgreement /\ Dispatch => OrdersStep
<1> SUFFICES ASSUME TypeInv, TaskOrderAgreement, Dispatch PROVE OrdersStep
  OBVIOUS
<1>1. ASSUME NEW d \in Drivers, NEW o \in Orders, NEW type \in TaskTypes,
             CompleteTask(d, o, type)
      PROVE  OrdersStep
  <2>1. /\ completeNextStatus[type] \in Lifecycle!Successors[completeOldStatus[type]]
        /\ completeNextStatus[type] \in OrderStatuses \ {"ready_for_delivery"}
    BY DEF completeOldStatus, completeNextStatus, TaskTypes, OrderStatuses, Lifecycle!Successors
  <2> QED
    BY <1>1, <2>1, GuardedMove DEF CompleteTask
<1> QED
  BY <1>1, ClaimMoves DEF Dispatch, DispatchNext, ClaimTaskCheck, ClaimTaskLost, OrdersStep,
     tableVars, orderVars

LEMMA StationMoves == TypeInv /\ MoneyInv /\ Station => OrdersStep
<1> SUFFICES ASSUME TypeInv, MoneyInv, Station PROVE OrdersStep
  OBVIOUS
<1> USE DEF OrdersStep, tableVars, orderVars
<1>1. ASSUME NEW o \in Orders, NEW s \in Stations, CompleteStationTx(o, s, stationNextStatus[s])
      PROVE  OrdersStep
  <2>1. /\ stationNextStatus[s] \in Lifecycle!Successors[s]
        /\ stationNextStatus[s] \in OrderStatuses \ {"ready_for_delivery"}
    BY DEF stationNextStatus, Stations, OrderStatuses, Lifecycle!Successors
  <2> QED
    BY <1>1, <2>1, GuardedMove DEF CompleteStationTx
<1>2. ASSUME NEW p \in packings, PackingCommit(p) PROVE OrdersStep
  <2>1. /\ p.order \in Orders /\ p.next \in OrderStatuses
        /\ p.next \in Lifecycle!Successors["packing"]
    BY DEF TypeInv, TypeOK, StationTypeOK, PackingTxs, OrderStatuses, Lifecycle!Successors
  <2>2. p.next = "ready_for_delivery" => Settled(p.order)
    BY DEF MoneyInv, PackingsTrue
  <2> QED
    BY <1>2, <2>1, <2>2, GuardedMove DEF PackingCommit, CompleteStationTx
<1>3. ASSUME NEW b \in BypassIds, ApproveBypassRequest(b) PROVE OrdersStep
  <2>1. bypass[b].order \in Orders /\ bypass[b].station \in Stations
    BY <1>3, ReviewType DEF ApproveBypassRequest, TypeInv, TypeOK
  <2> QED
    BY <1>1, <1>3, <2>1 DEF ApproveBypassRequest
<1> QED
  BY <1>1, <1>2, <1>3 DEF Station, StationNext, CompleteStation, PackingReadsPayment,
     PackingLost, FileBypassRequest, PendingBypassChecked, AttemptsCounted, FilingEnds, GoesOn,
     CreateBypassRequest, RejectBypassRequest

LEMMA PaymentMoves == TypeInv /\ MoneyInv /\ Payment => OrdersStep
<1> SUFFICES ASSUME TypeInv, MoneyInv, Payment PROVE OrdersStep
  OBVIOUS
<1> USE DEF OrdersStep, tableVars, orderVars
<1>1. ASSUME NEW c \in payCalls, ApplyPayment(c) PROVE OrdersStep
  <2>1. c.order \in Orders
    BY DEF TypeInv, TypeOK, PaymentTypeOK, PayCalls
  <2>2. CASE c.status = "paid" /\ orderStatus[c.order] = "waiting_payment"
    <3>1. Settled(c.order)
      BY <1>1, <2>2 DEF MoneyInv, CallsTrue, ApplyPayment
    <3> QED
      BY <1>1, <2>1, <2>2, <3>1, GuardedMove
      DEF ApplyPayment, applyPaymentStatus, OrderStatuses, Lifecycle!Successors
  <2>3. CASE ~ (c.status = "paid" /\ orderStatus[c.order] = "waiting_payment")
    BY <1>1, <2>3 DEF ApplyPayment, applyPaymentStatus
  <2> QED
    BY <2>2, <2>3
<1> QED
  BY <1>1 DEF Payment, PaymentNext, PayCallStep, CreateTransactionCheck, SyncReadsPayment,
     WebhookReadsPayment, WebhookFindsNoPayment, CreateTransaction, SyncChecksTransaction,
     GatewayCallFails, WebhookReadsOrder

LEMMA NextMoves == TypeInv /\ TaskOrderAgreement /\ MoneyInv /\ [Next]_vars => OrdersStep
<1>1. Gateway \/ Crash \/ UNCHANGED vars => OrdersStep
  BY DEF Gateway, GatewayNext, TransactionMoves, Crash, vars, tableVars, orderVars, OrdersStep
<1> QED
  BY <1>1, IntakeMoves, CronMoves, DispatchMoves, StationMoves, PaymentMoves DEF Next

LEMMA SettledStays ==
  TypeInv /\ [Next]_vars => \A o \in Orders : Settled(o) => Settled(o)'
<1> SUFFICES ASSUME TypeInv, [Next]_vars PROVE \A o \in Orders : Settled(o) => Settled(o)'
  OBVIOUS
<1>1. CASE UNCHANGED <<txOrder, txState>>
  BY <1>1 DEF Settled
<1>2. CASE Gateway
  BY <1>2, MoveKeepsSettled DEF Gateway, GatewayNext
<1>3. CASE Payment
  <2>1. ASSUME NEW c \in payCalls, NEW g \in GatewayTxs, CreateTransaction(c, g)
        PROVE  \A o \in Orders : Settled(o) => Settled(o)'
    BY <2>1, OpenKeepsSettled DEF CreateTransaction
  <2>2. (\E c \in payCalls, g \in GatewayTxs : CreateTransaction(c, g))
          \/ UNCHANGED <<txOrder, txState>>
    BY <1>3 DEF Payment, PaymentNext, PayCallStep, CreateTransactionCheck, SyncReadsPayment,
       WebhookReadsPayment, WebhookFindsNoPayment, SyncChecksTransaction, Deliver,
       GatewayCallFails, WebhookReadsOrder, ApplyPayment, gatewayVars
  <2> QED
    BY <1>1, <2>1, <2>2
<1> QED
  BY <1>1, <1>2, <1>3
  DEF Next, Intake, Cron, Dispatch, Station, Crash, vars, gatewayVars

LEMMA LatePredecessors ==
  ASSUME NEW s \in OrderStatuses \cup {"none"}, NEW new \in Lifecycle!Successors[s],
         new \in {"delivery_to_customer", "received_by_customer", "completed"}
  PROVE  s \in {"ready_for_delivery", "delivery_to_customer", "received_by_customer"}
<1>1. CASE s \in Stations
  BY <1>1 DEF Stations, Lifecycle!Successors
<1>2. CASE s \in {"none", "waiting_pickup_driver", "laundry_to_outlet",
                  "laundry_arrived_outlet", "waiting_payment"}
  BY <1>2 DEF Lifecycle!Successors
<1>3. CASE s \in {"ready_for_delivery", "delivery_to_customer", "received_by_customer"}
  BY <1>3
<1>4. CASE s = "completed"
  BY <1>4 DEF Lifecycle!Successors
<1> QED
  BY <1>1, <1>2, <1>3, <1>4 DEF OrderStatuses

\* No order is made ready for delivery, delivered or completed before a
\* transaction of its own has been settled, for any number of payment
\* requests, notifications and packing completions in flight.
THEOREM NoUnpaidDeliveryHolds == Spec => []NoUnpaidDelivery
<1>1. Init => NoUnpaidDelivery
  BY DEF Init, TablesInit, NoUnpaidDelivery
<1>2. ASSUME TypeInv, TaskOrderAgreement, MoneyInv, NoUnpaidDelivery, [Next]_vars
      PROVE  NoUnpaidDelivery'
  <2>1. \A o \in Orders : Settled(o) => Settled(o)'
    BY <1>2, SettledStays
  <2>2. CASE UNCHANGED <<orderStatus, history>>
    BY <1>2, <2>1, <2>2 DEF NoUnpaidDelivery
  <2>3. ASSUME NEW o \in Orders, NEW new \in OrderStatuses, OrderMoves(o, new)
        PROVE  NoUnpaidDelivery'
    <3>1. \A p \in Orders : orderStatus'[p] = IF p = o THEN new ELSE orderStatus[p]
      BY <1>2, <2>3 DEF OrderMoves, TypeInv, TypeOK, TablesTypeOK
    <3>2. new \in {"delivery_to_customer", "received_by_customer", "completed"}
            => orderStatus[o] \in {"ready_for_delivery", "delivery_to_customer",
                                   "received_by_customer"}
      <4>1. orderStatus[o] \in OrderStatuses \cup {"none"}
        BY <1>2 DEF TypeInv, TypeOK, TablesTypeOK
      <4> QED
        BY <2>3, <4>1, LatePredecessors DEF OrderMoves
    <3> QED
      BY <1>2, <2>1, <2>3, <3>1, <3>2 DEF NoUnpaidDelivery, OrderMoves
  <2> QED
    BY <1>2, <2>2, <2>3, NextMoves DEF OrdersStep
<1> QED
  BY <1>1, <1>2, TypeInvInductive, TaskOrderAgreementHolds, MoneyInvHolds, PTL DEF Spec

\* The histories of the orders are unbroken and end where the orders are,
\* however long the system runs and whoever loses a race.
THEOREM HistoryIsPathHolds == Spec => []HistoryIsPath
<1>1. Init => HistoryIsPath
  BY DEF Init, TablesInit, HistoryIsPath
<1>2. ASSUME TypeInv, TaskOrderAgreement, MoneyInv, HistoryIsPath, [Next]_vars
      PROVE  HistoryIsPath'
  <2>1. CASE UNCHANGED <<orderStatus, history>>
    BY <1>2, <2>1 DEF HistoryIsPath
  <2>2. ASSUME NEW o \in Orders, NEW new \in OrderStatuses, OrderMoves(o, new)
        PROVE  HistoryIsPath'
    <3> DEFINE h == history[o]
               r == [old |-> orderStatus[o], new |-> new]
    <3>1. /\ h \in Seq(HistoryRows)
          /\ \A p \in Orders : orderStatus'[p] = IF p = o THEN new ELSE orderStatus[p]
          /\ \A p \in Orders : history'[p] = IF p = o THEN Append(h, r) ELSE history[p]
      BY <1>2, <2>2 DEF OrderMoves, TypeInv, TypeOK, TablesTypeOK
    <3>2. /\ h = <<>> <=> orderStatus[o] = "none"
          /\ h # <<>> => h[1].old = "none" /\ h[Len(h)].new = orderStatus[o]
          /\ \A i \in 1..Len(h) - 1 : h[i + 1].old = h[i].new
      BY <1>2 DEF HistoryIsPath
    <3>3. new # "none" /\ r.old = orderStatus[o] /\ r.new = new
      BY DEF OrderStatuses, Stations
    <3> HIDE DEF h, r
    <3>4. /\ Append(h, r) # <<>> /\ Len(Append(h, r)) = Len(h) + 1 /\ Len(h) \in Nat
          /\ Append(h, r)[Len(h) + 1] = r
          /\ \A i \in 1..Len(h) : Append(h, r)[i] = h[i]
      BY <3>1
    <3>5. Append(h, r)[1].old = "none"
      <4>1. CASE h = <<>>
        BY <3>2, <3>3, <3>4, <4>1
      <4>2. CASE h # <<>>
        <5>1. 1 \in 1..Len(h)
          BY <3>1, <4>2
        <5> QED
          BY <3>2, <3>4, <4>2, <5>1
      <4> QED
        BY <4>1, <4>2
    <3>6. ASSUME NEW i \in 1..Len(h) PROVE Append(h, r)[i + 1].old = Append(h, r)[i].new
      <4>1. CASE i = Len(h)
        <5>1. h # <<>>
          BY <3>1
        <5> QED
          BY <3>2, <3>3, <3>4, <4>1, <5>1
      <4>2. CASE i # Len(h)
        <5>1. i \in 1..Len(h) - 1 /\ i + 1 \in 1..Len(h)
          BY <3>4, <4>2
        <5> QED
          BY <3>2, <3>4, <5>1
      <4> QED
        BY <4>1, <4>2
    <3>7. Len(Append(h, r)) - 1 = Len(h)
      BY <3>4
    <3>8. /\ Append(h, r) = <<>> <=> new = "none"
          /\ Append(h, r)[Len(Append(h, r))].new = new
      BY <3>3, <3>4
    <3>9. ASSUME NEW p \in Orders
          PROVE  LET k == history'[p]
                 IN  /\ k = <<>> <=> orderStatus'[p] = "none"
                     /\ k # <<>> => k[1].old = "none" /\ k[Len(k)].new = orderStatus'[p]
                     /\ \A i \in 1..Len(k) - 1 : k[i + 1].old = k[i].new
      <4>1. CASE p = o
        BY <3>1, <3>5, <3>6, <3>7, <3>8, <4>1
      <4>2. CASE p # o
        <5>1. history'[p] = history[p] /\ orderStatus'[p] = orderStatus[p]
          BY <3>1, <4>2
        <5> QED
          BY <1>2, <5>1 DEF HistoryIsPath
      <4> QED
        BY <4>1, <4>2
    <3> QED
      BY <3>9 DEF HistoryIsPath
  <2> QED
    BY <1>2, <2>1, <2>2, NextMoves DEF OrdersStep
<1> QED
  BY <1>1, <1>2, TypeInvInductive, TaskOrderAgreementHolds, MoneyInvHolds, PTL DEF Spec

-----------------------------------------------------------------------------
(* The pipeline implements its abstract specification.                     *)

\* A step moves an order or money, never both, and money of one order only.
LEMMA SettledStep ==
  ASSUME TypeInv, [Next]_vars
  PROVE  \/ UNCHANGED <<txOrder, txState>>
         \/ /\ UNCHANGED orderStatus
            /\ \E o \in Orders \cup {NULL} :
                 \A p \in Orders : Settled(p)' <=> (Settled(p) \/ p = o)
<1> USE DEF gatewayVars
<1>1. ASSUME NEW g \in GatewayTxs, NEW new, TransactionMoves(g, new)
      PROVE  \E o \in Orders \cup {NULL} :
               \A p \in Orders : Settled(p)' <=> (Settled(p) \/ p = o)
  <2>1. txState' = [txState EXCEPT ![g] = new] /\ UNCHANGED txOrder
    BY <1>1 DEF TransactionMoves
  <2>2. txOrder[g] \in Orders \cup {NULL} /\ \A p \in Orders : p # NULL
    BY NullAssumption DEF TypeInv, TypeOK, GatewayTypeOK
  <2>3. CASE new = "settlement"
    <3>1. \A p \in Orders : Settled(p)' <=> (Settled(p) \/ p = txOrder[g])
      BY <2>1, <2>3 DEF Settled, TypeInv, TypeOK, GatewayTypeOK
    <3> QED
      BY <2>2, <3>1
  <2>4. CASE new # "settlement"
    <3>1. txState[g] \in {"settlement", "refund"} <=> new \in {"settlement", "refund"}
      BY <1>1, <2>4 DEF TransactionMoves, GatewayMoves
    <3>2. \A p \in Orders : Settled(p)' <=> Settled(p)
      BY <2>1, <3>1 DEF Settled, TypeInv, TypeOK, GatewayTypeOK
    <3> QED
      BY <2>2, <3>2
  <2> QED
    BY <2>3, <2>4
<1>2. ASSUME NEW c \in payCalls, NEW g \in GatewayTxs, CreateTransaction(c, g)
      PROVE  /\ UNCHANGED orderStatus
             /\ \E o \in Orders \cup {NULL} :
                  \A p \in Orders : Settled(p)' <=> (Settled(p) \/ p = o)
  <2>1. \A p \in Orders : Settled(p)' <=> Settled(p)
    BY <1>2 DEF CreateTransaction, OpenTransaction, Settled, TypeInv, TypeOK, GatewayTypeOK
  <2>2. \A p \in Orders : p # NULL
    BY NullAssumption
  <2> QED
    BY <1>2, <2>1, <2>2 DEF CreateTransaction, orderVars
<1>3. CASE Payment
  BY <1>2, <1>3 DEF Payment, PaymentNext, PayCallStep, CreateTransactionCheck, SyncReadsPayment,
     WebhookReadsPayment, WebhookFindsNoPayment, SyncChecksTransaction, Deliver,
     GatewayCallFails, WebhookReadsOrder, ApplyPayment
<1>4. CASE Gateway
  BY <1>1, <1>4 DEF Gateway, GatewayNext, TransactionMoves, tableVars, orderVars
<1> QED
  BY <1>3, <1>4 DEF Next, Intake, Cron, Dispatch, Station, Crash, vars

\* Every step of the pipeline is a step of OrderLifecycle or leaves it where
\* it was: the statuses follow the line for every interleaving, and money
\* comes before delivery.
THEOREM PipelineImplementsLifecycle == Spec => ImplementsLifecycle
<1> DEFINE settled == [o \in Orders |-> Settled(o)]
<1>1. Init => Lifecycle!Init
  BY DEF Init, TablesInit, GatewayInit, Lifecycle!Init, Settled
<1>2. ASSUME TypeInv, TaskOrderAgreement, MoneyInv, [Next]_vars
      PROVE  [Lifecycle!Next]_<<orderStatus, settled>>
  <2>1. CASE UNCHANGED <<txOrder, txState>>
    <3>1. settled' = settled
      BY <2>1 DEF Settled
    <3>2. ASSUME NEW o \in Orders, NEW new \in OrderStatuses, OrderMoves(o, new)
          PROVE  Lifecycle!Advance(o)
      BY <3>1, <3>2 DEF OrderMoves, Lifecycle!Advance
    <3> QED
      BY <1>2, <3>1, <3>2, NextMoves DEF OrdersStep, Lifecycle!Next
  <2>2. ASSUME NEW o \in Orders \cup {NULL}, UNCHANGED orderStatus,
               \A p \in Orders : Settled(p)' <=> (Settled(p) \/ p = o)
        PROVE  [Lifecycle!Next]_<<orderStatus, settled>>
    <3>0. \A p \in Orders : Settled(p) \in BOOLEAN /\ Settled(p)' \in BOOLEAN
      BY DEF Settled
    <3>1. CASE o \in Orders
      <4>1. settled' = [settled EXCEPT ![o] = TRUE]
        <5>1. \A p \in Orders : Settled(p)' = IF p = o THEN TRUE ELSE Settled(p)
          BY <2>2, <3>0
        <5> QED
          BY <5>1, <3>1
      <4> QED
        BY <2>2, <3>1, <4>1 DEF Lifecycle!Next, Lifecycle!Settle
    <3>2. CASE o = NULL
      <4>1. \A p \in Orders : p # o
        BY <3>2, NullAssumption
      <4>2. settled' = settled
        <5>1. \A p \in Orders : Settled(p)' = Settled(p)
          BY <2>2, <3>0, <4>1
        <5> QED
          BY <5>1
      <4> QED
        BY <2>2, <4>2
    <3> QED
      BY <3>1, <3>2
  <2> QED
    BY <1>2, <2>1, <2>2, SettledStep
<1> QED
  BY <1>1, <1>2, TypeInvInductive, TaskOrderAgreementHolds, MoneyInvHolds, PTL
  DEF Spec, ImplementsLifecycle, Lifecycle!Spec

-----------------------------------------------------------------------------
(* Bypass requests.  An order never comes back to a station, so a request  *)
(* approved for it there is behind it, and whoever finds the order at the  *)
(* station knows that none was approved.                                   *)

AfterPacking ==
  {"waiting_payment", "ready_for_delivery", "delivery_to_customer",
   "received_by_customer", "completed"}

LeftBehind ==
  [washing |-> {"ironing", "packing"} \cup AfterPacking,
   ironing |-> {"packing"} \cup AfterPacking,
   packing |-> AfterPacking]

LEMMA LeftForGood ==
  ASSUME NEW s \in Stations
  PROVE  /\ s \notin LeftBehind[s]
         /\ Lifecycle!Successors[s] \subseteq LeftBehind[s]
         /\ \A st \in LeftBehind[s] : Lifecycle!Successors[st] \subseteq LeftBehind[s]
<1> USE DEF LeftBehind, AfterPacking, Lifecycle!Successors
<1>1. CASE s = "washing"
  BY <1>1
<1>2. CASE s = "ironing"
  BY <1>2
<1>3. CASE s = "packing"
  BY <1>3
<1> QED
  BY <1>1, <1>2, <1>3 DEF Stations

\* A packing transaction that approves a request approves one of its order.
PackingsOwn ==
  \A p \in packings : p.bypass # NULL =>
    /\ bypass[p.bypass].order = p.order
    /\ bypass[p.bypass].station = "packing"
    /\ bypass[p.bypass].status # "none"

\* The three ways in which a step writes bypass requests.
ApprovesBypass(b) ==
  /\ UpdateBypassIfPending(b, "approved")
  /\ \E next \in OrderStatuses :
       CompleteStationTx(bypass[b].order, bypass[b].station, next)

BypassStep ==
  \/ UNCHANGED bypass
  \/ \E f \in filings, b \in BypassIds : InsertBypassRequest(b, f.order, f.station, f.attempt)
  \/ \E b \in BypassIds : bypass[b].attempt < MaxBypassAttemptsPerStation
                            /\ UpdateBypassIfPending(b, "rejected")
  \/ \E b \in BypassIds : ApprovesBypass(b)

LEMMA NextBypass == TypeInv /\ PackingsOwn /\ [Next]_vars => BypassStep
<1> SUFFICES ASSUME TypeInv, PackingsOwn, [Next]_vars PROVE BypassStep
  OBVIOUS
<1> USE DEF BypassStep
<1>1. CASE Station
  <2>1. ASSUME NEW p \in packings, PackingCommit(p) PROVE BypassStep
    <3>1. p.next \in OrderStatuses /\ p.bypass \in BypassIds \cup {NULL}
      BY DEF TypeInv, TypeOK, StationTypeOK, PackingTxs, OrderStatuses
    <3>2. CASE p.bypass = NULL
      BY <2>1, <3>2 DEF PackingCommit
    <3>3. CASE p.bypass # NULL
      <4>1. ApprovesBypass(p.bypass)
        BY <2>1, <3>1, <3>3 DEF PackingCommit, PackingsOwn, ApprovesBypass
      <4> QED
        BY <3>1, <3>3, <4>1
    <3> QED
      BY <3>2, <3>3
  <2>2. ASSUME NEW b \in BypassIds, ApproveBypassRequest(b) PROVE BypassStep
    <3>1. bypass[b].station \in Stations
      BY <2>2 DEF ApproveBypassRequest
    <3>2. stationNextStatus[bypass[b].station] \in OrderStatuses
      BY <3>1 DEF stationNextStatus, Stations, OrderStatuses
    <3> QED
      BY <2>2, <3>2 DEF ApproveBypassRequest, ApprovesBypass
  <2> QED
    BY <1>1, <2>1, <2>2 DEF Station, StationNext, CompleteStation, PackingReadsPayment,
       PackingLost, FileBypassRequest, PendingBypassChecked, AttemptsCounted, FilingEnds, GoesOn,
       CreateBypassRequest, RejectBypassRequest, tableVars
<1>2. CASE Intake \/ Cron \/ Dispatch
  BY <1>2 DEF Intake, IntakeNext, CreateOrder, ProcessOrder, CompleteOrder, FinishOrder,
     Cron, CronNext, ListOrdersReadyForAutoComplete, AutoConfirmPasses, AutoCompleteOrder,
     AutoCompleteSkip, AutoCompleteFails, Dispatch, DispatchNext, ClaimTaskCheck, ClaimTask,
     ClaimTaskLost, CompleteTask, tableVars
<1>3. CASE Payment
  BY <1>3 DEF Payment, PaymentNext, PayCallStep, CreateTransactionCheck, SyncReadsPayment,
     WebhookReadsPayment, WebhookFindsNoPayment, CreateTransaction, SyncChecksTransaction,
     GatewayCallFails, WebhookReadsOrder, ApplyPayment, applyPaymentStatus, tableVars
<1>4. CASE Gateway \/ Crash \/ UNCHANGED vars
  BY <1>4 DEF Gateway, GatewayNext, TransactionMoves, Crash, vars, tableVars
<1> QED
  BY <1>1, <1>2, <1>3, <1>4 DEF Next

\* A row is never about another order, station or attempt than it was, and a
\* decision stands.
LEMMA BypassRowsStand ==
  ASSUME TypeInv, BypassStep
  PROVE  \A b \in BypassIds :
           /\ bypass[b].status # "none" =>
                /\ bypass'[b].order = bypass[b].order
                /\ bypass'[b].station = bypass[b].station
                /\ bypass'[b].attempt = bypass[b].attempt
                /\ bypass'[b].status # "none"
           /\ bypass[b].status \in {"approved", "rejected"} => bypass'[b] = bypass[b]
<1>1. bypass \in [BypassIds -> BypassRows]
  BY DEF TypeInv, TypeOK, TablesTypeOK
<1>2. ASSUME NEW b \in BypassIds, NEW decision \in {"approved", "rejected"},
             UpdateBypassIfPending(b, decision)
      PROVE  /\ bypass[b].status = "pending"
             /\ bypass'[b].status = decision
             /\ bypass'[b].order = bypass[b].order
             /\ bypass'[b].station = bypass[b].station
             /\ bypass'[b].attempt = bypass[b].attempt
             /\ \A c \in BypassIds \ {b} : bypass'[c] = bypass[c]
  BY <1>1, <1>2 DEF UpdateBypassIfPending
<1>3. ASSUME NEW b \in BypassIds, NEW f \in filings,
             InsertBypassRequest(b, f.order, f.station, f.attempt)
      PROVE  /\ bypass[b].status = "none"
             /\ \A c \in BypassIds \ {b} : bypass'[c] = bypass[c]
  BY <1>1, <1>3 DEF InsertBypassRequest
<1> QED
  BY <1>2, <1>3 DEF BypassStep, ApprovesBypass

LEMMA PackingsOwnHolds == Spec => []PackingsOwn
<1>1. Init => PackingsOwn
  BY DEF Init, StationInit, PackingsOwn
<1>2. ASSUME TypeInv, PackingsOwn, [Next]_vars PROVE PackingsOwn'
  <2>1. \A p \in packings : p.bypass \in BypassIds \cup {NULL}
    BY <1>2 DEF TypeInv, TypeOK, StationTypeOK, PackingTxs
  <2>2. \A b \in BypassIds : bypass[b].status # "none" =>
          /\ bypass'[b].order = bypass[b].order
          /\ bypass'[b].station = bypass[b].station
          /\ bypass'[b].status # "none"
    BY <1>2, NextBypass, BypassRowsStand
  <2>3. CASE packings' \subseteq packings
    BY <1>2, <2>1, <2>2, <2>3 DEF PackingsOwn
  <2>4. ASSUME NEW o \in Orders, NEW b \in BypassIds \cup {NULL}, PackingReadsPayment(o, b)
        PROVE  PackingsOwn'
    <3>1. ASSUME NEW p \in packings', p \notin packings, p.bypass # NULL
          PROVE  /\ bypass[p.bypass].order = p.order
                 /\ bypass[p.bypass].station = "packing"
                 /\ bypass[p.bypass].status # "none"
      BY <2>4, <3>1 DEF PackingReadsPayment
    <3>2. UNCHANGED bypass
      BY <2>4 DEF PackingReadsPayment, tableVars
    <3> QED
      BY <1>2, <3>1, <3>2 DEF PackingsOwn
  <2>5. packings' \subseteq packings
          \/ \E o \in Orders, b \in BypassIds \cup {NULL} : PackingReadsPayment(o, b)
    <3>1. CASE Station
      BY <3>1 DEF Station, StationNext, CompleteStation, PackingCommit, PackingLost,
         FileBypassRequest, PendingBypassChecked, AttemptsCounted, FilingEnds, GoesOn,
         CreateBypassRequest, RejectBypassRequest, ApproveBypassRequest, stationVars
    <3>2. CASE ~Station
      BY <1>2, <3>2 DEF Next, Intake, Cron, Dispatch, Payment, Gateway, Crash, vars, inFlight,
         stationVars
    <3> QED
      BY <3>1, <3>2
  <2> QED
    BY <2>3, <2>4, <2>5
<1> QED
  BY <1>1, <1>2, TypeInvInductive, PTL DEF Spec

\* The order of an approved request has left the station, as its history
\* tells, and no other request was approved for it there.
ApprovedTrue(b) ==
  LET o == bypass[b].order
      s == bypass[b].station
  IN  /\ orderStatus[o] \in LeftBehind[s]
      /\ \E i \in 1..Len(history[o]) : history[o][i].old = s
      /\ \A c \in BypassIds \ {b} :
           ~ (bypass[c].status = "approved" /\ bypass[c].order = o /\ bypass[c].station = s)

ApprovalsTrue == \A b \in BypassIds : bypass[b].status = "approved" => ApprovedTrue(b)

LEMMA OrdersLeaveForGood ==
  ASSUME TypeInv, OrdersStep, NEW o \in Orders, NEW s \in Stations
  PROVE  /\ orderStatus[o] \in LeftBehind[s] => orderStatus'[o] \in LeftBehind[s]
         /\ (\E i \in 1..Len(history[o]) : history[o][i].old = s)
              => \E i \in 1..Len(history'[o]) : history'[o][i].old = s
<1>1. CASE UNCHANGED <<orderStatus, history>>
  BY <1>1
<1>2. ASSUME NEW p \in Orders, NEW new \in OrderStatuses, OrderMoves(p, new)
      PROVE  /\ orderStatus[o] \in LeftBehind[s] => orderStatus'[o] \in LeftBehind[s]
             /\ (\E i \in 1..Len(history[o]) : history[o][i].old = s)
                  => \E i \in 1..Len(history'[o]) : history'[o][i].old = s
  <2> DEFINE h == history[o]
             r == [old |-> orderStatus[p], new |-> new]
  <2>1. /\ h \in Seq(HistoryRows)
        /\ orderStatus'[o] = IF p = o THEN new ELSE orderStatus[o]
        /\ history'[o] = IF p = o THEN Append(h, r) ELSE h
    BY <1>2 DEF OrderMoves, TypeInv, TypeOK, TablesTypeOK
  <2>2. orderStatus[o] \in LeftBehind[s] => orderStatus'[o] \in LeftBehind[s]
    BY <1>2, <2>1, LeftForGood DEF OrderMoves
  <2> HIDE DEF h, r
  <2>3. /\ Len(Append(h, r)) = Len(h) + 1 /\ Len(h) \in Nat
        /\ \A i \in 1..Len(h) : Append(h, r)[i] = h[i]
    BY <2>1
  <2>4. \A i \in 1..Len(h) : i \in 1..Len(history'[o]) /\ history'[o][i] = h[i]
    BY <2>1, <2>3
  <2> QED
    BY <2>2, <2>4 DEF h
<1> QED
  BY <1>1, <1>2 DEF OrdersStep

\* Whoever approves finds the order at the station.
LEMMA ApprovalTrue ==
  ASSUME TypeInv, ApprovalsTrue, OrdersStep, NEW b \in BypassIds, ApprovesBypass(b)
  PROVE  ApprovalsTrue'
<1> DEFINE o == bypass[b].order
           s == bypass[b].station
<1>1. /\ bypass \in [BypassIds -> BypassRows]
      /\ bypass[b].status = "pending"
      /\ bypass'[b].status = "approved" /\ bypass'[b].order = o /\ bypass'[b].station = s
      /\ \A c \in BypassIds \ {b} : bypass'[c] = bypass[c]
  BY DEF ApprovesBypass, UpdateBypassIfPending, TypeInv, TypeOK, TablesTypeOK
<1>2. \A c \in BypassIds : bypass[c].status \in {"approved", "pending"} =>
        bypass[c].order \in Orders /\ bypass[c].station \in Stations
  BY <1>1 DEF BypassRows, NoBypass
<1>3. o \in Orders /\ s \in Stations
  BY <1>1, <1>2
<1>4. /\ orderStatus[o] = s
      /\ \E next \in OrderStatuses :
           history' = [history EXCEPT ![o] = Append(@, [old |-> s, new |-> next])]
  BY DEF ApprovesBypass, CompleteStationTx, UpdateOrderStatusIfCurrent, CreateOrderStatusHistory
<1> HIDE DEF o, s
<1>5. \A c \in BypassIds :
        ~ (bypass[c].status = "approved" /\ bypass[c].order = o /\ bypass[c].station = s)
  BY <1>3, <1>4, LeftForGood DEF ApprovalsTrue, ApprovedTrue
<1>6. orderStatus'[o] \in LeftBehind[s]
  <2>1. ~ UNCHANGED <<orderStatus, history>>
    <3>1. history[o] \in Seq(HistoryRows) /\ history \in [Orders -> Seq(HistoryRows)]
      BY <1>3 DEF TypeInv, TypeOK, TablesTypeOK
    <3>2. \A r : Len(Append(history[o], r)) # Len(history[o])
      BY <3>1
    <3>3. \E r : history'[o] = Append(history[o], r)
      BY <1>3, <1>4, <3>1
    <3> QED
      BY <3>2, <3>3
  <2>2. PICK p \in Orders, new \in OrderStatuses : OrderMoves(p, new)
    BY <2>1 DEF OrdersStep
  <2>3. p = o
    <3>1. /\ history \in [Orders -> Seq(HistoryRows)]
          /\ \E r : history'[o] = Append(history[o], r)
          /\ p # o => history'[o] = history[o]
      BY <1>3, <1>4, <2>2 DEF OrderMoves, TypeInv, TypeOK, TablesTypeOK
    <3>2. \A r : Append(history[o], r) # history[o]
      <4>1. history[o] \in Seq(HistoryRows)
        BY <1>3, <3>1
      <4>2. \A r : Len(Append(history[o], r)) = Len(history[o]) + 1 /\ Len(history[o]) \in Nat
        BY <4>1
      <4> QED
        BY <4>2
    <3> QED
      BY <3>1, <3>2
  <2>4. new \in LeftBehind[s] /\ orderStatus'[o] = new
    BY <1>3, <1>4, <2>2, <2>3, LeftForGood DEF OrderMoves, TypeInv, TypeOK, TablesTypeOK
  <2> QED
    BY <2>4
<1>7. \E i \in 1..Len(history'[o]) : history'[o][i].old = s
  <2>1. PICK next \in OrderStatuses :
          history' = [history EXCEPT ![o] = Append(@, [old |-> s, new |-> next])]
    BY <1>4
  <2> DEFINE h == history[o]
             r == [old |-> s, new |-> next]
  <2>2. h \in Seq(HistoryRows) /\ history'[o] = Append(h, r) /\ r.old = s
    BY <1>3, <2>1 DEF TypeInv, TypeOK, TablesTypeOK
  <2> HIDE DEF h, r
  <2>3. /\ Len(Append(h, r)) = Len(h) + 1 /\ Len(h) \in Nat
        /\ Append(h, r)[Len(h) + 1] = r
    BY <2>2
  <2>4. Len(h) + 1 \in 1..Len(history'[o]) /\ history'[o][Len(h) + 1].old = s
    BY <2>2, <2>3
  <2> QED
    BY <2>4
<1>8. ApprovedTrue(b)'
  BY <1>1, <1>5, <1>6, <1>7 DEF ApprovedTrue
<1>9. ASSUME NEW c \in BypassIds \ {b}, bypass'[c].status = "approved"
      PROVE  ApprovedTrue(c)'
  <2>1. bypass'[c] = bypass[c] /\ ApprovedTrue(c)
        /\ bypass[c].order \in Orders /\ bypass[c].station \in Stations
    BY <1>1, <1>2, <1>9 DEF ApprovalsTrue
  <2>2. ~ (bypass[c].order = o /\ bypass[c].station = s)
    BY <1>5, <1>9, <2>1
  <2>3. \A d \in BypassIds \ {c} : ~ (/\ bypass'[d].status = "approved"
                                      /\ bypass'[d].order = bypass[c].order
                                      /\ bypass'[d].station = bypass[c].station)
    BY <1>1, <2>1, <2>2 DEF ApprovedTrue
  <2> QED
    BY <2>1, <2>3, OrdersLeaveForGood DEF ApprovedTrue
<1> QED
  BY <1>8, <1>9 DEF ApprovalsTrue

LEMMA ApprovalsTrueHolds == Spec => []ApprovalsTrue
<1>1. Init => ApprovalsTrue
  BY DEF Init, TablesInit, ApprovalsTrue, NoBypass
<1>2. ASSUME TypeInv, TaskOrderAgreement, MoneyInv, PackingsOwn, ApprovalsTrue, [Next]_vars
      PROVE  ApprovalsTrue'
  <2>1. OrdersStep /\ BypassStep
    BY <1>2, NextMoves, NextBypass
  <2>2. CASE \E b \in BypassIds : ApprovesBypass(b)
    BY <1>2, <2>1, <2>2, ApprovalTrue
  <2>3. CASE ~ \E b \in BypassIds : ApprovesBypass(b)
    <3>1. bypass \in [BypassIds -> BypassRows]
      BY <1>2 DEF TypeInv, TypeOK, TablesTypeOK
    <3>2. \A b \in BypassIds : bypass'[b].status = "approved" => bypass'[b] = bypass[b]
      BY <2>1, <2>3, <3>1 DEF BypassStep, InsertBypassRequest, UpdateBypassIfPending
    <3>3. ASSUME NEW b \in BypassIds, bypass'[b].status = "approved"
          PROVE  ApprovedTrue(b)'
      <4>1. /\ bypass'[b] = bypass[b] /\ ApprovedTrue(b)
            /\ bypass[b].order \in Orders /\ bypass[b].station \in Stations
        BY <1>2, <3>1, <3>2, <3>3 DEF ApprovalsTrue, BypassRows, NoBypass
      <4>2. \A c \in BypassIds \ {b} : ~ (/\ bypass'[c].status = "approved"
                                          /\ bypass'[c].order = bypass[b].order
                                          /\ bypass'[c].station = bypass[b].station)
        BY <3>2, <4>1 DEF ApprovedTrue
      <4> QED
        BY <1>2, <2>1, <4>1, <4>2, OrdersLeaveForGood DEF ApprovedTrue
    <3> QED
      BY <3>3 DEF ApprovalsTrue
  <2> QED
    BY <2>2, <2>3
<1> QED
  BY <1>1, <1>2, TypeInvInductive, TaskOrderAgreementHolds, MoneyInvHolds,
     PackingsOwnHolds, PTL DEF Spec

\* However many requests are filed from stale checks and reviewed at once, an
\* approved one moved its order, and is the only one of its stay.
THEOREM BypassSettlesStationHolds == Spec => []BypassSettlesStation
<1>1. ApprovalsTrue => BypassSettlesStation
  BY DEF ApprovalsTrue, ApprovedTrue, BypassSettlesStation
<1> QED
  BY <1>1, ApprovalsTrueHolds, PTL

-----------------------------------------------------------------------------
(* Forced approvals *)

\* A request of a stay was rejected when it was not the last attempt.
RejectedFor(o, s) ==
  \E c \in BypassIds :
    /\ bypass[c].order = o
    /\ bypass[c].station = s
    /\ bypass[c].status = "rejected"
    /\ bypass[c].attempt < MaxBypassAttemptsPerStation

\* A last attempt at a stay counted a rejected request, or one whose approval
\* had moved the order on since the first read.
EarnedOrLate(o, s) == RejectedFor(o, s) \/ orderStatus[o] \in LeftBehind[s]

\* What a request counted stays true while it uploads, is inserted and waits.
EarnedInv ==
  /\ \A b \in BypassIds : bypass[b].status = "rejected" =>
       bypass[b].attempt < MaxBypassAttemptsPerStation
  /\ \A f \in filings : f.attempt = MaxBypassAttemptsPerStation =>
       EarnedOrLate(f.order, f.station)
  /\ \A b \in BypassIds :
       bypass[b].status = "pending" /\ bypass[b].attempt = MaxBypassAttemptsPerStation =>
         EarnedOrLate(bypass[b].order, bypass[b].station)
  /\ ForcedApprovalIsEarned

LEMMA RejectedStays ==
  ASSUME TypeInv, BypassStep, NEW o, NEW s, RejectedFor(o, s)
  PROVE  RejectedFor(o, s)'
<1>1. PICK c \in BypassIds :
        /\ bypass[c].order = o
        /\ bypass[c].station = s
        /\ bypass[c].status = "rejected"
        /\ bypass[c].attempt < MaxBypassAttemptsPerStation
  BY DEF RejectedFor
<1>2. bypass'[c] = bypass[c]
  BY <1>1, BypassRowsStand
<1> QED
  BY <1>1, <1>2 DEF RejectedFor

LEMMA EarnedOrLateStays ==
  ASSUME TypeInv, OrdersStep, BypassStep, NEW o \in Orders, NEW s \in Stations,
         EarnedOrLate(o, s)
  PROVE  EarnedOrLate(o, s)'
<1>1. RejectedFor(o, s) => RejectedFor(o, s)'
  BY RejectedStays
<1>2. orderStatus[o] \in LeftBehind[s] => (orderStatus[o] \in LeftBehind[s])'
  BY OrdersLeaveForGood
<1> QED
  BY <1>1, <1>2 DEF EarnedOrLate

\* Who counts up to the last attempt has counted a request of the stay that
\* was rejected, or approved.
LEMMA LastAttemptEarned ==
  ASSUME TypeInv, ApprovalsTrue, EarnedInv, MaxBypassAttemptsPerStation > 1,
         NEW o \in Orders, NEW s \in Stations,
         Cardinality(NonPendingBypassRequests(o, s)) + 1 = MaxBypassAttemptsPerStation
  PROVE  EarnedOrLate(o, s)
<1>1. Cardinality(NonPendingBypassRequests(o, s)) # 0
  BY AttemptType, AttemptsAssumption
<1>2. PICK c \in BypassIds : bypass[c].order = o /\ bypass[c].station = s
                               /\ bypass[c].status # "pending"
  <2>1. NonPendingBypassRequests(o, s) # {}
    BY <1>1, FS_EmptySet
  <2> QED
    BY <2>1 DEF NonPendingBypassRequests
<1>3. bypass[c].status \in {"approved", "rejected"}
  <2>1. bypass[c] \in BypassRows /\ o # NULL
    BY NullAssumption DEF TypeInv, TypeOK, TablesTypeOK
  <2> QED
    BY <1>2, <2>1 DEF BypassRows, NoBypass
<1>4. CASE bypass[c].status = "approved"
  BY <1>2, <1>4 DEF ApprovalsTrue, ApprovedTrue, EarnedOrLate
<1>5. CASE bypass[c].status = "rejected"
  BY <1>2, <1>5 DEF EarnedInv, RejectedFor, EarnedOrLate
<1> QED
  BY <1>3, <1>4, <1>5

\* Where the filings of the next state come from.
FilingsStep ==
  \/ filings' \subseteq filings
  \/ \E w \in BypassWorkers, o \in Orders, s \in Stations : FileBypassRequest(w, o, s)
  \/ \E f \in filings : PendingBypassChecked(f) \/ AttemptsCounted(f)

LEMMA NextFilings == [Next]_vars => FilingsStep
<1> SUFFICES ASSUME [Next]_vars PROVE FilingsStep
  OBVIOUS
<1>1. CASE Station
  BY <1>1 DEF FilingsStep, Station, StationNext, CompleteStation, PackingCommit, PackingLost,
     PackingReadsPayment, FilingEnds, CreateBypassRequest, RejectBypassRequest,
     ApproveBypassRequest, stationVars
<1>2. CASE ~Station
  BY <1>2 DEF FilingsStep, Next, Intake, Cron, Dispatch, Payment, Gateway, Crash, vars,
     inFlight, stationVars
<1> QED
  BY <1>1, <1>2

\* A filing at the last attempt was there, or has just counted.
LEMMA FilingsEarned ==
  ASSUME TypeInv, ApprovalsTrue, EarnedInv, OrdersStep, BypassStep, FilingsStep,
         MaxBypassAttemptsPerStation > 1,
         NEW f \in filings', f.attempt = MaxBypassAttemptsPerStation
  PROVE  EarnedOrLate(f.order, f.station)'
<1>1. filings \subseteq Filings
  BY DEF TypeInv, TypeOK, StationTypeOK
<1>2. ASSUME NEW g \in filings, f.order = g.order, f.station = g.station,
             EarnedOrLate(g.order, g.station)
      PROVE  EarnedOrLate(f.order, f.station)'
  <2>1. f.order \in Orders /\ f.station \in Stations
    BY <1>1, <1>2 DEF Filings
  <2>2. EarnedOrLate(f.order, f.station)
    BY <1>2
  <2> QED
    BY <2>1, <2>2, EarnedOrLateStays
<1>3. CASE f \in filings
  BY <1>2, <1>3 DEF EarnedInv
<1>4. ASSUME NEW w \in BypassWorkers, NEW o \in Orders, NEW s \in Stations,
             FileBypassRequest(w, o, s), f \notin filings
      PROVE  FALSE
  BY <1>4 DEF FileBypassRequest
<1>5. ASSUME NEW g \in filings, PendingBypassChecked(g), f \notin filings
      PROVE  EarnedOrLate(f.order, f.station)'
  <2>1. f = [g EXCEPT !.at = "count"] /\ g \in Filings
    BY <1>1, <1>5 DEF PendingBypassChecked, GoesOn
  <2>2. f.order = g.order /\ f.station = g.station /\ f.attempt = g.attempt
    BY <2>1 DEF Filings
  <2> QED
    BY <1>2, <2>2 DEF EarnedInv
<1>6. ASSUME NEW g \in filings, AttemptsCounted(g), f \notin filings
      PROVE  EarnedOrLate(f.order, f.station)'
  <2> DEFINE n == Cardinality(NonPendingBypassRequests(g.order, g.station)) + 1
  <2>1. f = [g EXCEPT !.at = "insert", !.attempt = n] /\ g \in Filings
    BY <1>1, <1>6 DEF AttemptsCounted, GoesOn
  <2>2. g.order \in Orders /\ g.station \in Stations
        /\ f.order = g.order /\ f.station = g.station /\ f.attempt = n
    BY <2>1 DEF Filings
  <2>3. EarnedOrLate(g.order, g.station)
    BY <2>2, LastAttemptEarned
  <2> QED
    BY <1>2, <2>2, <2>3
<1> QED
  BY <1>3, <1>4, <1>5, <1>6 DEF FilingsStep

\* A pending request was there, or was inserted by a filing.
LEMMA PendingEarned ==
  ASSUME TypeInv, EarnedInv, OrdersStep, BypassStep,
         NEW b \in BypassIds, bypass'[b].status = "pending",
         bypass'[b].attempt = MaxBypassAttemptsPerStation
  PROVE  EarnedOrLate(bypass[b].order, bypass[b].station)'
<1>1. bypass \in [BypassIds -> BypassRows]
  BY DEF TypeInv, TypeOK, TablesTypeOK
<1>2. ASSUME NEW o \in Orders, NEW s \in Stations, EarnedOrLate(o, s),
             bypass'[b].order = o, bypass'[b].station = s
      PROVE  EarnedOrLate(bypass[b].order, bypass[b].station)'
  <2>1. EarnedOrLate(o, s)'
    BY <1>2, EarnedOrLateStays
  <2> QED
    BY <1>2, <2>1 DEF EarnedOrLate, RejectedFor
<1>3. CASE bypass'[b] = bypass[b]
  <2>1. bypass[b].order \in Orders /\ bypass[b].station \in Stations
    BY <1>1, <1>3 DEF BypassRows, NoBypass
  <2>2. EarnedOrLate(bypass[b].order, bypass[b].station)
    BY <1>3 DEF EarnedInv
  <2> QED
    BY <1>2, <1>3, <2>1, <2>2
<1>4. CASE bypass'[b] # bypass[b]
  <2>1. PICK f \in filings : InsertBypassRequest(b, f.order, f.station, f.attempt)
    BY <1>1, <1>4 DEF BypassStep, ApprovesBypass, UpdateBypassIfPending, InsertBypassRequest
  <2>2. /\ bypass'[b].order = f.order /\ bypass'[b].station = f.station
        /\ bypass'[b].attempt = f.attempt
    BY <1>1, <2>1 DEF InsertBypassRequest
  <2>3. f.order \in Orders /\ f.station \in Stations
    BY DEF TypeInv, TypeOK, StationTypeOK, Filings
  <2>4. EarnedOrLate(f.order, f.station)
    BY <2>2 DEF EarnedInv
  <2> QED
    BY <1>2, <2>2, <2>3, <2>4
<1> QED
  BY <1>3, <1>4

\* Whoever approves finds the order at the station, so its request is not
\* one that came late.
LEMMA ApprovedEarned ==
  ASSUME TypeInv, EarnedInv, BypassStep,
         NEW b \in BypassIds, bypass'[b].status = "approved",
         bypass'[b].attempt = MaxBypassAttemptsPerStation
  PROVE  RejectedFor(bypass[b].order, bypass[b].station)'
<1>1. bypass \in [BypassIds -> BypassRows]
  BY DEF TypeInv, TypeOK, TablesTypeOK
<1>2. /\ bypass'[b].order = bypass[b].order /\ bypass'[b].station = bypass[b].station
      /\ bypass'[b].attempt = bypass[b].attempt
      /\ bypass[b].status = "approved" \/ ApprovesBypass(b)
  BY <1>1 DEF BypassStep, ApprovesBypass, UpdateBypassIfPending, InsertBypassRequest
<1>3. PICK o, s : o = bypass[b].order /\ s = bypass[b].station
  OBVIOUS
<1>4. RejectedFor(o, s)
  <2>1. CASE bypass[b].status = "approved"
    BY <1>2, <1>3, <2>1 DEF EarnedInv, ForcedApprovalIsEarned, RejectedFor
  <2>2. CASE ApprovesBypass(b)
    <3>1. bypass[b].status = "pending" /\ orderStatus[o] = s
      BY <1>3, <2>2 DEF ApprovesBypass, UpdateBypassIfPending, CompleteStationTx,
         UpdateOrderStatusIfCurrent
    <3>2. s \in Stations
      BY <1>1, <1>3, <3>1 DEF BypassRows, NoBypass
    <3>3. EarnedOrLate(o, s)
      BY <1>2, <1>3, <3>1 DEF EarnedInv
    <3> QED
      BY <3>1, <3>2, <3>3, LeftForGood DEF EarnedOrLate
  <2> QED
    BY <1>2, <2>1, <2>2
<1>5. RejectedFor(o, s)'
  BY <1>4, RejectedStays
<1> QED
  BY <1>2, <1>3, <1>5 DEF RejectedFor

LEMMA EarnedStep ==
  ASSUME TypeInv, TaskOrderAgreement, MoneyInv, PackingsOwn, ApprovalsTrue, EarnedInv,
         MaxBypassAttemptsPerStation > 1, [Next]_vars
  PROVE  EarnedInv'
<1>1. OrdersStep /\ BypassStep /\ FilingsStep /\ bypass \in [BypassIds -> BypassRows]
  BY NextMoves, NextBypass, NextFilings DEF TypeInv, TypeOK, TablesTypeOK
<1>2. \A b \in BypassIds : bypass'[b].status = "rejected" =>
        bypass'[b].attempt < MaxBypassAttemptsPerStation
  BY <1>1 DEF EarnedInv, BypassStep, ApprovesBypass, InsertBypassRequest, UpdateBypassIfPending
<1>3. \A f \in filings' : f.attempt = MaxBypassAttemptsPerStation =>
        EarnedOrLate(f.order, f.station)'
  BY <1>1, FilingsEarned
<1>4. \A b \in BypassIds :
        bypass'[b].status = "pending" /\ bypass'[b].attempt = MaxBypassAttemptsPerStation =>
          EarnedOrLate(bypass[b].order, bypass[b].station)'
  BY <1>1, PendingEarned
<1>5. ForcedApprovalIsEarned'
  <2>1. ASSUME NEW b \in BypassIds, bypass'[b].status = "approved",
               bypass'[b].attempt = MaxBypassAttemptsPerStation
        PROVE  RejectedFor(bypass[b].order, bypass[b].station)'
    BY <1>1, <2>1, ApprovedEarned
  <2> QED
    BY <2>1 DEF ForcedApprovalIsEarned, RejectedFor
<1> QED
  BY <1>2, <1>3, <1>4, <1>5 DEF EarnedInv

\* Where a station allows more than one attempt (with one, the first is the
\* last), an approval is forced only after a rejection, though the order, the
\* pending request and the attempts are read one by one, long before the
\* insert, and two requests may carry one number.
THEOREM ForcedApprovalIsEarnedHolds ==
  ASSUME MaxBypassAttemptsPerStation > 1
  PROVE  Spec => []ForcedApprovalIsEarned
<1>1. Init => EarnedInv
  BY AttemptsAssumption DEF Init, TablesInit, StationInit, EarnedInv,
     ForcedApprovalIsEarned, NoBypass
<1>2. /\ TypeInv /\ TaskOrderAgreement /\ MoneyInv
      /\ PackingsOwn /\ ApprovalsTrue /\ EarnedInv /\ [Next]_vars
      => EarnedInv'
  BY EarnedStep
<1>3. EarnedInv => ForcedApprovalIsEarned
  BY DEF EarnedInv
<1> QED
  BY <1>1, <1>2, <1>3, TypeInvInductive, TaskOrderAgreementHolds, MoneyInvHolds,
     PackingsOwnHolds, ApprovalsTrueHolds, PTL DEF Spec
=============================================================================
