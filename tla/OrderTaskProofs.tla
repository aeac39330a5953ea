--------------------------- MODULE OrderTaskProofs ---------------------------
(***************************************************************************)
(* The driver tasks of an order: they are where the order's status says,   *)
(* and a claimed one keeps its driver.                                     *)
(***************************************************************************)
EXTENDS OrderTypeProofs

-----------------------------------------------------------------------------
(* The driver tasks follow the order.                                      *)

\* The steps that write neither table keep the agreement.
LEMMA AgreementFrame ==
  ASSUME TaskOrderAgreement, UNCHANGED <<orderStatus, taskVars>>
  PROVE  TaskOrderAgreement'
  BY DEF TaskOrderAgreement, taskVars

LEMMA UpdateOrderAgreement ==
  ASSUME TypeInv, TaskOrderAgreement, NEW o \in Orders,
         NEW old \in OrderStatuses, NEW new \in OrderStatuses,
         UpdateOrderStatusIfCurrent(o, old, new), UNCHANGED taskVars,
         PickupTaskAt(new) = PickupTaskAt(old), DeliveryTaskAt(new) = DeliveryTaskAt(old)
  PROVE  TaskOrderAgreement'
  BY DEF TypeInv, TypeOK, TablesTypeOK, TaskOrderAgreement, UpdateOrderStatusIfCurrent, taskVars

\* Becoming ready for delivery creates the delivery task.
LEMMA ReadyAgreement ==
  ASSUME TypeInv, TaskOrderAgreement, NEW o \in Orders,
         NEW old \in {"packing", "waiting_payment"},
         UpdateOrderStatusIfCurrent(o, old, "ready_for_delivery"),
         CreateDriverTask(o, "delivery")
  PROVE  TaskOrderAgreement'
<1> USE DEF TypeInv, TypeOK, TablesTypeOK, TaskOrderAgreement, UpdateOrderStatusIfCurrent,
      CreateDriverTask, PickupTaskAt, DeliveryTaskAt, TaskTypes
<1>1. \A p \in Orders \ {o} :
        /\ orderStatus'[p] = orderStatus[p]
        /\ taskStatus'[p] = taskStatus[p]
        /\ taskDriver'[p] = taskDriver[p]
  OBVIOUS
<1>2. /\ orderStatus'[o] = "ready_for_delivery"
      /\ taskStatus'[o]["pickup"] = "completed"
      /\ taskStatus'[o]["delivery"] = "available"
      /\ taskDriver'[o] = taskDriver[o]
  <2>1. orderStatus'[o] = "ready_for_delivery" /\ taskDriver'[o] = taskDriver[o]
    OBVIOUS
  <2>2. taskStatus'[o] = [taskStatus[o] EXCEPT !["delivery"] = "available"]
    OBVIOUS
  <2>3. taskStatus[o]["pickup"] = "completed"
    OBVIOUS
  <2> QED
    BY <2>1, <2>2, <2>3
<1> QED
  BY <1>1, <1>2

LEMMA CompleteStationTxAgreement ==
  ASSUME TypeInv, TaskOrderAgreement, NEW o \in Orders, NEW s \in Stations,
         NEW next \in OrderStatuses, CompleteStationTx(o, s, next),
         \/ next = stationNextStatus[s]
         \/ s = "packing" /\ next = "ready_for_delivery"
  PROVE  TaskOrderAgreement'
<1>1. CASE next = "ready_for_delivery"
  BY <1>1, ReadyAgreement DEF CompleteStationTx, stationNextStatus, Stations
<1>2. CASE next # "ready_for_delivery"
  <2>1. /\ s \in OrderStatuses
        /\ PickupTaskAt(next) = PickupTaskAt(s)
        /\ DeliveryTaskAt(next) = DeliveryTaskAt(s)
    BY <1>2 DEF stationNextStatus, Stations, OrderStatuses, PickupTaskAt, DeliveryTaskAt
  <2> QED
    BY <1>2, <2>1, UpdateOrderAgreement DEF CompleteStationTx
<1> QED
  BY <1>1, <1>2

LEMMA FinishAgreement ==
  ASSUME TypeInv, TaskOrderAgreement, NEW o \in Orders, FinishOrder(o)
  PROVE  TaskOrderAgreement'
  BY UpdateOrderAgreement DEF FinishOrder, OrderStatuses, PickupTaskAt, DeliveryTaskAt

LEMMA IntakeAgreement == TypeInv /\ TaskOrderAgreement /\ Intake => TaskOrderAgreement'
<1> SUFFICES ASSUME TypeInv, TaskOrderAgreement, Intake PROVE TaskOrderAgreement'
  OBVIOUS
<1>1. ASSUME NEW o \in Orders, CreateOrder(o) PROVE TaskOrderAgreement'
  BY <1>1 DEF CreateOrder, CreateDriverTask, TypeInv, TypeOK, TablesTypeOK,
      TaskOrderAgreement, PickupTaskAt, DeliveryTaskAt, TaskTypes
<1>2. ASSUME NEW o \in Orders, NEW total \in BOOLEAN, ProcessOrder(o, total)
      PROVE  TaskOrderAgreement'
  BY <1>2, UpdateOrderAgreement
  DEF ProcessOrder, OrderStatuses, Stations, PickupTaskAt, DeliveryTaskAt
<1>3. ASSUME NEW o \in Orders, CompleteOrder(o) PROVE TaskOrderAgreement'
  BY <1>3, FinishAgreement DEF CompleteOrder
<1> QED
  BY <1>1, <1>2, <1>3 DEF Intake, IntakeNext

LEMMA CronAgreement == TypeInv /\ TaskOrderAgreement /\ Cron => TaskOrderAgreement'
<1> SUFFICES ASSUME TypeInv, TaskOrderAgreement, Cron PROVE TaskOrderAgreement'
  OBVIOUS
<1>1. ASSUME NEW r \in Sweepers, NEW o \in Orders, AutoCompleteOrder(r, o)
      PROVE  TaskOrderAgreement'
  BY <1>1, FinishAgreement DEF AutoCompleteOrder
<1> QED
  BY <1>1, AgreementFrame DEF Cron, CronNext, ListOrdersReadyForAutoComplete,
     AutoConfirmPasses, AutoCompleteSkip, AutoCompleteFails, tableVars, orderVars

LEMMA DispatchAgreement == TypeInv /\ TaskOrderAgreement /\ Dispatch => TaskOrderAgreement'
<1> SUFFICES ASSUME TypeInv, TaskOrderAgreement, Dispatch PROVE TaskOrderAgreement'
  OBVIOUS
<1>1. ASSUME NEW d \in Drivers, NEW o \in Orders, NEW type \in TaskTypes,
             ClaimTaskCheck(d, o, type)
      PROVE  TaskOrderAgreement'
  BY <1>1, AgreementFrame DEF ClaimTaskCheck, tableVars, orderVars
<1>2. ASSUME NEW d \in Drivers, NEW o \in Orders, NEW type \in TaskTypes,
             CompleteTask(d, o, type)
      PROVE  TaskOrderAgreement'
  BY <1>2 DEF CompleteTask, CompleteDriverTaskIfInProgress, UpdateOrderStatusIfCurrent,
      completeOldStatus, completeNextStatus, TypeInv, TypeOK, TablesTypeOK,
      TaskOrderAgreement, PickupTaskAt, DeliveryTaskAt, TaskTypes
<1>3. ASSUME NEW c \in claims, ClaimTask(c) PROVE TaskOrderAgreement'
  <2>1. c.driver \in Drivers /\ c.driver # NULL /\ c.order \in Orders /\ c.type \in TaskTypes
    BY NullAssumption DEF TypeInv, TypeOK, DispatchTypeOK, ClaimRequests
  <2> QED
    BY <1>3, <2>1 DEF ClaimTask, ClaimDriverTaskIfAvailable, ClaimOrderForTask,
        claimNextStatus, TypeInv, TypeOK, TablesTypeOK, TaskOrderAgreement,
        PickupTaskAt, DeliveryTaskAt, TaskTypes
<1>4. ASSUME NEW c \in claims, ClaimTaskLost(c) PROVE TaskOrderAgreement'
  BY <1>4, AgreementFrame DEF ClaimTaskLost, tableVars, orderVars
<1> QED
  BY <1>1, <1>2, <1>3, <1>4 DEF Dispatch, DispatchNext

LEMMA StationAgreement == TypeInv /\ TaskOrderAgreement /\ Station => TaskOrderAgreement'
<1> SUFFICES ASSUME TypeInv, TaskOrderAgreement, Station PROVE TaskOrderAgreement'
  OBVIOUS
<1>1. ASSUME NEW o \in Orders, NEW s \in Stations, CompleteStation(o, s)
      PROVE  TaskOrderAgreement'
  <2>1. stationNextStatus[s] \in OrderStatuses
    BY DEF stationNextStatus, Stations, OrderStatuses
  <2> QED
    BY <1>1, <2>1, CompleteStationTxAgreement DEF CompleteStation
<1>2. ASSUME NEW o \in Orders, NEW b \in BypassIds \cup {NULL}, PackingReadsPayment(o, b)
      PROVE  TaskOrderAgreement'
  BY <1>2, AgreementFrame DEF PackingReadsPayment, tableVars, orderVars
<1>3. ASSUME NEW p \in packings, PackingCommit(p) PROVE TaskOrderAgreement'
  <2>1. /\ p.order \in Orders /\ p.next \in OrderStatuses /\ "packing" \in Stations
        /\ p.next \in {stationNextStatus["packing"], "ready_for_delivery"}
    BY DEF TypeInv, TypeOK, StationTypeOK, PackingTxs, OrderStatuses, Stations, stationNextStatus
  <2> QED
    BY <1>3, <2>1, CompleteStationTxAgreement DEF PackingCommit
<1>4. ASSUME NEW p \in packings, PackingLost(p) PROVE TaskOrderAgreement'
  BY <1>4, AgreementFrame DEF PackingLost, tableVars, orderVars
<1>5. ASSUME NEW w \in BypassWorkers, NEW o \in Orders, NEW s \in Stations,
             FileBypassRequest(w, o, s)
      PROVE  TaskOrderAgreement'
  BY <1>5, AgreementFrame DEF FileBypassRequest, tableVars, orderVars
<1>6. ASSUME NEW f \in filings, NEW b \in BypassIds, CreateBypassRequest(f, b)
      PROVE  TaskOrderAgreement'
  BY <1>6, AgreementFrame DEF CreateBypassRequest, orderVars
<1>7. ASSUME NEW b \in BypassIds, RejectBypassRequest(b) PROVE TaskOrderAgreement'
  BY <1>7, AgreementFrame DEF RejectBypassRequest, orderVars
<1>8. ASSUME NEW b \in BypassIds, ApproveBypassRequest(b) PROVE TaskOrderAgreement'
  <2>1. /\ bypass[b].order \in Orders /\ bypass[b].station \in Stations
        /\ stationNextStatus[bypass[b].station] \in OrderStatuses
    BY <1>8, ReviewType
    DEF ApproveBypassRequest, TypeInv, TypeOK, stationNextStatus, Stations, OrderStatuses
  <2> QED
    BY <1>8, <2>1, CompleteStationTxAgreement DEF ApproveBypassRequest
<1>9. ASSUME NEW f \in filings, PendingBypassChecked(f) \/ AttemptsCounted(f) \/ FilingEnds(f)
      PROVE  TaskOrderAgreement'
  BY <1>9, AgreementFrame DEF PendingBypassChecked, AttemptsCounted, FilingEnds, GoesOn,
     tableVars, orderVars
<1> QED
  BY <1>1, <1>2, <1>3, <1>4, <1>5, <1>6, <1>7, <1>8, <1>9 DEF Station, StationNext

LEMMA PaymentAgreement == TypeInv /\ TaskOrderAgreement /\ Payment => TaskOrderAgreement'
<1> SUFFICES ASSUME TypeInv, TaskOrderAgreement, Payment PROVE TaskOrderAgreement'
  OBVIOUS
<1> USE DEF tableVars, orderVars
<1>1. ASSUME NEW o \in Orders, CreateTransactionCheck(o) PROVE TaskOrderAgreement'
  BY <1>1, AgreementFrame DEF CreateTransactionCheck
<1>2. ASSUME NEW o \in Orders, SyncReadsPayment(o) PROVE TaskOrderAgreement'
  BY <1>2, AgreementFrame DEF SyncReadsPayment
<1>3. ASSUME NEW o \in Orders, NEW n \in notices, WebhookReadsPayment(n, o)
      PROVE  TaskOrderAgreement'
  BY <1>3, AgreementFrame DEF WebhookReadsPayment
<1>4. ASSUME NEW n \in notices, WebhookFindsNoPayment(n) PROVE TaskOrderAgreement'
  BY <1>4, AgreementFrame DEF WebhookFindsNoPayment
<1>5. ASSUME NEW c \in payCalls, NEW g \in GatewayTxs, CreateTransaction(c, g)
      PROVE  TaskOrderAgreement'
  BY <1>5, AgreementFrame DEF CreateTransaction
<1>6. ASSUME NEW c \in payCalls, SyncChecksTransaction(c) PROVE TaskOrderAgreement'
  BY <1>6, AgreementFrame DEF SyncChecksTransaction
<1>7. ASSUME NEW c \in payCalls, GatewayCallFails(c) PROVE TaskOrderAgreement'
  BY <1>7, AgreementFrame DEF GatewayCallFails
<1>8. ASSUME NEW c \in payCalls, WebhookReadsOrder(c) PROVE TaskOrderAgreement'
  BY <1>8, AgreementFrame DEF WebhookReadsOrder
<1>9. ASSUME NEW c \in payCalls, ApplyPayment(c) PROVE TaskOrderAgreement'
  <2>1. c.order \in Orders
    BY DEF TypeInv, TypeOK, PaymentTypeOK, PayCalls
  <2>2. CASE c.status = "paid" /\ orderStatus[c.order] = "waiting_payment"
    BY <1>9, <2>1, <2>2, ReadyAgreement DEF ApplyPayment, applyPaymentStatus
  <2>3. CASE ~ (c.status = "paid" /\ orderStatus[c.order] = "waiting_payment")
    BY <1>9, <2>3, AgreementFrame DEF ApplyPayment, applyPaymentStatus
  <2> QED
    BY <2>2, <2>3
<1> QED
  BY <1>1, <1>2, <1>3, <1>4, <1>5, <1>6, <1>7, <1>8, <1>9
  DEF Payment, PaymentNext, PayCallStep

LEMMA OtherAgreement ==
  TypeInv /\ TaskOrderAgreement /\ (Gateway \/ Crash \/ UNCHANGED vars) => TaskOrderAgreement'
  BY AgreementFrame
  DEF Gateway, GatewayNext, TransactionMoves, Crash, vars, tableVars, orderVars

\* The tasks of an order are where its status says, whatever claims,
\* completions, payments and reviews race: the unguarded ClaimOrderForTask
\* and the swallowed duplicate delivery task are safe for every number of
\* orders and drivers.
THEOREM TaskOrderAgreementHolds == Spec => []TaskOrderAgreement
<1>1. Init => TaskOrderAgreement
  BY DEF Init, TablesInit, TaskOrderAgreement, PickupTaskAt, DeliveryTaskAt, TaskTypes
<1>2. TypeInv /\ TaskOrderAgreement /\ [Next]_vars => TaskOrderAgreement'
  BY IntakeAgreement, CronAgreement, DispatchAgreement, StationAgreement,
     PaymentAgreement, OtherAgreement DEF Next
<1> QED
  BY <1>1, <1>2, TypeInvInductive, PTL DEF Spec

-----------------------------------------------------------------------------
(* A claimed task keeps its driver.                                        *)

LEMMA CreateTaskKeepsDrivers ==
  ASSUME TypeInv, TaskOrderAgreement, NEW o \in Orders, NEW type \in TaskTypes,
         CreateDriverTask(o, type)
  PROVE  \A p \in Orders, t \in TaskTypes : KeepsDriver(p, t)
<1>1. taskDriver[o][type] = NULL /\ UNCHANGED taskDriver
  BY DEF CreateDriverTask, TaskOrderAgreement
<1>2. ASSUME NEW p \in Orders, NEW t \in TaskTypes, <<p, t>> # <<o, type>>
      PROVE  taskStatus'[p][t] = taskStatus[p][t]
  BY <1>2 DEF CreateDriverTask, TypeInv, TypeOK, TablesTypeOK
<1> QED
  BY <1>1, <1>2 DEF KeepsDriver

LEMMA ClaimKeepsDrivers ==
  ASSUME TypeInv, NEW c \in claims, ClaimTask(c)
  PROVE  \A p \in Orders, t \in TaskTypes : KeepsDriver(p, t)
<1>1. c.order \in Orders /\ c.type \in TaskTypes /\ taskDriver[c.order][c.type] = NULL
  BY DEF TypeInv, TypeOK, DispatchTypeOK, ClaimRequests, ClaimTask, ClaimDriverTaskIfAvailable
<1>2. ASSUME NEW p \in Orders, NEW t \in TaskTypes, p # c.order \/ t # c.type
      PROVE  taskStatus'[p][t] = taskStatus[p][t] /\ taskDriver'[p][t] = taskDriver[p][t]
  BY <1>1, <1>2 DEF ClaimTask, ClaimDriverTaskIfAvailable, TypeInv, TypeOK, TablesTypeOK
<1> QED
  BY <1>1, <1>2 DEF KeepsDriver

LEMMA CompleteKeepsDrivers ==
  ASSUME TypeInv, NEW d \in Drivers, NEW o \in Orders, NEW type \in TaskTypes,
         CompleteTask(d, o, type)
  PROVE  \A p \in Orders, t \in TaskTypes : KeepsDriver(p, t)
<1>1. UNCHANGED taskDriver
  BY DEF CompleteTask, CompleteDriverTaskIfInProgress
<1>2. ASSUME NEW p \in Orders, NEW t \in TaskTypes
      PROVE  taskStatus'[p][t] \in {taskStatus[p][t], "completed"}
  BY DEF CompleteTask, CompleteDriverTaskIfInProgress, TypeInv, TypeOK, TablesTypeOK
<1> QED
  BY <1>1, <1>2 DEF KeepsDriver

\* Whatever claims and completions race, the first claim of a task decides.
THEOREM TaskKeepsDriverHolds == Spec => TaskKeepsDriver
<1>1. ASSUME TypeInv, TaskOrderAgreement, [Next]_vars
      PROVE  [\A o \in Orders, t \in TaskTypes : KeepsDriver(o, t)]_vars
  <2>1. UNCHANGED taskVars => \A p \in Orders, t \in TaskTypes : KeepsDriver(p, t)
    BY DEF KeepsDriver, taskVars
  <2>2. ASSUME NEW o \in Orders, NEW s, NEW next, CompleteStationTx(o, s, next)
        PROVE  \A p \in Orders, t \in TaskTypes : KeepsDriver(p, t)
    <3>1. CASE next = "ready_for_delivery"
      <4>1. "delivery" \in TaskTypes
        BY DEF TaskTypes
      <4>2. CreateDriverTask(o, "delivery")
        BY <2>2, <3>1 DEF CompleteStationTx
      <4> QED
        BY <1>1, <4>1, <4>2, CreateTaskKeepsDrivers
    <3>2. CASE next # "ready_for_delivery"
      BY <2>1, <2>2, <3>2 DEF CompleteStationTx
    <3> QED
      BY <3>1, <3>2
  <2>3. CASE Intake
    BY <1>1, <2>1, <2>3, CreateTaskKeepsDrivers
    DEF Intake, IntakeNext, CreateOrder, ProcessOrder, CompleteOrder, FinishOrder, TaskTypes
  <2>4. CASE Cron
    BY <2>1, <2>4 DEF Cron, CronNext, ListOrdersReadyForAutoComplete, AutoConfirmPasses,
       AutoCompleteOrder, AutoCompleteSkip, AutoCompleteFails, FinishOrder, tableVars
  <2>5. CASE Dispatch
    BY <1>1, <2>1, <2>5, ClaimKeepsDrivers, CompleteKeepsDrivers
    DEF Dispatch, DispatchNext, ClaimTaskCheck, ClaimTaskLost, tableVars
  <2>6. CASE Station
    <3>1. ASSUME NEW p \in packings, PackingCommit(p)
          PROVE  \A o \in Orders, t \in TaskTypes : KeepsDriver(o, t)
      <4>1. p.order \in Orders
        BY <1>1 DEF TypeInv, TypeOK, StationTypeOK, PackingTxs
      <4> QED
        BY <2>2, <3>1, <4>1 DEF PackingCommit
    <3>2. ASSUME NEW b \in BypassIds, ApproveBypassRequest(b)
          PROVE  \A o \in Orders, t \in TaskTypes : KeepsDriver(o, t)
      <4>1. bypass[b].order \in Orders
        BY <1>1, <3>2, ReviewType DEF ApproveBypassRequest, TypeInv, TypeOK
      <4> QED
        BY <2>2, <3>2, <4>1 DEF ApproveBypassRequest
    <3> QED
      BY <2>1, <2>2, <2>6, <3>1, <3>2 DEF Station, StationNext, CompleteStation,
         PackingReadsPayment, PackingLost, FileBypassRequest, PendingBypassChecked,
         AttemptsCounted, FilingEnds, GoesOn, CreateBypassRequest, RejectBypassRequest,
         tableVars
  <2>7. CASE Payment
    <3>1. ASSUME NEW c \in payCalls, ApplyPayment(c)
          PROVE  \A o \in Orders, t \in TaskTypes : KeepsDriver(o, t)
      <4>1. c.order \in Orders /\ "delivery" \in TaskTypes
        BY <1>1 DEF TypeInv, TypeOK, PaymentTypeOK, PayCalls, TaskTypes
      <4>2. CreateDriverTask(c.order, "delivery") \/ UNCHANGED taskVars
        BY <3>1 DEF ApplyPayment, applyPaymentStatus
      <4> QED
        BY <1>1, <2>1, <4>1, <4>2, CreateTaskKeepsDrivers
    <3> QED
      BY <2>1, <2>7, <3>1 DEF Payment, PaymentNext, PayCallStep, CreateTransactionCheck,
         SyncReadsPayment, WebhookReadsPayment, WebhookFindsNoPayment, CreateTransaction,
         SyncChecksTransaction, GatewayCallFails, WebhookReadsOrder, tableVars
  <2>8. CASE Gateway \/ Crash \/ UNCHANGED vars
    BY <2>1, <2>8 DEF Gateway, GatewayNext, TransactionMoves, Crash, vars, tableVars
  <2> QED
    BY <1>1, <2>3, <2>4, <2>5, <2>6, <2>7, <2>8 DEF Next
<1> QED
  BY <1>1, TypeInvInductive, TaskOrderAgreementHolds, PTL DEF Spec, TaskKeepsDriver

-----------------------------------------------------------------------------
(* Then the staff's lists, which are read off both tables, agree too.      *)

\* Only the driver its task names finds an order active, if not shown another.
LEMMA ActiveDriversOf ==
  ASSUME TypeInv, TaskOrderAgreement, NEW shown \in Answers, NEW o \in Orders
  PROVE  /\ orderStatus[o] \notin {"laundry_to_outlet", "delivery_to_customer"} =>
              ActiveDrivers(o, shown) = {}
         /\ orderStatus[o] \in {"laundry_to_outlet", "delivery_to_customer"} =>
              \/ \E d \in Drivers : ActiveDrivers(o, shown) = {d}
              \/ ActiveDrivers(o, shown) = {} /\ HiddenFromDriver(o, shown)
<1> DEFINE type == IF orderStatus[o] = "laundry_to_outlet" THEN "pickup" ELSE "delivery"
<1>1. ActiveDrivers(o, shown) \subseteq Drivers
  BY DEF ActiveDrivers
<1>2. \A d \in Drivers, t \in TaskTypes : <<o, t>> \in ActiveTasks(d) <=>
        taskDriver[o][t] = d /\ taskStatus[o][t] = "in_progress"
  BY DEF ActiveTasks
<1>3. \A t \in TaskTypes : taskStatus[o][t] = "in_progress" <=>
        t = type /\ orderStatus[o] \in {"laundry_to_outlet", "delivery_to_customer"}
  BY DEF TaskOrderAgreement, TaskTypes, PickupTaskAt, DeliveryTaskAt
<1>4. type \in TaskTypes
  BY DEF TaskTypes
<1>5. taskDriver[o][type] \in Drivers \cup {NULL}
  BY <1>4 DEF TypeInv, TypeOK, TablesTypeOK
<1>6. \A d \in Drivers : d \in ActiveDrivers(o, shown) =>
        \E t \in TaskTypes : taskDriver[o][t] = d /\ taskStatus[o][t] = "in_progress"
  <2>1. \A t \in TaskTypes : <<o, t>> # NULL
    BY NullAssumption DEF TaskTypes
  <2>2. \A d \in Drivers : d \in ActiveDrivers(o, shown) =>
          \E t \in TaskTypes : <<o, t>> \in ActiveTasks(d)
    BY <2>1 DEF ActiveDrivers, Answers, MayBeShown
  <2> QED
    BY <1>2, <2>2
<1> HIDE DEF type
<1>7. ASSUME orderStatus[o] \in {"laundry_to_outlet", "delivery_to_customer"}
      PROVE  \/ \E d \in Drivers : ActiveDrivers(o, shown) = {d}
             \/ ActiveDrivers(o, shown) = {} /\ HiddenFromDriver(o, shown)
  <2>1. PICK d \in Drivers : d = taskDriver[o][type]
    BY <1>3, <1>4, <1>5, <1>7 DEF TaskOrderAgreement
  <2>2. <<o, type>> \in ActiveTasks(d)
    BY <1>2, <1>3, <1>4, <1>7, <2>1
  <2>3. \A e \in Drivers : e \in ActiveDrivers(o, shown) => e = d
    BY <1>3, <1>6, <2>1
  <2>4. CASE d \in ActiveDrivers(o, shown)
    <3>1. ActiveDrivers(o, shown) = {d}
      BY <1>1, <2>3, <2>4
    <3> QED
      BY <3>1
  <2>5. CASE d \notin ActiveDrivers(o, shown)
    <3>1. ActiveDrivers(o, shown) = {}
      BY <1>1, <2>3, <2>5
    <3>2. shown[d] \in ActiveTasks(d)
      BY <2>2 DEF Answers, MayBeShown
    <3>3. shown[d] # <<o, type>>
      BY <1>4, <2>5 DEF ActiveDrivers
    <3> QED
      BY <1>4, <2>2, <3>1, <3>2, <3>3 DEF HiddenFromDriver
  <2> QED
    BY <2>4, <2>5
<1>8. ASSUME orderStatus[o] \notin {"laundry_to_outlet", "delivery_to_customer"}
      PROVE  ActiveDrivers(o, shown) = {}
  <2>1. \A d \in Drivers : d \notin ActiveDrivers(o, shown)
    BY <1>3, <1>6, <1>8
  <2> QED
    BY <1>1, <2>1
<1> QED
  BY <1>7, <1>8

LEMMA AvailableTypesOf ==
  ASSUME TypeInv, TaskOrderAgreement, NEW o \in Orders
  PROVE  AvailableTypes(o) =
           IF orderStatus[o] = "waiting_pickup_driver" THEN {"pickup"}
           ELSE IF orderStatus[o] = "ready_for_delivery" THEN {"delivery"} ELSE {}
<1>1. \A t \in TaskTypes : taskStatus[o][t] = "available" <=>
        \/ t = "pickup" /\ orderStatus[o] = "waiting_pickup_driver"
        \/ t = "delivery" /\ orderStatus[o] = "ready_for_delivery"
  BY DEF TaskOrderAgreement, TaskTypes, PickupTaskAt, DeliveryTaskAt
<1> QED
  BY <1>1 DEF AvailableTypes, TaskTypes

\* While an order is the staff's turn it is on exactly one of the lists they
\* work from, or hidden behind another task of its driver, and otherwise on
\* none, for any number of orders and drivers and whatever a driver is shown.
THEOREM OneWorklistOrHiddenHolds == Spec => []OneWorklistOrHidden
<1>1. TypeInv /\ TaskOrderAgreement => OneWorklistOrHidden
  <2> SUFFICES ASSUME TypeInv, TaskOrderAgreement, NEW shown \in Answers, NEW o \in Orders
               PROVE  IF orderStatus[o] \in NotStaffsTurn
                        THEN WorklistsOf(o, shown) = {}
                        ELSE \/ \E list \in WorklistsOf(o, shown) :
                                  WorklistsOf(o, shown) = {list}
                             \/ WorklistsOf(o, shown) = {} /\ HiddenFromDriver(o, shown)
    BY DEF OneWorklistOrHidden
  <2>1. orderStatus[o] \in OrderStatuses \cup {"none"}
    BY DEF TypeInv, TypeOK, TablesTypeOK
  <2>2. CASE orderStatus[o] \in {"waiting_pickup_driver", "ready_for_delivery"}
    <3>1. ActiveDrivers(o, shown) = {} /\ OutletQueues(o) = {}
      BY <2>2, ActiveDriversOf DEF OutletQueues, Stations
    <3> QED
      BY <2>2, <3>1, AvailableTypesOf DEF WorklistsOf, NotStaffsTurn
  <2>3. CASE orderStatus[o] \in {"laundry_to_outlet", "delivery_to_customer"}
    <3>1. AvailableTypes(o) = {} /\ OutletQueues(o) = {}
      BY <2>3, AvailableTypesOf DEF OutletQueues, Stations
    <3>2. WorklistsOf(o, shown) = ActiveDrivers(o, shown)
      BY <3>1 DEF WorklistsOf
    <3>3. \/ \E d \in Drivers : ActiveDrivers(o, shown) = {d}
          \/ ActiveDrivers(o, shown) = {} /\ HiddenFromDriver(o, shown)
      BY <2>3, ActiveDriversOf
    <3> QED
      BY <2>3, <3>2, <3>3 DEF NotStaffsTurn
  <2>4. CASE orderStatus[o] \in {"laundry_arrived_outlet"} \cup Stations
    <3>1. AvailableTypes(o) = {} /\ ActiveDrivers(o, shown) = {}
      BY <2>4, AvailableTypesOf, ActiveDriversOf DEF Stations
    <3> QED
      BY <2>4, <3>1 DEF WorklistsOf, OutletQueues, NotStaffsTurn, Stations
  <2>5. CASE orderStatus[o] \in NotStaffsTurn
    <3>1. AvailableTypes(o) = {} /\ ActiveDrivers(o, shown) = {} /\ OutletQueues(o) = {}
      BY <2>5, AvailableTypesOf, ActiveDriversOf DEF OutletQueues, NotStaffsTurn, Stations
    <3> QED
      BY <2>5, <3>1 DEF WorklistsOf
  <2> QED
    BY <2>1, <2>2, <2>3, <2>4, <2>5 DEF OrderStatuses, Stations, NotStaffsTurn
<1> QED
  BY <1>1, TypeInvInductive, TaskOrderAgreementHolds, PTL
=============================================================================
