----------------------------- MODULE OrderTables -----------------------------
(***************************************************************************)
(* The PostgreSQL tables of the order pipeline (orders,                    *)
(* order_status_histories, driver_tasks, payments, bypass_requests) and    *)
(* the SQL statements that write them.  Every request handler and every    *)
(* job of the program works on these tables; a handler's transaction is    *)
(* one action of the module of its component, built from the statements    *)
(* defined here.                                                           *)
(*                                                                         *)
(* A guarded UPDATE holds its row lock until COMMIT, so the guard is the   *)
(* one that held at COMMIT and the statement is a conjunct of the atomic   *)
(* action that stands for the transaction.  A statement whose guard fails  *)
(* is FALSE: the handler rolls back.                                       *)
(***************************************************************************)
EXTENDS Naturals, Sequences, FiniteSets

CONSTANTS
  Orders,        \* the order rows that may ever be created
  Drivers,       \* employees with the driver role
  GatewayTxs,    \* Midtrans transaction numbers, one per Snap call
  BypassIds,     \* the bypass_requests rows that may ever be created
  MaxBypassAttemptsPerStation,
  NULL           \* SQL NULL

ASSUME NullAssumption ==
  /\ NULL \notin Orders \cup Drivers \cup GatewayTxs \cup BypassIds \cup {"pickup", "delivery"}
  /\ NULL \notin Orders \X {"pickup", "delivery"}

ASSUME AttemptsAssumption == MaxBypassAttemptsPerStation \in Nat \ {0}

ASSUME FiniteAssumption == IsFiniteSet(BypassIds)

VARIABLES
  orderStatus,   \* orders.status; "none" while the row does not exist
  billed,        \* orders.total_price > 0
  autoConfirm,   \* orders.auto_confirm_at: NULL, in the future or passed
  history,       \* order_status_histories of an order, oldest first
  taskStatus,    \* driver_tasks.status of an order's pickup and delivery
  taskDriver,    \* driver_tasks.driver_id
  payStatus,     \* payments.status; "none" while the row does not exist
  gatewayTx,     \* payments.gateway_transaction_id
  bypass         \* bypass_requests rows

orderVars  == <<orderStatus, billed, autoConfirm, history>>
taskVars   == <<taskStatus, taskDriver>>
payVars    == <<payStatus, gatewayTx>>
tableVars  == <<orderVars, taskVars, payVars, bypass>>

-----------------------------------------------------------------------------
(* The values a column may hold. *)

Stations == {"washing", "ironing", "packing"}

OrderStatuses ==
  {"waiting_pickup_driver", "laundry_to_outlet", "laundry_arrived_outlet"}
    \cup Stations \cup
  {"waiting_payment", "ready_for_delivery", "delivery_to_customer",
   "received_by_customer", "completed"}

TaskTypes == {"pickup", "delivery"}

TaskStatuses == {"none", "available", "in_progress", "completed"}

\* The schema would also allow "refunded", which no statement writes.
PaymentStatuses == {"pending", "paid", "failed", "expired"}

NoBypass == [status |-> "none", order |-> NULL, station |-> "none", attempt |-> 0]

BypassRows ==
  {NoBypass} \cup
  [status  : {"pending", "approved", "rejected"},
   order   : Orders,
   station : Stations,
   attempt : 1..MaxBypassAttemptsPerStation]

HistoryRows ==
  [old : OrderStatuses \cup {"none"}, new : OrderStatuses]

TablesTypeOK ==
  /\ orderStatus \in [Orders -> OrderStatuses \cup {"none"}]
  /\ billed \in [Orders -> BOOLEAN]
  /\ autoConfirm \in [Orders -> {"null", "future", "passed"}]
  /\ history \in [Orders -> Seq(HistoryRows)]
  /\ taskStatus \in [Orders -> [TaskTypes -> TaskStatuses]]
  /\ taskDriver \in [Orders -> [TaskTypes -> Drivers \cup {NULL}]]
  /\ payStatus \in [Orders -> PaymentStatuses \cup {"none"}]
  /\ gatewayTx \in [Orders -> GatewayTxs \cup {NULL}]
  /\ bypass \in [BypassIds -> BypassRows]

TablesInit ==
  /\ orderStatus = [o \in Orders |-> "none"]
  /\ billed = [o \in Orders |-> FALSE]
  /\ autoConfirm = [o \in Orders |-> "null"]
  /\ history = [o \in Orders |-> <<>>]
  /\ taskStatus = [o \in Orders |-> [t \in TaskTypes |-> "none"]]
  /\ taskDriver = [o \in Orders |-> [t \in TaskTypes |-> NULL]]
  /\ payStatus = [o \in Orders |-> "none"]
  /\ gatewayTx = [o \in Orders |-> NULL]
  /\ bypass = [b \in BypassIds |-> NoBypass]

-----------------------------------------------------------------------------
(* The maps of internal/order/constants.go. *)

stationNextStatus ==
  [washing |-> "ironing", ironing |-> "packing", packing |-> "waiting_payment"]

claimNextStatus ==
  [pickup |-> "laundry_to_outlet", delivery |-> "delivery_to_customer"]

claimOldStatus ==
  [pickup |-> "waiting_pickup_driver", delivery |-> "ready_for_delivery"]

completeNextStatus ==
  [pickup |-> "laundry_arrived_outlet", delivery |-> "received_by_customer"]

completeOldStatus ==
  [pickup |-> "laundry_to_outlet", delivery |-> "delivery_to_customer"]

-----------------------------------------------------------------------------
(* orders and order_status_histories *)

\* Mutant: the WHERE clause loses its status.
UpdateOrderStatus(o, old, new) ==
  orderStatus' = [orderStatus EXCEPT ![o] = new]

UpdateOrderStatusIfCurrent(o, old, new) ==
  /\ orderStatus[o] = old
  /\ orderStatus' = [orderStatus EXCEPT ![o] = new]

\* Unlike the statement above, no status guard: the claimed task is the guard.
ClaimOrderForTask(o, new) ==
  orderStatus' = [orderStatus EXCEPT ![o] = new]

CreateOrderStatusHistory(o, old, new) ==
  history' = [history EXCEPT ![o] = Append(@, [old |-> old, new |-> new])]

(* driver_tasks, with its UNIQUE (order_id, task_type) *)

CreateDriverTask(o, type) ==
  /\ taskStatus[o][type] = "none"
  /\ taskStatus' = [taskStatus EXCEPT ![o][type] = "available"]
  /\ UNCHANGED taskDriver

\* Mutant: the claim relies on the check made before the transaction.
ClaimDriverTask(d, o, type) ==
  /\ taskStatus' = [taskStatus EXCEPT ![o][type] = "in_progress"]
  /\ taskDriver' = [taskDriver EXCEPT ![o][type] = d]

ClaimDriverTaskIfAvailable(d, o, type) ==
  /\ taskStatus[o][type] = "available"
  /\ taskDriver[o][type] = NULL
  /\ taskStatus' = [taskStatus EXCEPT ![o][type] = "in_progress"]
  /\ taskDriver' = [taskDriver EXCEPT ![o][type] = d]

CompleteDriverTaskIfInProgress(d, o, type) ==
  /\ taskStatus[o][type] = "in_progress"
  /\ taskDriver[o][type] = d
  /\ taskStatus' = [taskStatus EXCEPT ![o][type] = "completed"]
  /\ UNCHANGED taskDriver

(* payments, one row per order *)

UpsertPaymentForOrder(o, g) ==
  /\ payStatus' = [payStatus EXCEPT ![o] = "pending"]
  /\ gatewayTx' = [gatewayTx EXCEPT ![o] = g]

UpdatePaymentStatus(o, new) ==
  /\ payStatus' = [payStatus EXCEPT ![o] = new]
  /\ UNCHANGED gatewayTx

(* bypass_requests *)

PendingBypassRequests(o, s) ==
  {b \in BypassIds : bypass[b].order = o /\ bypass[b].station = s
                       /\ bypass[b].status = "pending"}

\* Mutant: the attempts of an order are counted over all of its stations.
NonPendingBypassRequestsOfOrder(o, s) ==
  {b \in BypassIds : bypass[b].order = o /\ bypass[b].status # "pending"}

NonPendingBypassRequests(o, s) ==
  {b \in BypassIds : bypass[b].order = o /\ bypass[b].station = s
                       /\ bypass[b].status # "pending"}

InsertBypassRequest(b, o, s, attempt) ==
  /\ bypass[b].status = "none"
  /\ bypass' = [bypass EXCEPT ![b] =
       [status |-> "pending", order |-> o, station |-> s, attempt |-> attempt]]

UpdateBypassIfPending(b, decision) ==
  /\ bypass[b].status = "pending"
  /\ bypass' = [bypass EXCEPT ![b] =
       [status |-> decision, order |-> @.order, station |-> @.station, attempt |-> @.attempt]]
=============================================================================
