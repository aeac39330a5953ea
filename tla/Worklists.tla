------------------------------- MODULE Worklists -------------------------------
(***************************************************************************)
(* The lists of internal/order that staff work from, each one query over   *)
(* the tables: nobody is assigned an order that waits, so an order that is *)
(* on no list is forgotten and one on two is worked on twice.              *)
(***************************************************************************)
EXTENDS DriverDispatch, StationWork

\* GetAvailablePickups and GetAvailableDeliveries, by the type of the task.
AvailableTypes(o) == {t \in TaskTypes : taskStatus[o][t] = "available"}

\* What GetActiveTask may answer a driver: it shows one task, and the query
\* names no order among the several a driver can come to have (see
\* OneActiveTaskPerDriver).
MayBeShown(d) == IF ActiveTasks(d) = {} THEN {NULL} ELSE ActiveTasks(d)

Answers ==
  {shown \in [Drivers -> UNION {MayBeShown(d) : d \in Drivers}] :
     \A d \in Drivers : shown[d] \in MayBeShown(d)}

\* The drivers who find the order as their active task.
ActiveDrivers(o, shown) == {d \in Drivers : \E t \in TaskTypes : shown[d] = <<o, t>>}

\* GetPendingProcessOrders, and GetStationOrders of each station: the list an
\* order's status puts it on, if any.
OutletQueues(o) == {orderStatus[o]} \cap ({"laundry_arrived_outlet"} \cup Stations)

WorklistsOf(o, shown) == AvailableTypes(o) \cup ActiveDrivers(o, shown) \cup OutletQueues(o)

\* Nobody's turn, or the customer's: to pay, to confirm or complain.
NotStaffsTurn == {"none", "waiting_payment", "received_by_customer", "completed"}

\* The order's task is in progress, and its driver is shown another one.
HiddenFromDriver(o, shown) ==
  \E d \in Drivers, t \in TaskTypes :
    <<o, t>> \in ActiveTasks(d) /\ shown[d] \in ActiveTasks(d) \ {<<o, t>>}

\* Two tables decide which list an order is on, and no statement reads both.
\* Still an order is on exactly one list while it is the turn of a driver, a
\* station or the outlet's admin, and otherwise on none; only a driver with
\* several tasks misses an order, while shown another.
OneWorklistOrHidden ==
  \A shown \in Answers, o \in Orders :
    IF orderStatus[o] \in NotStaffsTurn
      THEN WorklistsOf(o, shown) = {}
      ELSE \/ \E list \in WorklistsOf(o, shown) : WorklistsOf(o, shown) = {list}
           \/ WorklistsOf(o, shown) = {} /\ HiddenFromDriver(o, shown)
=============================================================================
