----------------------------- MODULE OrderIntake -----------------------------
(***************************************************************************)
(* The requests of internal/order that begin and end an order: a customer  *)
(* creates it, the outlet admin records and prices what arrived, the       *)
(* customer confirms the receipt.  Each is one transaction whose status    *)
(* guard is re-evaluated by the UPDATE itself, so the read the handler     *)
(* makes before it decides nothing more than the answer.                   *)
(***************************************************************************)
EXTENDS OrderTables

\* CreateOrder: the order, its first history row and its pickup task.
CreateOrder(o) ==
  /\ orderStatus[o] = "none"
  /\ orderStatus' = [orderStatus EXCEPT ![o] = "waiting_pickup_driver"]
  /\ CreateOrderStatusHistory(o, "none", "waiting_pickup_driver")
  /\ CreateDriverTask(o, "pickup")
  /\ UNCHANGED <<billed, autoConfirm, payVars, bypass>>

\* ProcessOrder: total is whether the sum of price times quantity and the
\* delivery fee is positive.  A request only needs one positive quantity, and
\* another item may be negative: the sum need not be positive.
ProcessOrder(o, total) ==
  /\ UpdateOrderStatusIfCurrent(o, "laundry_arrived_outlet", "washing")
  /\ billed' = [billed EXCEPT ![o] = total]
  /\ CreateOrderStatusHistory(o, "laundry_arrived_outlet", "washing")
  /\ UNCHANGED <<autoConfirm, taskVars, payVars, bypass>>

\* received_by_customer -> completed, shared by the customer's confirmation
\* and the cron job's.
FinishOrder(o) ==
  /\ UpdateOrderStatusIfCurrent(o, "received_by_customer", "completed")
  /\ CreateOrderStatusHistory(o, "received_by_customer", "completed")
  /\ UNCHANGED <<billed, autoConfirm, taskVars, payVars, bypass>>

CompleteOrder(o) == FinishOrder(o)

IntakeNext ==
  \E o \in Orders :
    \/ CreateOrder(o)
    \/ \E total \in BOOLEAN : ProcessOrder(o, total)
    \/ CompleteOrder(o)
=============================================================================
