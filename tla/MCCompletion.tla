----------------------------- MODULE MCCompletion -----------------------------
(* OrderSystem from the moment all of its orders are on their way to the   *)
(* customer, for the runs about the end of an order: no further payment or *)
(* station work is left to interleave, so several orders fit.              *)
EXTENDS OrderSystem

\* Every order paid by a transaction of its own.
PaidBy == CHOOSE f \in [Orders -> GatewayTxs] :
            \A o, p \in Orders : f[o] = f[p] => o = p

OnTheWay ==
  <<"none", "waiting_pickup_driver", "laundry_to_outlet", "laundry_arrived_outlet",
    "washing", "ironing", "packing", "waiting_payment", "ready_for_delivery",
    "delivery_to_customer">>

InitOnTheWay ==
  /\ CronInit /\ DispatchInit /\ StationInit /\ PaymentInit
  /\ crashes = 0
  /\ orderStatus = [o \in Orders |-> "delivery_to_customer"]
  /\ billed = [o \in Orders |-> TRUE]
  /\ autoConfirm = [o \in Orders |-> "null"]
  /\ history = [o \in Orders |->
       [i \in 1..Len(OnTheWay) - 1 |-> [old |-> OnTheWay[i], new |-> OnTheWay[i + 1]]]]
  /\ taskStatus = [o \in Orders |-> [pickup |-> "completed", delivery |-> "in_progress"]]
  /\ \E d \in Drivers : taskDriver = [o \in Orders |-> [t \in TaskTypes |-> d]]
  /\ payStatus = [o \in Orders |-> "paid"]
  /\ gatewayTx = PaidBy
  /\ bypass = [b \in BypassIds |-> NoBypass]
  /\ txOrder = [g \in GatewayTxs |->
       IF \E o \in Orders : PaidBy[o] = g THEN CHOOSE o \in Orders : PaidBy[o] = g ELSE NULL]
  /\ txState = [g \in GatewayTxs |->
       IF \E o \in Orders : PaidBy[o] = g THEN "settlement" ELSE "unused"]
  /\ notices = {}

OnTheWaySpec == InitOnTheWay /\ [][Next]_vars /\ CronFairness
=============================================================================
