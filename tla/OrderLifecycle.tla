---------------------------- MODULE OrderLifecycle ----------------------------
(***************************************************************************)
(* What the order pipeline promises, whatever requests race: an order      *)
(* moves along one line of statuses, one step at a time and never back,    *)
(* and it is not made ready for delivery before the customer's money has   *)
(* arrived.                                                                *)
(***************************************************************************)
CONSTANT Orders

VARIABLES
  stage,    \* where an order is
  settled   \* whether its payment has reached the gateway

Successors ==
  [none                   |-> {"waiting_pickup_driver"},
   waiting_pickup_driver  |-> {"laundry_to_outlet"},
   laundry_to_outlet      |-> {"laundry_arrived_outlet"},
   laundry_arrived_outlet |-> {"washing"},
   washing                |-> {"ironing"},
   ironing                |-> {"packing"},
   packing                |-> {"waiting_payment", "ready_for_delivery"},
   waiting_payment        |-> {"ready_for_delivery"},
   ready_for_delivery     |-> {"delivery_to_customer"},
   delivery_to_customer   |-> {"received_by_customer"},
   received_by_customer   |-> {"completed"},
   completed              |-> {}]

Init ==
  /\ stage = [o \in Orders |-> "none"]
  /\ settled = [o \in Orders |-> FALSE]

Advance(o) ==
  \E next \in Successors[stage[o]] :
    /\ next = "ready_for_delivery" => settled[o]
    /\ stage' = [stage EXCEPT ![o] = next]
    /\ UNCHANGED settled

Settle(o) ==
  /\ settled' = [settled EXCEPT ![o] = TRUE]
  /\ UNCHANGED stage

Next == \E o \in Orders : Advance(o) \/ Settle(o)

Spec == Init /\ [][Next]_<<stage, settled>>
=============================================================================
