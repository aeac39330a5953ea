------------------------------ MODULE OrderSystem ------------------------------
(***************************************************************************)
(* The order pipeline as a whole: the requests of customers, drivers,      *)
(* station workers and outlet admins, the auto-complete job, the payment   *)
(* handlers and the gateway, interleaved over the same tables; and crashes *)
(* of the API process, which lose every request in flight and the running  *)
(* job but nothing that was committed.                                     *)
(***************************************************************************)
EXTENDS CompletionCron, Worklists, Payments

CONSTANT MaxCrashes   \* bound: crashes of the API process

VARIABLE crashes

inFlight == <<sweep, claims, packings, filings, payCalls>>
vars == <<tableVars, inFlight, gatewayVars, crashes>>

TypeOK ==
  /\ TablesTypeOK
  /\ CronTypeOK
  /\ DispatchTypeOK
  /\ StationTypeOK
  /\ GatewayTypeOK
  /\ PaymentTypeOK
  /\ crashes \in Nat

Init ==
  /\ TablesInit
  /\ CronInit
  /\ DispatchInit
  /\ StationInit
  /\ GatewayInit
  /\ PaymentInit
  /\ crashes = 0

Crash ==
  /\ crashes < MaxCrashes
  /\ crashes' = crashes + 1
  /\ sweep' = [r \in Sweepers |-> {}]
  /\ claims' = {}
  /\ packings' = {}
  /\ filings' = {}
  /\ payCalls' = {}
  /\ UNCHANGED <<tableVars, gatewayVars>>

Intake   == IntakeNext   /\ UNCHANGED <<inFlight, gatewayVars, crashes>>
Cron     == CronNext     /\ UNCHANGED <<claims, stationVars, payCalls, gatewayVars, crashes>>
Dispatch == DispatchNext /\ UNCHANGED <<sweep, stationVars, payCalls, gatewayVars, crashes>>
Station  == StationNext  /\ UNCHANGED <<sweep, claims, payCalls, gatewayVars, crashes>>
Payment  == PaymentNext  /\ UNCHANGED <<sweep, claims, stationVars, crashes>>
Gateway  == GatewayNext  /\ UNCHANGED <<sweep, claims, stationVars, crashes>>

Next == Intake \/ Cron \/ Dispatch \/ Station \/ Payment \/ Gateway \/ Crash

Spec == Init /\ [][Next]_vars

-----------------------------------------------------------------------------
(* Fairness: only what the server and the gateway schedule by themselves.  *)
(* Customers, drivers, workers and admins may stop at any time.            *)

\* The database clock advances, the hourly ticker fires (no admin has to ask),
\* and each run handles the candidates it has read; the database does not fail the transaction of
\* an order in every run (strong: every run but one may).
CronFairness ==
  /\ \A o \in Orders : WF_vars(Cron /\ AutoConfirmPasses(o))
  /\ WF_vars(Cron /\ ListOrdersReadyForAutoComplete(Ticker))
  /\ \A r \in Sweepers, o \in Orders :
       /\ SF_vars(Cron /\ AutoCompleteOrder(r, o))
       /\ WF_vars(Cron /\ AutoCompleteSkip(r, o))

\* The gateway keeps sending the settlement of the transaction an order
\* names (strong: MaxPayCalls may refuse a delivery now and then), and every
\* payment request that was accepted runs to its end.
WebhookFairness ==
  /\ \A o \in Orders, g \in GatewayTxs :
       SF_vars(Payment /\ WebhookReadsPayment([tx |-> g, state |-> "settlement"], o))
  /\ \A c \in PayCalls : WF_vars(Payment /\ PayCallStep(c))

CronSpec    == Spec /\ CronFairness
WebhookSpec == Spec /\ WebhookFairness

-----------------------------------------------------------------------------
(* Safety *)

PickupTaskAt(s) ==
  IF s = "none" THEN "none"
  ELSE IF s = "waiting_pickup_driver" THEN "available"
  ELSE IF s = "laundry_to_outlet" THEN "in_progress"
  ELSE "completed"

DeliveryTaskAt(s) ==
  IF s = "ready_for_delivery" THEN "available"
  ELSE IF s = "delivery_to_customer" THEN "in_progress"
  ELSE IF s \in {"received_by_customer", "completed"} THEN "completed"
  ELSE "none"

\* An order's two driver tasks are where its status says, and a task has a
\* driver exactly once it was claimed.  ClaimTask moves the order without a
\* status guard, and the payment handlers and the packing station swallow a
\* duplicate delivery task: both are right only because of this agreement,
\* which no statement checks and every writer of both tables must keep.
TaskOrderAgreement ==
  \A o \in Orders :
    /\ taskStatus[o]["pickup"] = PickupTaskAt(orderStatus[o])
    /\ taskStatus[o]["delivery"] = DeliveryTaskAt(orderStatus[o])
    /\ \A t \in TaskTypes :
         taskDriver[o][t] = NULL <=> taskStatus[o][t] \in {"none", "available"}

\* order_status_histories tells one unbroken story that ends in the order's
\* status: no request that lost a race leaves a row, and the old status the
\* claims write from a table is the one the order really had.
HistoryIsPath ==
  \A o \in Orders :
    LET h == history[o]
    IN  /\ h = <<>> <=> orderStatus[o] = "none"
        /\ h # <<>> => h[1].old = "none" /\ h[Len(h)].new = orderStatus[o]
        /\ \A i \in 1..Len(h) - 1 : h[i + 1].old = h[i].new

\* No order is offered for delivery, delivered or completed unless a
\* transaction of its own was settled at the gateway, however notifications,
\* synchronisations, new transactions and packing completions interleave.
NoUnpaidDelivery ==
  \A o \in Orders :
    orderStatus[o] \in {"ready_for_delivery", "delivery_to_customer",
                        "received_by_customer", "completed"}
      => Settled(o)

\* An approved bypass request did move its order out of its station, and no
\* two were approved for one stay at a station: the review and the station's
\* transition commit together, against other reviews and completions.
BypassSettlesStation ==
  \A b \in BypassIds : bypass[b].status = "approved" =>
    /\ \E i \in 1..Len(history[bypass[b].order]) :
         history[bypass[b].order][i].old = bypass[b].station
    /\ \A c \in BypassIds \ {b} :
         ~ /\ bypass[c].status = "approved"
           /\ bypass[c].order = bypass[b].order
           /\ bypass[c].station = bypass[b].station

\* A last attempt is approved whatever the admin decides: where it moved the
\* order, an earlier request for the same stay at the station was rejected.
\* (A last attempt without one can be filed, where an approval came between
\* the request's read of the order and its count: the order has then left
\* the station, and the approval fails.)
ForcedApprovalIsEarned ==
  \A b \in BypassIds :
    bypass[b].status = "approved" /\ bypass[b].attempt = MaxBypassAttemptsPerStation =>
      \E c \in BypassIds :
        /\ bypass[c].order = bypass[b].order
        /\ bypass[c].station = bypass[b].station
        /\ bypass[c].status = "rejected"
        /\ bypass[c].attempt < MaxBypassAttemptsPerStation

KeepsDriver(o, t) ==
  taskDriver[o][t] # NULL =>
    /\ taskDriver'[o][t] = taskDriver[o][t]
    /\ taskStatus'[o][t] \in {taskStatus[o][t], "completed"}

\* A claimed task never changes hands and is never offered again: of all the
\* drivers whose checks passed, one wins.
TaskKeepsDriver == [][\A o \in Orders, t \in TaskTypes : KeepsDriver(o, t)]_vars

\* The pipeline implements OrderLifecycle: the statuses it writes follow the
\* line, and ready_for_delivery waits for the settlement.
Lifecycle == INSTANCE OrderLifecycle WITH
  stage   <- orderStatus,
  settled <- [o \in Orders |-> Settled(o)]

ImplementsLifecycle == Lifecycle!Spec

-----------------------------------------------------------------------------
(* Liveness *)

\* A received order is completed even if its customer never confirms,
\* though the process crashes between a run's read and its updates, and runs
\* overlap or fail.
ReceivedOrderCompletes ==
  \A o \in Orders :
    orderStatus[o] = "received_by_customer" ~> orderStatus[o] = "completed"

\* While the settlement of the transaction an order names keeps being
\* delivered, the order does not wait for its payment forever, whatever
\* overtook the first delivery: the webhook's short-circuit lets a
\* repetition through when the order was left behind.
SettlementAdvancesOrder ==
  \A o \in Orders, g \in GatewayTxs :
    (/\ orderStatus[o] = "waiting_payment"
     /\ gatewayTx[o] = g
     /\ [tx |-> g, state |-> "settlement"] \in notices)
      ~> (orderStatus[o] # "waiting_payment" \/ gatewayTx[o] # g)

-----------------------------------------------------------------------------
(* What a comment, a test or the README says and the code does not keep.   *)

\* handler_payment_test.go: "order should never be stuck at
\* waiting_payment".  Stuck: the payment row says paid, so neither
\* CreateTransaction nor SyncPaymentStatus does anything, and no request and
\* no notification is left that could move the order.
NeverStuckAtWaitingPayment ==
  \A o \in Orders :
    (orderStatus[o] = "waiting_payment" /\ payStatus[o] = "paid") =>
      \/ \E c \in payCalls : c.order = o
      \/ \E p \in packings : p.order = o
      \/ \E n \in notices : n.tx = gatewayTx[o]

\* README.md: payment confirmation is guarded like every other racing
\* transition.  A confirmed payment is then not unconfirmed by a late loser.
ConfirmedPaymentStands ==
  [][\A o \in Orders : payStatus[o] = "paid" => payStatus'[o] = "paid"]_vars

\* handler_helpers.go: "a driver may not hold more than one in_progress task
\* at a time".
OneActiveTaskPerDriver ==
  \A d \in Drivers : Cardinality(ActiveTasks(d)) <= 1

\* handler_bypass.go: "The last allowed attempt for a station is always
\* force-approved".  The requests of one stay are then never all rejected
\* with none left to file.
AllowedAttemptsNeverAllRejected ==
  \A o \in Orders, s \in Stations :
    Cardinality({b \in BypassIds : /\ bypass[b].order = o
                                   /\ bypass[b].station = s
                                   /\ bypass[b].status = "rejected"})
      < MaxBypassAttemptsPerStation
=============================================================================
