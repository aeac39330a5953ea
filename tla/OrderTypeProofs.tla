--------------------------- MODULE OrderTypeProofs ---------------------------
(***************************************************************************)
(* OrderSystem keeps its types, for any number of orders, drivers, bypass  *)
(* requests, gateway transactions, requests in flight and crashes.  The    *)
(* inductive invariant TypeInv is the one all other proofs build on.       *)
(***************************************************************************)
EXTENDS OrderSystem, FiniteSetTheorems, TLAPS

-----------------------------------------------------------------------------
(* Type correctness.                                                       *)

\* A payment row exists exactly when it names a gateway transaction, and a
\* payment request past its first read has seen the row.
PaymentRows ==
  /\ \A o \in Orders : payStatus[o] = "none" <=> gatewayTx[o] = NULL
  /\ \A c \in payCalls : c.phase # "create" => gatewayTx[c.order] # NULL

TypeInv == TypeOK /\ PaymentRows

LEMMA InitTypeInv == Init => TypeInv
  BY AttemptsAssumption, NullAssumption
  DEF Init, TypeInv, TypeOK, PaymentRows, TablesInit, CronInit, DispatchInit,
      StationInit, GatewayInit, PaymentInit, TablesTypeOK, CronTypeOK,
      DispatchTypeOK, StationTypeOK, GatewayTypeOK, PaymentTypeOK, BypassRows, NoBypass,
      OrderStatuses, TaskTypes, TaskStatuses, Stations

\* The reviewed requests of a stay are counted by a natural number.
LEMMA AttemptType ==
  ASSUME NEW o, NEW s
  PROVE  Cardinality(NonPendingBypassRequests(o, s)) \in Nat
  BY FiniteAssumption, FS_Subset, FS_CardinalityType DEF NonPendingBypassRequests

LEMMA IntakeTypeInv == TypeInv /\ Intake => TypeInv'
<1> SUFFICES ASSUME TypeInv, Intake PROVE TypeInv'
  OBVIOUS
<1> USE DEF TypeInv, TypeOK, PaymentRows, TablesTypeOK, CronTypeOK, DispatchTypeOK,
      StationTypeOK, GatewayTypeOK, PaymentTypeOK, OrderStatuses, TaskTypes,
      TaskStatuses, Stations, Intake, inFlight, gatewayVars, stationVars, payVars,
      taskVars, orderVars, CreateOrderStatusHistory, HistoryRows
<1>1. ASSUME NEW o \in Orders, CreateOrder(o) PROVE TypeInv'
  BY <1>1 DEF CreateOrder, CreateDriverTask
<1>2. ASSUME NEW o \in Orders, NEW total \in BOOLEAN, ProcessOrder(o, total) PROVE TypeInv'
  BY <1>2 DEF ProcessOrder, UpdateOrderStatusIfCurrent
<1>3. ASSUME NEW o \in Orders, CompleteOrder(o) PROVE TypeInv'
  BY <1>3 DEF CompleteOrder, FinishOrder, UpdateOrderStatusIfCurrent
<1> QED
  BY <1>1, <1>2, <1>3 DEF IntakeNext

LEMMA LeavesSweepType ==
  ASSUME sweep \in [Sweepers -> SUBSET Orders], NEW r \in Sweepers, NEW o, LeavesSweep(r, o)
  PROVE  sweep' \in [Sweepers -> SUBSET Orders]
  BY DEF LeavesSweep

LEMMA CronTypeInv == TypeInv /\ Cron => TypeInv'
<1> SUFFICES ASSUME TypeInv, Cron PROVE TypeInv'
  OBVIOUS
<1> USE DEF TypeInv, TypeOK, PaymentRows, TablesTypeOK, CronTypeOK, DispatchTypeOK,
      StationTypeOK, GatewayTypeOK, PaymentTypeOK, OrderStatuses, TaskTypes,
      TaskStatuses, Stations, Cron, gatewayVars, stationVars, payVars,
      taskVars, orderVars, tableVars
<1>1. ASSUME NEW r \in Sweepers, ListOrdersReadyForAutoComplete(r) PROVE TypeInv'
  BY <1>1 DEF ListOrdersReadyForAutoComplete, ReadyForAutoComplete
<1>2. ASSUME NEW o \in Orders, AutoConfirmPasses(o) PROVE TypeInv'
  BY <1>2 DEF AutoConfirmPasses
<1>3. ASSUME NEW r \in Sweepers, NEW o \in Orders, AutoCompleteOrder(r, o) PROVE TypeInv'
  <2>1. sweep' \in [Sweepers -> SUBSET Orders]
    BY <1>3, LeavesSweepType DEF AutoCompleteOrder
  <2> QED
    BY <1>3, <2>1 DEF AutoCompleteOrder, FinishOrder, UpdateOrderStatusIfCurrent,
       CreateOrderStatusHistory, HistoryRows
<1>4. ASSUME NEW r \in Sweepers, NEW o \in Orders,
             AutoCompleteSkip(r, o) \/ AutoCompleteFails(r, o)
      PROVE  TypeInv'
  <2>1. sweep' \in [Sweepers -> SUBSET Orders]
    BY <1>4, LeavesSweepType DEF AutoCompleteSkip, AutoCompleteFails
  <2> QED
    BY <1>4, <2>1 DEF AutoCompleteSkip, AutoCompleteFails
<1> QED
  BY <1>1, <1>2, <1>3, <1>4 DEF CronNext

LEMMA DispatchTypeInv == TypeInv /\ Dispatch => TypeInv'
<1> SUFFICES ASSUME TypeInv, Dispatch PROVE TypeInv'
  OBVIOUS
<1> USE DEF TypeInv, TypeOK, PaymentRows, TablesTypeOK, CronTypeOK, DispatchTypeOK,
      StationTypeOK, GatewayTypeOK, PaymentTypeOK, OrderStatuses, TaskTypes,
      TaskStatuses, Stations, Dispatch, gatewayVars, stationVars, payVars,
      taskVars, orderVars, tableVars, ClaimRequests, CreateOrderStatusHistory, HistoryRows
<1>1. ASSUME NEW d \in Drivers, NEW o \in Orders, NEW type \in TaskTypes,
             ClaimTaskCheck(d, o, type)
      PROVE  TypeInv'
  BY <1>1 DEF ClaimTaskCheck
<1>2. ASSUME NEW d \in Drivers, NEW o \in Orders, NEW type \in TaskTypes,
             CompleteTask(d, o, type)
      PROVE  TypeInv'
  BY <1>2 DEF CompleteTask, CompleteDriverTaskIfInProgress, UpdateOrderStatusIfCurrent,
      completeOldStatus, completeNextStatus
<1>3. ASSUME NEW c \in claims, ClaimTask(c) PROVE TypeInv'
  BY <1>3 DEF ClaimTask, ClaimDriverTaskIfAvailable, ClaimOrderForTask,
      claimOldStatus, claimNextStatus
<1>4. ASSUME NEW c \in claims, ClaimTaskLost(c) PROVE TypeInv'
  BY <1>4 DEF ClaimTaskLost
<1> QED
  BY <1>1, <1>2, <1>3, <1>4 DEF DispatchNext

LEMMA UpdateOrderStatusType ==
  ASSUME TablesTypeOK, NEW o \in Orders, NEW old, NEW new \in OrderStatuses,
         UpdateOrderStatusIfCurrent(o, old, new)
  PROVE  orderStatus' \in [Orders -> OrderStatuses \cup {"none"}]
  BY DEF TablesTypeOK, UpdateOrderStatusIfCurrent

LEMMA CreateHistoryType ==
  ASSUME TablesTypeOK, NEW o \in Orders, NEW old \in OrderStatuses \cup {"none"},
         NEW new \in OrderStatuses, CreateOrderStatusHistory(o, old, new)
  PROVE  history' \in [Orders -> Seq(HistoryRows)]
<1>1. [old |-> old, new |-> new] \in HistoryRows
  BY DEF HistoryRows
<1> QED
  BY <1>1 DEF TablesTypeOK, CreateOrderStatusHistory

LEMMA CreateTaskType ==
  ASSUME TablesTypeOK, NEW o \in Orders, NEW type \in TaskTypes, CreateDriverTask(o, type)
  PROVE  /\ taskStatus' \in [Orders -> [TaskTypes -> TaskStatuses]]
         /\ taskDriver' \in [Orders -> [TaskTypes -> Drivers \cup {NULL}]]
  BY DEF TablesTypeOK, CreateDriverTask, TaskStatuses

LEMMA CompleteStationTxType ==
  ASSUME TablesTypeOK, NEW o \in Orders, NEW s \in Stations,
         NEW next \in OrderStatuses, CompleteStationTx(o, s, next)
  PROVE  /\ orderStatus' \in [Orders -> OrderStatuses \cup {"none"}]
         /\ history' \in [Orders -> Seq(HistoryRows)]
         /\ taskStatus' \in [Orders -> [TaskTypes -> TaskStatuses]]
         /\ taskDriver' \in [Orders -> [TaskTypes -> Drivers \cup {NULL}]]
         /\ UNCHANGED <<billed, autoConfirm, payVars>>
<1>1. s \in OrderStatuses /\ "delivery" \in TaskTypes
  BY DEF Stations, OrderStatuses, TaskTypes
<1>2. CASE next = "ready_for_delivery"
  BY <1>1, <1>2, UpdateOrderStatusType, CreateHistoryType, CreateTaskType DEF CompleteStationTx
<1>3. CASE next # "ready_for_delivery"
  BY <1>1, <1>3, UpdateOrderStatusType, CreateHistoryType
  DEF CompleteStationTx, TablesTypeOK, taskVars
<1> QED
  BY <1>2, <1>3

LEMMA ReviewType ==
  ASSUME TablesTypeOK, NEW b \in BypassIds, NEW decision \in {"approved", "rejected"},
         UpdateBypassIfPending(b, decision)
  PROVE  /\ bypass[b].order \in Orders /\ bypass[b].station \in Stations
         /\ bypass' \in [BypassIds -> BypassRows]
  BY DEF TablesTypeOK, UpdateBypassIfPending, BypassRows, NoBypass

LEMMA StationTypeInv == TypeInv /\ Station => TypeInv'
<1> SUFFICES ASSUME TypeInv, Station PROVE TypeInv'
  OBVIOUS
<1> USE DEF TypeInv, TypeOK, PaymentRows, TablesTypeOK, CronTypeOK, DispatchTypeOK,
      StationTypeOK, GatewayTypeOK, PaymentTypeOK, Station, gatewayVars, stationVars,
      payVars, taskVars, orderVars, tableVars
<1>1. ASSUME NEW o \in Orders, NEW s \in Stations, CompleteStation(o, s) PROVE TypeInv'
  <2>1. stationNextStatus[s] \in OrderStatuses
    BY DEF stationNextStatus, Stations, OrderStatuses
  <2> QED
    BY <1>1, <2>1, CompleteStationTxType DEF CompleteStation
<1>2. ASSUME NEW o \in Orders, NEW b \in BypassIds \cup {NULL}, PackingReadsPayment(o, b)
      PROVE  TypeInv'
  BY <1>2 DEF PackingReadsPayment, PackingTxs, stationNextStatus
<1>3. ASSUME NEW p \in packings, PackingCommit(p) PROVE TypeInv'
  <2>1. p.order \in Orders /\ p.next \in OrderStatuses /\ p.bypass \in BypassIds \cup {NULL}
    BY DEF PackingTxs, OrderStatuses
  <2>2. bypass' \in [BypassIds -> BypassRows]
    BY <1>3, <2>1, ReviewType DEF PackingCommit
  <2>3. packings' \subseteq PackingTxs /\ UNCHANGED filings
    BY <1>3 DEF PackingCommit
  <2>4. "packing" \in Stations /\ CompleteStationTx(p.order, "packing", p.next)
    BY <1>3 DEF PackingCommit, Stations
  <2> QED
    BY <2>1, <2>2, <2>3, <2>4, CompleteStationTxType
<1>4. ASSUME NEW p \in packings, PackingLost(p) PROVE TypeInv'
  BY <1>4 DEF PackingLost
<1>5. ASSUME NEW w \in BypassWorkers, NEW o \in Orders, NEW s \in Stations,
             FileBypassRequest(w, o, s)
      PROVE  TypeInv'
  <2>1. 0 \in 0..MaxBypassAttemptsPerStation
    BY AttemptsAssumption
  <2> QED
    BY <1>5, <2>1 DEF FileBypassRequest, Filings
<1>6. ASSUME NEW f \in filings, NEW b \in BypassIds, CreateBypassRequest(f, b)
      PROVE  TypeInv'
  <2>1. f \in Filings /\ f.attempt \in 1..MaxBypassAttemptsPerStation
    BY <1>6, AttemptsAssumption DEF CreateBypassRequest, Filings
  <2> QED
    BY <1>6, <2>1 DEF CreateBypassRequest, InsertBypassRequest, Filings, BypassRows
<1>7. ASSUME NEW b \in BypassIds, RejectBypassRequest(b) PROVE TypeInv'
  BY <1>7, ReviewType DEF RejectBypassRequest
<1>8. ASSUME NEW b \in BypassIds, ApproveBypassRequest(b) PROVE TypeInv'
  <2> DEFINE s == bypass[b].station
  <2>1. bypass[b].order \in Orders /\ s \in Stations /\ stationNextStatus[s] \in OrderStatuses
    BY <1>8, ReviewType DEF ApproveBypassRequest, stationNextStatus, Stations, OrderStatuses
  <2>2. bypass' \in [BypassIds -> BypassRows]
    BY <1>8, ReviewType DEF ApproveBypassRequest
  <2> QED
    BY <1>8, <2>1, <2>2, CompleteStationTxType DEF ApproveBypassRequest
<1>9. ASSUME NEW f \in filings, PendingBypassChecked(f) \/ AttemptsCounted(f) \/ FilingEnds(f)
      PROVE  TypeInv'
  <2>1. f \in Filings
    OBVIOUS
  <2>2. CASE PendingBypassChecked(f)
    <3>1. [f EXCEPT !.at = "count"] \in Filings
      BY <2>1 DEF Filings
    <3>2. [f EXCEPT !.at = "count"].at # "insert"
      BY <2>1 DEF Filings
    <3> QED
      BY <2>2, <3>1, <3>2 DEF PendingBypassChecked, GoesOn
  <2>3. CASE AttemptsCounted(f)
    <3> DEFINE n == Cardinality(NonPendingBypassRequests(f.order, f.station)) + 1
               g == [f EXCEPT !.at = "insert", !.attempt = n]
    <3>1. n \in Nat /\ n > 0 /\ n <= MaxBypassAttemptsPerStation
      BY <2>3, AttemptType, AttemptsAssumption DEF AttemptsCounted
    <3>2. GoesOn(f, g)
      BY <2>3 DEF AttemptsCounted
    <3> HIDE DEF n
    <3>3. n \in 0..MaxBypassAttemptsPerStation
      BY <3>1, AttemptsAssumption
    <3>4. g \in Filings
      BY <2>1, <3>3 DEF Filings
    <3>5. g.attempt > 0
      BY <2>1, <3>1 DEF Filings
    <3> HIDE DEF g
    <3> QED
      BY <3>2, <3>4, <3>5 DEF GoesOn
  <2>4. CASE FilingEnds(f)
    BY <2>4 DEF FilingEnds
  <2> QED
    BY <1>9, <2>2, <2>3, <2>4
<1> QED
  BY <1>1, <1>2, <1>3, <1>4, <1>5, <1>6, <1>7, <1>8, <1>9 DEF StationNext

LEMMA PaymentTypeInv == TypeInv /\ Payment => TypeInv'
<1> SUFFICES ASSUME TypeInv, Payment PROVE TypeInv'
  OBVIOUS
<1> USE DEF TypeInv, TypeOK, PaymentRows, TablesTypeOK, CronTypeOK, DispatchTypeOK,
      StationTypeOK, GatewayTypeOK, PaymentTypeOK, Payment, gatewayVars, stationVars,
      payVars, taskVars, orderVars, tableVars
<1>1. ASSUME NEW o \in Orders, CreateTransactionCheck(o) PROVE TypeInv'
  BY <1>1 DEF CreateTransactionCheck, PayCall, PayCalls
<1>2. ASSUME NEW o \in Orders, SyncReadsPayment(o) PROVE TypeInv'
  BY <1>2 DEF SyncReadsPayment, PayCall, PayCalls
<1>3. ASSUME NEW o \in Orders, NEW n \in notices, WebhookReadsPayment(n, o) PROVE TypeInv'
  <2> DEFINE new == resolvePaymentStatus(payStatus[o], n.state)
  <2>1. n.tx \in GatewayTxs /\ n.state \in NotifiedStates /\ gatewayTx[o] = n.tx
    BY <1>3 DEF WebhookReadsPayment, Notices
  <2>2. payStatus[o] \in PaymentStatuses /\ gatewayTx[o] # NULL
    BY <2>1, NullAssumption
  <2>3. new \in PaymentStatuses
    BY <2>2 DEF resolvePaymentStatus, PaymentStatuses
  <2>4. payCalls' \subseteq PayCalls /\ \A c \in payCalls' \ payCalls : c.order = o
    BY <1>3, <2>3 DEF WebhookReadsPayment, PayCall, PayCalls
  <2>5. UNCHANGED <<tableVars, txOrder, txState>> /\ notices' \subseteq notices
    BY <1>3 DEF WebhookReadsPayment, Deliver
  <2> QED
    BY <2>2, <2>4, <2>5
<1>4. ASSUME NEW n \in notices, WebhookFindsNoPayment(n) PROVE TypeInv'
  BY <1>4 DEF WebhookFindsNoPayment, Deliver
<1>5. ASSUME NEW c \in payCalls, NEW g \in GatewayTxs, CreateTransaction(c, g)
      PROVE  TypeInv'
  <2>1. c.order \in Orders
    BY DEF PayCalls
  <2> QED
    BY <1>5, <2>1, NullAssumption
    DEF CreateTransaction, OpenTransaction, UpsertPaymentForOrder, PaymentStatuses, NotifiedStates
<1>6. ASSUME NEW c \in payCalls, SyncChecksTransaction(c) PROVE TypeInv'
  <2> DEFINE new == resolvePaymentStatus(c.status, txState[c.tx])
  <2>1. c.order \in Orders /\ c.status \in PaymentStatuses /\ c.phase = "query"
    BY <1>6 DEF SyncChecksTransaction, PayCalls
  <2>2. new \in PaymentStatuses
    BY <2>1 DEF resolvePaymentStatus, PaymentStatuses
  <2>3. PayCall("apply", c.order, NULL, new) \in PayCalls
    BY <2>1, <2>2 DEF PayCall, PayCalls
  <2>4. gatewayTx[PayCall("apply", c.order, NULL, new).order] # NULL
    BY <2>1 DEF PayCall
  <2> QED
    BY <1>6, <2>3, <2>4 DEF SyncChecksTransaction, Continue
<1>7. ASSUME NEW c \in payCalls, GatewayCallFails(c) PROVE TypeInv'
  BY <1>7 DEF GatewayCallFails
<1>8. ASSUME NEW c \in payCalls, WebhookReadsOrder(c) PROVE TypeInv'
  <2> DEFINE d == PayCall("apply", c.order, NULL, c.status)
  <2>1. c.order \in Orders /\ c.status \in PaymentStatuses /\ c.phase = "recheck"
    BY <1>8 DEF WebhookReadsOrder, PayCalls
  <2>2. d \in PayCalls /\ d.order = c.order
    BY <2>1 DEF PayCall, PayCalls
  <2>3. payCalls' \subseteq payCalls \cup {d} /\ UNCHANGED <<tableVars, gatewayVars>>
    BY <1>8 DEF WebhookReadsOrder, Continue
  <2> HIDE DEF d
  <2> QED
    BY <2>1, <2>2, <2>3
<1>9. ASSUME NEW c \in payCalls, ApplyPayment(c) PROVE TypeInv'
  <2>1. c.order \in Orders /\ c.status \in PaymentStatuses /\ c.phase = "apply"
    BY <1>9 DEF ApplyPayment, PayCalls
  <2>2. /\ payStatus' \in [Orders -> PaymentStatuses \cup {"none"}]
        /\ UNCHANGED gatewayTx
        /\ \A o \in Orders : payStatus'[o] = "none" <=> gatewayTx'[o] = NULL
    BY <1>9, <2>1 DEF ApplyPayment, applyPaymentStatus, UpdatePaymentStatus, PaymentStatuses
  <2>3. /\ orderStatus' \in [Orders -> OrderStatuses \cup {"none"}]
        /\ history' \in [Orders -> Seq(HistoryRows)]
        /\ taskStatus' \in [Orders -> [TaskTypes -> TaskStatuses]]
        /\ taskDriver' \in [Orders -> [TaskTypes -> Drivers \cup {NULL}]]
    <3>1. CASE c.status = "paid" /\ orderStatus[c.order] = "waiting_payment"
      <4>1. /\ UpdateOrderStatusIfCurrent(c.order, "waiting_payment", "ready_for_delivery")
            /\ CreateDriverTask(c.order, "delivery")
            /\ CreateOrderStatusHistory(c.order, "waiting_payment", "ready_for_delivery")
        BY <1>9, <3>1 DEF ApplyPayment, applyPaymentStatus
      <4>2. /\ {"waiting_payment", "ready_for_delivery"} \subseteq OrderStatuses
            /\ "delivery" \in TaskTypes
        BY DEF OrderStatuses, TaskTypes
      <4> QED
        BY <2>1, <4>1, <4>2, UpdateOrderStatusType, CreateHistoryType, CreateTaskType
    <3>2. CASE ~ (c.status = "paid" /\ orderStatus[c.order] = "waiting_payment")
      BY <1>9, <3>2 DEF ApplyPayment, applyPaymentStatus
    <3> QED
      BY <3>1, <3>2
  <2> QED
    BY <1>9, <2>1, <2>2, <2>3 DEF ApplyPayment, applyPaymentStatus
<1> QED
  BY <1>1, <1>2, <1>3, <1>4, <1>5, <1>6, <1>7, <1>8, <1>9 DEF PaymentNext, PayCallStep

LEMMA GatewayTypeInv == TypeInv /\ Gateway => TypeInv'
<1> SUFFICES ASSUME TypeInv, Gateway PROVE TypeInv'
  OBVIOUS
<1> PICK g \in GatewayTxs, new \in NotifiedStates :
      TransactionMoves(g, new) /\ UNCHANGED payCalls
  BY DEF Gateway, GatewayNext
<1> QED
  BY DEF TypeInv, TypeOK, PaymentRows, TablesTypeOK, CronTypeOK, DispatchTypeOK,
      StationTypeOK, GatewayTypeOK, PaymentTypeOK, Gateway, stationVars,
      payVars, taskVars, orderVars, tableVars, TransactionMoves, Notices

LEMMA CrashTypeInv == TypeInv /\ Crash => TypeInv'
  BY DEF TypeInv, TypeOK, PaymentRows, TablesTypeOK, CronTypeOK, DispatchTypeOK,
      StationTypeOK, GatewayTypeOK, PaymentTypeOK, Crash, gatewayVars,
      payVars, taskVars, orderVars, tableVars

LEMMA StutterTypeInv == TypeInv /\ UNCHANGED vars => TypeInv'
  BY DEF TypeInv, TypeOK, PaymentRows, TablesTypeOK, CronTypeOK, DispatchTypeOK,
      StationTypeOK, GatewayTypeOK, PaymentTypeOK, vars, inFlight, gatewayVars,
      stationVars, payVars, taskVars, orderVars, tableVars

LEMMA TypeInvInductive == Spec => []TypeInv
<1>1. TypeInv /\ [Next]_vars => TypeInv'
  BY IntakeTypeInv, CronTypeInv, DispatchTypeInv, StationTypeInv, PaymentTypeInv,
     GatewayTypeInv, CrashTypeInv, StutterTypeInv DEF Next
<1> QED
  BY <1>1, InitTypeInv, PTL DEF Spec

\* Every column of every table and every request in flight keeps the type the
\* schema and the handlers give it; in particular no status of the gateway
\* reaches payments.status outside its CHECK set, and no attempt number
\* passes the allowed attempts.
THEOREM TypeCorrect == Spec => []TypeOK
  BY TypeInvInductive, PTL DEF TypeInv
=============================================================================
