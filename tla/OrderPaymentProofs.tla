------------------------- MODULE OrderPaymentProofs -------------------------
(***************************************************************************)
(* What the tables, the notifications and the requests in flight say was   *)
(* paid has been settled at the gateway: the inductive invariant MoneyInv. *)
(***************************************************************************)
EXTENDS OrderTypeProofs

-----------------------------------------------------------------------------
(* Money: what the tables and the requests in flight say was paid has been *)
(* settled at the gateway.                                                 *)

\* The transaction a payment row names was opened for that order.
LinksTrue ==
  \A o \in Orders : gatewayTx[o] # NULL =>
    txOrder[gatewayTx[o]] = o /\ txState[gatewayTx[o]] # "unused"

\* A notice of settlement, however late, is of a settled transaction.
NoticesTrue ==
  \A n \in notices : n.state = "settlement" => txState[n.tx] \in {"settlement", "refund"}

PaidTrue == \A o \in Orders : payStatus[o] = "paid" => Settled(o)

CallsTrue ==
  \A c \in payCalls :
    /\ c.phase = "query" => txOrder[c.tx] = c.order /\ txState[c.tx] # "unused"
    /\ c.phase \in {"recheck", "apply"} /\ c.status = "paid" => Settled(c.order)

PackingsTrue == \A p \in packings : p.next = "ready_for_delivery" => Settled(p.order)

MoneyInv == LinksTrue /\ NoticesTrue /\ PaidTrue /\ CallsTrue /\ PackingsTrue

LEMMA InitMoneyInv == Init => MoneyInv
  BY DEF Init, MoneyInv, LinksTrue, NoticesTrue, PaidTrue, CallsTrue, PackingsTrue,
     TablesInit, StationInit, GatewayInit, PaymentInit

\* A status resolved to paid was paid before or comes from a settlement.
LEMMA ResolvePaid ==
  ASSUME NEW current, NEW state, resolvePaymentStatus(current, state) = "paid",
         current # "paid"
  PROVE  state = "settlement"
<1> SUFFICES ASSUME state # "settlement" PROVE FALSE
  OBVIOUS
<1>1. CASE state \in {"pending", "challenge"}
  BY <1>1 DEF resolvePaymentStatus
<1>2. CASE state = "expire"
  BY <1>2 DEF resolvePaymentStatus
<1>3. CASE state = "deny"
  BY <1>3 DEF resolvePaymentStatus
<1>4. CASE state \notin {"pending", "challenge", "expire", "deny"}
  BY <1>4 DEF resolvePaymentStatus
<1> QED
  BY <1>1, <1>2, <1>3, <1>4

LEMMA OpenKeepsSettled ==
  ASSUME NEW g \in GatewayTxs, NEW o, OpenTransaction(g, o), TypeInv
  PROVE  /\ txOrder' = [txOrder EXCEPT ![g] = o]
         /\ txState' = [txState EXCEPT ![g] = "created"]
         /\ \A p \in Orders : Settled(p) => Settled(p)'
  BY DEF OpenTransaction, TypeInv, TypeOK, GatewayTypeOK, Settled

LEMMA MoveKeepsSettled ==
  ASSUME NEW g \in GatewayTxs, NEW new, TransactionMoves(g, new), TypeInv
  PROVE  \A p \in Orders : Settled(p) => Settled(p)'
  BY DEF TransactionMoves, GatewayMoves, TypeInv, TypeOK, GatewayTypeOK, Settled

\* The steps that touch neither payments nor the gateway's transactions.
LEMMA MoneyFrame ==
  ASSUME MoneyInv, UNCHANGED <<payVars, txOrder, txState>>,
         notices' \subseteq notices, payCalls' \subseteq payCalls, packings' \subseteq packings
  PROVE  MoneyInv'
  BY DEF MoneyInv, LinksTrue, NoticesTrue, PaidTrue, CallsTrue, PackingsTrue, payVars, Settled

\* A payment request begins or goes on.
LEMMA MoneyCallFrame ==
  ASSUME TypeInv, MoneyInv, UNCHANGED <<payVars, txOrder, txState, packings>>,
         notices' \subseteq notices, NEW c, payCalls' \subseteq payCalls \cup {c},
         c.phase = "query" => txOrder[c.tx] = c.order /\ txState[c.tx] # "unused",
         c.phase \in {"recheck", "apply"} /\ c.status = "paid" => Settled(c.order)
  PROVE  MoneyInv'
  BY DEF MoneyInv, LinksTrue, NoticesTrue, PaidTrue, CallsTrue, PackingsTrue, payVars, Settled

LEMMA StationMoney == TypeInv /\ MoneyInv /\ Station => MoneyInv'
<1> SUFFICES ASSUME TypeInv, MoneyInv, Station PROVE MoneyInv'
  OBVIOUS
<1>0. UNCHANGED <<txOrder, txState, notices, payCalls>>
  BY DEF Station, gatewayVars
<1> USE DEF tableVars, payVars
<1>1. ASSUME NEW o \in Orders, NEW s \in Stations, CompleteStation(o, s) PROVE MoneyInv'
  BY <1>0, <1>1, MoneyFrame DEF CompleteStation, CompleteStationTx, stationVars
<1>2. ASSUME NEW o \in Orders, NEW b \in BypassIds \cup {NULL}, PackingReadsPayment(o, b)
      PROVE  MoneyInv'
  BY <1>0, <1>2
  DEF PackingReadsPayment, stationNextStatus, MoneyInv, LinksTrue, NoticesTrue, PaidTrue,
      CallsTrue, PackingsTrue, Settled
<1>3. ASSUME NEW p \in packings, PackingCommit(p) PROVE MoneyInv'
  BY <1>0, <1>3, MoneyFrame DEF PackingCommit, CompleteStationTx
<1>4. ASSUME NEW p \in packings, PackingLost(p) PROVE MoneyInv'
  BY <1>0, <1>4, MoneyFrame DEF PackingLost
<1>5. ASSUME NEW w \in BypassWorkers, NEW o \in Orders, NEW s \in Stations,
             FileBypassRequest(w, o, s)
      PROVE  MoneyInv'
  BY <1>0, <1>5, MoneyFrame DEF FileBypassRequest
<1>6. ASSUME NEW f \in filings, NEW b \in BypassIds, CreateBypassRequest(f, b)
      PROVE  MoneyInv'
  BY <1>0, <1>6, MoneyFrame DEF CreateBypassRequest
<1>7. ASSUME NEW b \in BypassIds, RejectBypassRequest(b) PROVE MoneyInv'
  BY <1>0, <1>7, MoneyFrame DEF RejectBypassRequest, stationVars
<1>8. ASSUME NEW b \in BypassIds, ApproveBypassRequest(b) PROVE MoneyInv'
  BY <1>0, <1>8, MoneyFrame DEF ApproveBypassRequest, CompleteStationTx, stationVars
<1>9. ASSUME NEW f \in filings, PendingBypassChecked(f) \/ AttemptsCounted(f) \/ FilingEnds(f)
      PROVE  MoneyInv'
  BY <1>0, <1>9, MoneyFrame DEF PendingBypassChecked, AttemptsCounted, FilingEnds, GoesOn
<1> QED
  BY <1>1, <1>2, <1>3, <1>4, <1>5, <1>6, <1>7, <1>8, <1>9 DEF Station, StationNext

LEMMA PaymentMoney == TypeInv /\ MoneyInv /\ Payment => MoneyInv'
<1> SUFFICES ASSUME TypeInv, MoneyInv, Payment PROVE MoneyInv'
  OBVIOUS
<1>0. UNCHANGED packings
  BY DEF Payment, stationVars
<1> USE DEF tableVars, payVars, gatewayVars
<1>1. ASSUME NEW o \in Orders, CreateTransactionCheck(o) PROVE MoneyInv'
  BY <1>0, <1>1, MoneyCallFrame DEF CreateTransactionCheck, PayCall
<1>2. ASSUME NEW o \in Orders, SyncReadsPayment(o) PROVE MoneyInv'
  <2>1. gatewayTx[o] # NULL
    BY <1>2 DEF SyncReadsPayment, TypeInv, PaymentRows
  <2>2. txOrder[gatewayTx[o]] = o /\ txState[gatewayTx[o]] # "unused"
    BY <2>1 DEF MoneyInv, LinksTrue
  <2> QED
    BY <1>0, <1>2, <2>2, MoneyCallFrame DEF SyncReadsPayment, PayCall
<1>3. ASSUME NEW o \in Orders, NEW n \in notices, WebhookReadsPayment(n, o) PROVE MoneyInv'
  <2> DEFINE new == resolvePaymentStatus(payStatus[o], n.state)
             c == PayCall(IF new = payStatus[o] THEN "recheck" ELSE "apply", o, NULL, new)
  <2>1. gatewayTx[o] = n.tx /\ n.tx # NULL
    BY <1>3, NullAssumption DEF WebhookReadsPayment, TypeInv, TypeOK, GatewayTypeOK, Notices
  <2>2. ASSUME new = "paid" PROVE Settled(o)
    <3>1. CASE payStatus[o] = "paid"
      BY <3>1 DEF MoneyInv, PaidTrue
    <3>2. CASE n.state = "settlement"
      BY <2>1, <3>2 DEF MoneyInv, LinksTrue, NoticesTrue, Settled, TypeInv, TypeOK,
         GatewayTypeOK, Notices
    <3> QED
      BY <2>2, <3>1, <3>2, ResolvePaid
  <2>3. c.order = o /\ c.status = new /\ c.phase # "query"
    BY DEF PayCall
  <2>4. /\ payCalls' = payCalls \cup {c}
        /\ UNCHANGED <<payVars, txOrder, txState>> /\ notices' \subseteq notices
    BY <1>3 DEF WebhookReadsPayment, Deliver
  <2> HIDE DEF c, new
  <2> QED
    BY <1>0, <2>2, <2>3, <2>4, MoneyCallFrame
<1>4. ASSUME NEW n \in notices, WebhookFindsNoPayment(n) PROVE MoneyInv'
  BY <1>0, <1>4, MoneyFrame DEF WebhookFindsNoPayment, Deliver
<1>5. ASSUME NEW c \in payCalls, NEW g \in GatewayTxs, CreateTransaction(c, g)
      PROVE  MoneyInv'
  <2>1. /\ c.order \in Orders /\ g # NULL
        /\ payStatus' = [payStatus EXCEPT ![c.order] = "pending"]
        /\ gatewayTx' = [gatewayTx EXCEPT ![c.order] = g]
        /\ payCalls' \subseteq payCalls /\ UNCHANGED notices
        /\ OpenTransaction(g, c.order) /\ txState[g] = "unused"
    BY <1>5, NullAssumption
    DEF CreateTransaction, UpsertPaymentForOrder, OpenTransaction, TypeInv, TypeOK,
        PaymentTypeOK, PayCalls
  <2>2. /\ txOrder' = [txOrder EXCEPT ![g] = c.order]
        /\ txState' = [txState EXCEPT ![g] = "created"]
        /\ \A p \in Orders : Settled(p) => Settled(p)'
    BY <2>1, OpenKeepsSettled
  <2>3. LinksTrue'
    BY <2>1, <2>2 DEF MoneyInv, LinksTrue, TypeInv, TypeOK, TablesTypeOK, GatewayTypeOK
  <2>4. NoticesTrue'
    BY <2>1, <2>2 DEF MoneyInv, NoticesTrue, TypeInv, TypeOK, GatewayTypeOK, Notices
  <2>5. PaidTrue'
    BY <2>1, <2>2 DEF MoneyInv, PaidTrue, TypeInv, TypeOK, TablesTypeOK
  <2>6. CallsTrue'
    BY <2>1, <2>2 DEF MoneyInv, CallsTrue, TypeInv, TypeOK, GatewayTypeOK, PaymentTypeOK, PayCalls
  <2>7. PackingsTrue'
    BY <1>0, <2>2 DEF MoneyInv, PackingsTrue, TypeInv, TypeOK, StationTypeOK, PackingTxs
  <2> QED
    BY <2>3, <2>4, <2>5, <2>6, <2>7 DEF MoneyInv
<1>6. ASSUME NEW c \in payCalls, SyncChecksTransaction(c) PROVE MoneyInv'
  <2> DEFINE new == resolvePaymentStatus(c.status, txState[c.tx])
             d == PayCall("apply", c.order, NULL, new)
  <2>1. c.phase = "query" /\ c.status # "paid" /\ c.tx \in GatewayTxs
    BY <1>6 DEF SyncChecksTransaction, TypeInv, TypeOK, PaymentTypeOK, PayCalls, PaymentStatuses
  <2>2. ASSUME new = "paid" PROVE Settled(c.order)
    <3>1. txState[c.tx] = "settlement"
      BY <2>1, <2>2, ResolvePaid
    <3> QED
      BY <2>1, <3>1 DEF MoneyInv, CallsTrue, Settled
  <2>3. d.order = c.order /\ d.status = new /\ d.phase = "apply"
    BY DEF PayCall
  <2>4. payCalls' \subseteq payCalls \cup {d} /\ UNCHANGED <<payVars, txOrder, txState, notices>>
    BY <1>6 DEF SyncChecksTransaction, Continue
  <2> HIDE DEF d, new
  <2> QED
    BY <1>0, <2>2, <2>3, <2>4, MoneyCallFrame
<1>7. ASSUME NEW c \in payCalls, GatewayCallFails(c) PROVE MoneyInv'
  BY <1>0, <1>7, MoneyFrame DEF GatewayCallFails
<1>8. ASSUME NEW c \in payCalls, WebhookReadsOrder(c) PROVE MoneyInv'
  <2> DEFINE d == PayCall("apply", c.order, NULL, c.status)
  <2>1. d.order = c.order /\ d.status = c.status /\ d.phase = "apply" /\ c.phase = "recheck"
    BY <1>8 DEF PayCall, WebhookReadsOrder
  <2>2. payCalls' \subseteq payCalls \cup {d} /\ UNCHANGED <<payVars, txOrder, txState, notices>>
    BY <1>8 DEF WebhookReadsOrder, Continue
  <2>3. d.status = "paid" => Settled(d.order)
    BY <2>1 DEF MoneyInv, CallsTrue
  <2> HIDE DEF d
  <2> QED
    BY <1>0, <2>1, <2>2, <2>3, MoneyCallFrame
<1>9. ASSUME NEW c \in payCalls, ApplyPayment(c) PROVE MoneyInv'
  <2>1. /\ payStatus' = [payStatus EXCEPT ![c.order] = c.status]
        /\ UNCHANGED <<gatewayTx, txOrder, txState, notices>>
        /\ payCalls' \subseteq payCalls /\ c.phase = "apply"
    BY <1>9 DEF ApplyPayment, applyPaymentStatus, UpdatePaymentStatus
  <2>2. c.status = "paid" => Settled(c.order)
    BY <2>1 DEF MoneyInv, CallsTrue
  <2> QED
    BY <1>0, <2>1, <2>2
    DEF MoneyInv, LinksTrue, NoticesTrue, PaidTrue, CallsTrue, PackingsTrue, Settled,
        TypeInv, TypeOK, TablesTypeOK
<1> QED
  BY <1>1, <1>2, <1>3, <1>4, <1>5, <1>6, <1>7, <1>8, <1>9
  DEF Payment, PaymentNext, PayCallStep

LEMMA GatewayMoney == TypeInv /\ MoneyInv /\ Gateway => MoneyInv'
<1> SUFFICES ASSUME TypeInv, MoneyInv, Gateway PROVE MoneyInv'
  OBVIOUS
<1> PICK g \in GatewayTxs, new \in NotifiedStates :
      TransactionMoves(g, new) /\ UNCHANGED payCalls
  BY DEF Gateway, GatewayNext
<1>1. /\ txState' = [txState EXCEPT ![g] = new] /\ new # "unused"
      /\ txState[g] = "settlement" => new = "refund"
      /\ notices' = notices \cup {[tx |-> g, state |-> new]}
      /\ UNCHANGED <<txOrder, payVars, packings, payCalls>>
  BY DEF TransactionMoves, GatewayMoves, Gateway, stationVars, tableVars
<1>2. \A p \in Orders : Settled(p) => Settled(p)'
  BY MoveKeepsSettled
<1>3. LinksTrue'
  BY <1>1 DEF MoneyInv, LinksTrue, TypeInv, TypeOK, GatewayTypeOK, payVars
<1>4. NoticesTrue'
  BY <1>1 DEF MoneyInv, NoticesTrue, TypeInv, TypeOK, GatewayTypeOK, Notices,
     TransactionMoves, GatewayMoves
<1>5. PaidTrue' /\ CallsTrue' /\ PackingsTrue'
  BY <1>1, <1>2 DEF MoneyInv, PaidTrue, CallsTrue, PackingsTrue, payVars, TypeInv, TypeOK,
     GatewayTypeOK, PaymentTypeOK, PayCalls, StationTypeOK, PackingTxs
<1> QED
  BY <1>3, <1>4, <1>5 DEF MoneyInv

LEMMA OtherMoney ==
  TypeInv /\ MoneyInv /\ (Intake \/ Cron \/ Dispatch \/ Crash \/ UNCHANGED vars) => MoneyInv'
<1> SUFFICES ASSUME TypeInv, MoneyInv, Intake \/ Cron \/ Dispatch \/ Crash \/ UNCHANGED vars
             PROVE  MoneyInv'
  OBVIOUS
<1>1. UNCHANGED <<payVars, gatewayVars>>
  BY DEF Intake, IntakeNext, CreateOrder, ProcessOrder, CompleteOrder, FinishOrder, Cron,
     CronNext, ListOrdersReadyForAutoComplete, AutoConfirmPasses, AutoCompleteOrder,
     AutoCompleteSkip, AutoCompleteFails, Dispatch, DispatchNext, ClaimTaskCheck, ClaimTask, ClaimTaskLost,
     CompleteTask, Crash, vars, tableVars
<1>2. payCalls' \subseteq payCalls /\ packings' \subseteq packings
  BY DEF Intake, Cron, Dispatch, Crash, vars, inFlight, stationVars
<1> QED
  BY <1>1, <1>2, MoneyFrame DEF gatewayVars

LEMMA MoneyInvHolds == Spec => []MoneyInv
<1>1. TypeInv /\ MoneyInv /\ [Next]_vars => MoneyInv'
  BY StationMoney, PaymentMoney, GatewayMoney, OtherMoney DEF Next
<1> QED
  BY <1>1, InitMoneyInv, TypeInvInductive, PTL DEF Spec
=============================================================================
