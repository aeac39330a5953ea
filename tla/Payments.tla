-------------------------------- MODULE Payments --------------------------------
(***************************************************************************)
(* internal/payment: CreateTransaction, SyncPaymentStatus and the webhook. *)
(* Each reads the payment row outside its transaction, talks to the        *)
(* gateway or not, and then writes the row by its id whatever it holds by  *)
(* then.                                                                   *)
(***************************************************************************)
EXTENDS PaymentGateway

CONSTANT MaxPayCalls   \* bound: payment requests between read and write

VARIABLE
  payCalls   \* payment requests that have read the row and not written yet

\* CreateTransaction found the order unpaid; SyncPaymentStatus read the row,
\* with the status it saw and the transaction it will ask for; the webhook
\* resolved to the status the row had and will look at the order; the webhook
\* or the synchronisation will run applyPaymentStatus with status.
PayCalls ==
  [phase : {"create"}, order : Orders, tx : {NULL}, status : {"none"}]
    \cup
  [phase : {"query"}, order : Orders, tx : GatewayTxs, status : PaymentStatuses \ {"paid"}]
    \cup
  [phase : {"recheck", "apply"}, order : Orders, tx : {NULL}, status : PaymentStatuses]

PaymentTypeOK == payCalls \subseteq PayCalls

PaymentInit == payCalls = {}

PayCall(phase, o, g, st) == [phase |-> phase, order |-> o, tx |-> g, status |-> st]

\* A request passes from one phase to the next.
Continue(c, next) == payCalls' = (payCalls \ {c}) \cup {next}

\* Mutants: the gateway's word is stored as it came; a capture counts as paid
\* whatever its fraud status.
storeGatewayStatus(current, state) ==
  IF state = "settlement" THEN "paid" ELSE state

trustCapture(current, state) ==
  CASE state \in {"settlement", "challenge"} -> "paid"
    [] state = "pending"                     -> "pending"
    [] state = "expire"                      -> "expired"
    [] state = "deny"                        -> "failed"
    [] OTHER                                 -> current

resolvePaymentStatus(current, state) ==
  CASE state = "settlement"               -> "paid"
    [] state \in {"pending", "challenge"} -> "pending"
    [] state = "expire"                   -> "expired"
    [] state = "deny"                     -> "failed"
    [] OTHER                              -> current

\* Mutant: a payment moves its order wherever the order is.
applyPaymentAtAnyStatus(o, new) ==
  /\ UpdatePaymentStatus(o, new)
  /\ IF new = "paid"
       THEN /\ orderStatus' = [orderStatus EXCEPT ![o] = "ready_for_delivery"]
            /\ CreateDriverTask(o, "delivery")
            /\ CreateOrderStatusHistory(o, orderStatus[o], "ready_for_delivery")
       ELSE UNCHANGED <<orderStatus, taskVars, history>>
  /\ UNCHANGED <<billed, autoConfirm, bypass>>

\* The transaction shared by the webhook and SyncPaymentStatus.
applyPaymentStatus(o, new) ==
  /\ UpdatePaymentStatus(o, new)
  /\ IF new = "paid" /\ orderStatus[o] = "waiting_payment"
       THEN /\ UpdateOrderStatusIfCurrent(o, "waiting_payment", "ready_for_delivery")
            /\ CreateDriverTask(o, "delivery")
            /\ CreateOrderStatusHistory(o, "waiting_payment", "ready_for_delivery")
       ELSE UNCHANGED <<orderStatus, taskVars, history>>
  /\ UNCHANGED <<billed, autoConfirm, bypass>>

-----------------------------------------------------------------------------
(* CreateTransaction *)

CreateTransactionCheck(o) ==
  /\ Cardinality(payCalls) < MaxPayCalls
  /\ billed[o]
  /\ payStatus[o] # "paid"
  /\ payCalls' = payCalls \cup {PayCall("create", o, NULL, "none")}
  /\ UNCHANGED <<tableVars, gatewayVars>>

\* The Snap call and the upsert.  Nobody but this request knows the
\* transaction before the upsert has stored its link, so the two are a step.
CreateTransaction(c, g) ==
  /\ c \in payCalls
  /\ c.phase = "create"
  /\ payCalls' = payCalls \ {c}
  /\ OpenTransaction(g, c.order)
  /\ UpsertPaymentForOrder(c.order, g)
  /\ UNCHANGED <<orderVars, taskVars, bypass>>

(* SyncPaymentStatus *)

SyncReadsPayment(o) ==
  /\ Cardinality(payCalls) < MaxPayCalls
  /\ payStatus[o] \notin {"none", "paid"}
  /\ payCalls' = payCalls \cup {PayCall("query", o, gatewayTx[o], payStatus[o])}
  /\ UNCHANGED <<tableVars, gatewayVars>>

\* coreapi.CheckTransaction: the gateway knows no transaction for which the
\* customer has not chosen a way to pay.
SyncChecksTransaction(c) ==
  /\ c \in payCalls
  /\ c.phase = "query"
  /\ txState[c.tx] \in NotifiedStates
  /\ Continue(c, PayCall("apply", c.order, NULL,
                         resolvePaymentStatus(c.status, txState[c.tx])))
  /\ UNCHANGED <<tableVars, gatewayVars>>

\* 502: the Snap call or the status query failed and the request ends.  (A
\* transaction Snap opened all the same has a link nobody ever sees.)
GatewayCallFails(c) ==
  /\ c \in payCalls
  /\ c.phase \in {"create", "query"}
  /\ payCalls' = payCalls \ {c}
  /\ UNCHANGED <<tableVars, gatewayVars>>

(* HandleWebhook *)

\* The row is looked up by transaction number, so a notification for a
\* transaction that has been replaced finds none.
WebhookReadsPayment(n, o) ==
  LET new == resolvePaymentStatus(payStatus[o], n.state)
  IN  /\ Cardinality(payCalls) < MaxPayCalls
      /\ gatewayTx[o] = n.tx
      /\ Deliver(n)
      /\ payCalls' = payCalls \cup
           {PayCall(IF new = payStatus[o] THEN "recheck" ELSE "apply", o, NULL, new)}
      /\ UNCHANGED tableVars

\* 404 payment_not_found
WebhookFindsNoPayment(n) ==
  /\ \A o \in Orders : gatewayTx[o] # n.tx
  /\ Deliver(n)
  /\ UNCHANGED <<tableVars, payCalls>>

\* Mutant: a status the row already has is always "already processed".
WebhookShortCircuits(c) ==
  /\ c \in payCalls
  /\ c.phase = "recheck"
  /\ payCalls' = payCalls \ {c}
  /\ UNCHANGED <<tableVars, gatewayVars>>

\* Already processed, unless the order still waits for its payment.
WebhookReadsOrder(c) ==
  /\ c \in payCalls
  /\ c.phase = "recheck"
  /\ IF orderStatus[c.order] = "waiting_payment"
       THEN Continue(c, PayCall("apply", c.order, NULL, c.status))
       ELSE payCalls' = payCalls \ {c}
  /\ UNCHANGED <<tableVars, gatewayVars>>

ApplyPayment(c) ==
  /\ c \in payCalls
  /\ c.phase = "apply"
  /\ payCalls' = payCalls \ {c}
  /\ applyPaymentStatus(c.order, c.status)
  /\ UNCHANGED gatewayVars

\* What a request in flight does next.
PayCallStep(c) ==
  \/ \E g \in GatewayTxs : CreateTransaction(c, g)
  \/ SyncChecksTransaction(c)
  \/ GatewayCallFails(c)
  \/ WebhookReadsOrder(c)
  \/ ApplyPayment(c)

PaymentNext ==
  \/ \E o \in Orders :
       \/ CreateTransactionCheck(o)
       \/ SyncReadsPayment(o)
       \/ \E n \in notices : WebhookReadsPayment(n, o)
  \/ \E n \in notices : WebhookFindsNoPayment(n)
  \/ \E c \in payCalls : PayCallStep(c)

GatewayNext ==
  \E g \in GatewayTxs, new \in NotifiedStates :
    TransactionMoves(g, new) /\ UNCHANGED payCalls
=============================================================================
