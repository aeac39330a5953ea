----------------------------- MODULE PaymentGateway -----------------------------
(***************************************************************************)
(* Midtrans, as internal/payment uses it (external: only its effects are   *)
(* known to the code).  A Snap call opens a transaction for an order; the  *)
(* customer's and the bank's acts move it; each move is notified to the    *)
(* webhook, and a notification may arrive late, more than once, out of     *)
(* order or never.                                                         *)
(***************************************************************************)
EXTENDS OrderTables

CONSTANTS
  MaxNotices, \* bound: notifications outstanding at once
  Redeliver   \* TRUE: every notification is sent again and again, whatever
              \* the answer; FALSE: it may stop after any delivery

ASSUME RedeliverAssumption == Redeliver \in BOOLEAN

VARIABLES
  txOrder,   \* the order a transaction was opened for
  txState,   \* the transaction's state at the gateway
  notices    \* the notifications still to be delivered (again)

gatewayVars == <<txOrder, txState, notices>>

\* "settlement" stands for settlement and for capture with fraud status
\* accept, "challenge" for any other capture, "deny" for deny, cancel and
\* failure, "refund" for the states the code does not name.
NotifiedStates == {"pending", "challenge", "settlement", "expire", "deny", "refund"}

Notices == [tx : GatewayTxs, state : NotifiedStates]

GatewayTypeOK ==
  /\ txOrder \in [GatewayTxs -> Orders \cup {NULL}]
  /\ txState \in [GatewayTxs -> NotifiedStates \cup {"unused", "created"}]
  /\ notices \subseteq Notices

GatewayInit ==
  /\ txOrder = [g \in GatewayTxs |-> NULL]
  /\ txState = [g \in GatewayTxs |-> "unused"]
  /\ notices = {}

\* snap.CreateTransaction
OpenTransaction(g, o) ==
  /\ txState[g] = "unused"
  /\ txOrder' = [txOrder EXCEPT ![g] = o]
  /\ txState' = [txState EXCEPT ![g] = "created"]
  /\ UNCHANGED notices

GatewayMoves ==
  {<<"created", "pending">>, <<"created", "challenge">>, <<"created", "settlement">>,
   <<"pending", "settlement">>, <<"pending", "expire">>, <<"pending", "deny">>,
   <<"challenge", "settlement">>, <<"challenge", "deny">>,
   <<"settlement", "refund">>}

TransactionMoves(g, new) ==
  /\ Cardinality(notices) < MaxNotices
  /\ <<txState[g], new>> \in GatewayMoves
  /\ txState' = [txState EXCEPT ![g] = new]
  /\ notices' = notices \cup {[tx |-> g, state |-> new]}
  /\ UNCHANGED <<txOrder, tableVars>>

\* One delivery of a notification, perhaps not the last.
Deliver(n) ==
  /\ n \in notices
  /\ \/ UNCHANGED notices
     \/ ~Redeliver /\ notices' = notices \ {n}
  /\ UNCHANGED <<txOrder, txState>>

\* The customer's money for the order has reached the gateway at some time.
Settled(o) ==
  \E g \in GatewayTxs : txOrder[g] = o /\ txState[g] \in {"settlement", "refund"}
=============================================================================
