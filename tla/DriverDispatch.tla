---------------------------- MODULE DriverDispatch ----------------------------
(***************************************************************************)
(* The driver's requests of internal/order/handler_driver.go.  Claiming a  *)
(* task is two steps: the checks read the tables outside the transaction,  *)
(* the transaction runs later.  Completing a task is one: its two guards   *)
(* are in the transaction.                                                 *)
(***************************************************************************)
EXTENDS OrderTables

CONSTANT MaxClaims   \* bound: claims between check and transaction

VARIABLE
  claims   \* claims that passed the checks and have not run their transaction

ClaimRequests == [driver : Drivers, order : Orders, type : TaskTypes]

DispatchTypeOK == claims \subseteq ClaimRequests

DispatchInit == claims = {}

ActiveTasks(d) ==
  {t \in Orders \X TaskTypes :
     taskDriver[t[1]][t[2]] = d /\ taskStatus[t[1]][t[2]] = "in_progress"}

\* assertDriverEligibility and the friendly pre-check of ClaimTask.
ClaimTaskCheck(d, o, type) ==
  /\ Cardinality(claims) < MaxClaims
  /\ ActiveTasks(d) = {}
  /\ taskStatus[o][type] = "available"
  /\ taskDriver[o][type] = NULL
  /\ claims' = claims \cup {[driver |-> d, order |-> o, type |-> type]}
  /\ UNCHANGED tableVars

\* The transaction of ClaimTask: the old status in the history row is the
\* one the task type implies, not one that was read.
ClaimTask(c) ==
  /\ c \in claims
  /\ claims' = claims \ {c}
  /\ ClaimDriverTaskIfAvailable(c.driver, c.order, c.type)
  /\ ClaimOrderForTask(c.order, claimNextStatus[c.type])
  /\ CreateOrderStatusHistory(c.order, claimOldStatus[c.type], claimNextStatus[c.type])
  /\ UNCHANGED <<billed, autoConfirm, payVars, bypass>>

\* 409 task_already_claimed: another driver was faster.
ClaimTaskLost(c) ==
  /\ c \in claims
  /\ claims' = claims \ {c}
  /\ taskStatus[c.order][c.type] # "available"
  /\ UNCHANGED tableVars

\* Mutant: the 48 hours never start.
CompleteTaskWithoutDeadline(d, o, type) ==
  /\ CompleteDriverTaskIfInProgress(d, o, type)
  /\ UpdateOrderStatusIfCurrent(o, completeOldStatus[type], completeNextStatus[type])
  /\ CreateOrderStatusHistory(o, completeOldStatus[type], completeNextStatus[type])
  /\ UNCHANGED <<autoConfirm, billed, payVars, bypass, claims>>

\* CompleteTask: a delivery starts the 48 hours of the auto-complete job.
CompleteTask(d, o, type) ==
  /\ CompleteDriverTaskIfInProgress(d, o, type)
  /\ UpdateOrderStatusIfCurrent(o, completeOldStatus[type], completeNextStatus[type])
  /\ autoConfirm' = IF completeNextStatus[type] = "received_by_customer"
                    THEN [autoConfirm EXCEPT ![o] = "future"]
                    ELSE autoConfirm
  /\ CreateOrderStatusHistory(o, completeOldStatus[type], completeNextStatus[type])
  /\ UNCHANGED <<billed, payVars, bypass, claims>>

DispatchNext ==
  \/ \E d \in Drivers, o \in Orders, type \in TaskTypes :
       ClaimTaskCheck(d, o, type) \/ CompleteTask(d, o, type)
  \/ \E c \in claims : ClaimTask(c) \/ ClaimTaskLost(c)
=============================================================================
